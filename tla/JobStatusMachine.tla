-------------------------- MODULE JobStatusMachine --------------------------
(***************************************************************************)
(* What a caller of GET /content/:jobId is promised about the status of a  *)
(* job (README.md, JobStatus in domain.types.ts).  CANCELLED has no action:*)
(* nothing in the program cancels an AgentContext.                         *)
(*                                                                         *)
(* Two kinds of disturbance let a finished job be reopened: its redelivery *)
(* by the queue, and a server start, whose cleanup may call FAILED a job   *)
(* that somebody is still working on.                                      *)
(***************************************************************************)
CONSTANT Jobs
VARIABLES status,
          redelivered,  \* jobs the queue has delivered again without a failure
          restarted     \* a server has started since

vars == <<status, redelivered, restarted>>

Init ==
    /\ status = [j \in Jobs |-> "none"]
    /\ redelivered = {}
    /\ restarted \in BOOLEAN

Becomes(j, S) == \E st \in S : status' = [status EXCEPT ![j] = st]

Create(j) == status[j] = "none" /\ Becomes(j, {"QUEUED"})

Attempt(j) == status[j] \in {"QUEUED", "RETRYING"} /\ Becomes(j, {"RUNNING"})

\* A further attempt follows (RETRYING), or the job is over.
End(j) == status[j] = "RUNNING" /\ Becomes(j, {"RETRYING", "DONE", "FAILED"})

\* A starting server fails every RUNNING job in one UPDATE.
FailRunning ==
    /\ restarted
    /\ status' = [j \in Jobs |-> IF status[j] = "RUNNING" THEN "FAILED" ELSE status[j]]

\* FAILED was the verdict of a server start, not of the job's own run.
Survive(j) == restarted /\ status[j] = "FAILED" /\ Becomes(j, {"RUNNING", "RETRYING", "DONE"})

\* Only a redelivered job leaves DONE.
Redo(j) ==
    /\ j \in redelivered
    /\ status[j] # "none"
    /\ Becomes(j, {"RUNNING", "RETRYING", "DONE", "FAILED"})

Disturb ==
    /\ redelivered \subseteq redelivered'
    /\ restarted => restarted'
    /\ UNCHANGED status

Next ==
    \/ Disturb
    \/ /\ \/ \E j \in Jobs : Create(j) \/ Attempt(j) \/ End(j) \/ Survive(j) \/ Redo(j)
          \/ FailRunning
       /\ UNCHANGED <<redelivered, restarted>>

Spec == Init /\ [][Next]_vars
=============================================================================

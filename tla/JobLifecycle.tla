--------------------------- MODULE JobLifecycle ---------------------------
(***************************************************************************)
(* The life of content generation jobs across the server replicas:         *)
(*                                                                         *)
(*   ContentService.createJob and its start-up cleanup (content.service.ts)*)
(*   QueueService.enqueue                      (queue.service.ts)          *)
(*   ContentPipelineProcessor.process/onFailed (content-pipeline.          *)
(*                                              processor.ts)              *)
(*                                                                         *)
(* They share two stores: the content_jobs rows in Postgres and the BullMQ *)
(* queue in Redis.  BullMQ is external, modelled from how the code uses it:*)
(* a worker holds a lock on the job it processes; the lock of a dead       *)
(* worker, or of one that could not renew it, lapses and the job is queued *)
(* again once, or failed when that happens too often; a worker that lost   *)
(* its lock can no longer complete or fail the job, and gets no event.     *)
(*                                                                         *)
(* A replica has no shutdown hooks: a deployment's SIGTERM, an unhandled   *)
(* rejection and a crash are the same event here, Crash.                   *)
(***************************************************************************)
EXTENDS Integers, FiniteSets, Sequences

CONSTANTS Jobs, Replicas,
          Slots,            \* places of the workers' concurrency
          Home,             \* [Slots -> Replicas]
          None,             \* no slot, no job, no replica
          MaxAttempts,      \* PIPELINE_JOB_OPTIONS.attempts
          MaxStalledCount,  \* BullMQ's maxStalledCount (default 1)
          InitiallyUp,      \* replicas that serve at the start
          MaxCrashes,       \* bound: crashes
          MaxLapses,        \* bound: locks lost by live workers
          DbFaults,         \* the awaited database calls of process() that may fail
          LateWrites        \* TRUE: un-awaited row updates may be slower than
                            \* the retry's backoff

ASSUME AttemptsAssumption == MaxAttempts \in Nat \ {0}
ASSUME StalledAssumption  == MaxStalledCount \in Nat
ASSUME HomeAssumption     == Home \in [Slots -> Replicas]
ASSUME NoneAssumption     == None \notin Slots \cup Jobs \cup Replicas
ASSUME FaultAssumption    ==
    /\ MaxCrashes \in Nat /\ MaxLapses \in Nat
    /\ DbFaults \subseteq {"update", "brand", "save"}
    /\ LateWrites \in BOOLEAN
    /\ InitiallyUp \subseteq Replicas

VARIABLES
    \* content_jobs rows
    status, attempts, result, errorMessage,
    \* BullMQ
    qstate, attemptsMade, stalls, lock,
    \* requests to POST /generate, one per job, and the replica serving each
    api, host,
    \* worker slots: process() and onFailed()
    pc, job, made,
    \* per replica: row updates started with `void`, not yet executed
    writes,
    \* terminal SSE events sent for each job (job_done starts the evaluation too)
    events,
    \* replicas and the brand
    replica, brandActive, crashes, lapses

rowVars   == <<status, attempts, result, errorMessage>>
queueVars == <<qstate, attemptsMade, stalls, lock>>
apiVars   == <<api, host>>
slotVars  == <<pc, job, made>>
envVars   == <<replica, brandActive, crashes, lapses>>
vars == <<rowVars, queueVars, apiVars, slotVars, writes, events, envVars>>

JobStatus == {"QUEUED", "RUNNING", "RETRYING", "DONE", "FAILED"}
Live      == {"waiting", "active", "delayed"}
Busy      == {"update", "brand", "run", "save", "report", "complete", "failing", "onFailed"}

Alive(r) == replica[r] # "down"

\* Slot s still processes the job whose lock it was given.
HoldsLock(s) == lock[job[s]] = s
----------------------------------------------------------------------------
TypeOK ==
    /\ status \in [Jobs -> JobStatus \cup {"none"}]
    /\ attempts \in [Jobs -> Nat]
    /\ result \in [Jobs -> BOOLEAN]
    /\ errorMessage \in [Jobs -> BOOLEAN]
    /\ qstate \in [Jobs -> Live \cup {"absent", "completed", "failed"}]
    /\ attemptsMade \in [Jobs -> Nat]
    /\ stalls \in [Jobs -> Nat]
    /\ lock \in [Jobs -> Slots \cup {None}]
    /\ api \in [Jobs -> {"new", "saved", "accepted", "rejected"}]
    /\ host \in [Jobs -> Replicas \cup {None}]
    /\ pc \in [Slots -> Busy \cup {"idle"}]
    /\ job \in [Slots -> Jobs \cup {None}]
    /\ made \in [Slots -> Nat]
    /\ \A s \in Slots : pc[s] # "idle" => job[s] \in Jobs
    /\ writes \in [Replicas -> SUBSET (Jobs \X {"RETRYING", "FAILED"})]
    /\ events \in [Jobs -> Seq({"job_done", "error"})]
    /\ replica \in [Replicas -> {"up", "booting", "down"}]
    /\ brandActive \in BOOLEAN
    /\ crashes \in Nat /\ lapses \in Nat

Init ==
    /\ status = [j \in Jobs |-> "none"]
    /\ attempts = [j \in Jobs |-> 0]
    /\ result = [j \in Jobs |-> FALSE]
    /\ errorMessage = [j \in Jobs |-> FALSE]
    /\ qstate = [j \in Jobs |-> "absent"]
    /\ attemptsMade = [j \in Jobs |-> 0]
    /\ stalls = [j \in Jobs |-> 0]
    /\ lock = [j \in Jobs |-> None]
    /\ api = [j \in Jobs |-> "new"]
    /\ host = [j \in Jobs |-> None]
    /\ pc = [s \in Slots |-> "idle"]
    /\ job = [s \in Slots |-> None]
    /\ made = [s \in Slots |-> 0]
    /\ writes = [r \in Replicas |-> {}]
    /\ events = [j \in Jobs |-> <<>>]
    /\ replica = [r \in Replicas |-> IF r \in InitiallyUp THEN "up" ELSE "down"]
    /\ brandActive = TRUE
    /\ crashes = 0
    /\ lapses = 0
----------------------------------------------------------------------------
(* createJob *)

\* findById throws: no row, no queue entry.
RejectCreate(j, r) ==
    /\ api[j] = "new"
    /\ replica[r] = "up"
    /\ ~brandActive
    /\ api' = [api EXCEPT ![j] = "rejected"]
    /\ UNCHANGED <<rowVars, queueVars, host, slotVars, writes, events, envVars>>

SaveRow(j, r) ==
    /\ api[j] = "new"
    /\ replica[r] = "up"
    /\ brandActive
    /\ status' = [status EXCEPT ![j] = "QUEUED"]
    /\ api' = [api EXCEPT ![j] = "saved"]
    /\ host' = [host EXCEPT ![j] = r]
    /\ UNCHANGED <<attempts, result, errorMessage, queueVars, slotVars, writes, events, envVars>>

\* queue.add with jobId as the BullMQ id, then the 201 response.
Enqueue(j) ==
    /\ api[j] = "saved"
    /\ qstate' = [qstate EXCEPT ![j] = "waiting"]
    /\ api' = [api EXCEPT ![j] = "accepted"]
    /\ UNCHANGED <<rowVars, attemptsMade, stalls, lock, host, slotVars, writes, events, envVars>>

\* enqueue throws: the contract gate rejects the payload, or Redis fails, with
\* or without having stored the job.  The saved row is left as it is.
EnqueueFails(j) ==
    /\ api[j] = "saved"
    /\ \E q \in {"absent", "waiting"} : qstate' = [qstate EXCEPT ![j] = q]
    /\ api' = [api EXCEPT ![j] = "rejected"]
    /\ UNCHANGED <<rowVars, attemptsMade, stalls, lock, host, slotVars, writes, events, envVars>>
----------------------------------------------------------------------------
(* BullMQ: delivery, backoff and stalled jobs *)

Pick(s, j) ==
    /\ pc[s] = "idle"
    /\ Alive(Home[s])
    /\ qstate[j] = "waiting"
    /\ qstate' = [qstate EXCEPT ![j] = "active"]
    /\ lock' = [lock EXCEPT ![j] = s]
    /\ pc' = [pc EXCEPT ![s] = "update"]
    /\ job' = [job EXCEPT ![s] = j]
    /\ made' = [made EXCEPT ![s] = attemptsMade[j]]
    /\ UNCHANGED <<rowVars, attemptsMade, stalls, apiVars, writes, events, envVars>>

\* The handling of the last failure of j is not over.
Settling(j) ==
    \/ \E s \in Slots : pc[s] = "onFailed" /\ job[s] = j
    \/ \E r \in Replicas : \E w \in writes[r] : w[1] = j

\* The backoff delay is over.
Promote(j) ==
    /\ qstate[j] = "delayed"
    /\ LateWrites \/ ~Settling(j)
    /\ qstate' = [qstate EXCEPT ![j] = "waiting"]
    /\ UNCHANGED <<rowVars, attemptsMade, stalls, lock, apiVars, slotVars, writes, events, envVars>>

\* The worker that holds the lock of j is gone.
Orphaned(j) ==
    ~ \E s \in Slots : pc[s] # "idle" /\ job[s] = j /\ lock[j] = s

\* The lock of the active job j has expired: its worker is gone or, within the
\* bound, lives but failed to renew the lock in time.
LockExpired(j) ==
    /\ qstate[j] = "active"
    /\ \/ Orphaned(j) /\ UNCHANGED lapses
       \/ ~Orphaned(j) /\ lapses < MaxLapses /\ lapses' = lapses + 1

\* The stalled check of a live worker finds j without a lock and queues it again.
StalledRequeue(j) ==
    /\ LockExpired(j)
    /\ \E r \in Replicas : Alive(r)
    /\ stalls[j] < MaxStalledCount
    /\ qstate' = [qstate EXCEPT ![j] = "waiting"]
    /\ stalls' = [stalls EXCEPT ![j] = @ + 1]
    /\ lock' = [lock EXCEPT ![j] = None]
    /\ UNCHANGED <<rowVars, attemptsMade, apiVars, slotVars, writes, events,
                   replica, brandActive, crashes>>

\* j stalled more than maxStalledCount times: a worker takes it only to fail it
\* for good, whatever attempts are left, and 'failed' fires on that worker.
StalledFail(s, j) ==
    /\ LockExpired(j)
    /\ pc[s] = "idle"
    /\ Alive(Home[s])
    /\ stalls[j] >= MaxStalledCount
    /\ qstate' = [qstate EXCEPT ![j] = "failed"]
    /\ stalls' = [stalls EXCEPT ![j] = @ + 1]
    /\ lock' = [lock EXCEPT ![j] = s]
    /\ attemptsMade' = [attemptsMade EXCEPT ![j] = @ + 1]
    /\ pc' = [pc EXCEPT ![s] = "onFailed"]
    /\ job' = [job EXCEPT ![s] = j]
    /\ made' = [made EXCEPT ![s] = attemptsMade[j]]
    /\ UNCHANGED <<rowVars, apiVars, writes, events, replica, brandActive, crashes>>
----------------------------------------------------------------------------
(* process(), from one await to the next *)

Goto(s, l) == pc' = [pc EXCEPT ![s] = l]

\* Mutant of SetRunning: the row is not marked RUNNING.
SetRunning_Skipped(s) ==
    /\ pc[s] = "update"
    /\ Goto(s, "brand")
    /\ UNCHANGED <<rowVars, queueVars, apiVars, job, made, writes, events, envVars>>

\* Mutant of SetRunning: attemptsMade is taken to count the current attempt.
SetRunning_OffByOne(s) ==
    /\ pc[s] = "update"
    /\ status' = [status EXCEPT ![job[s]] = "RUNNING"]
    /\ attempts' = [attempts EXCEPT ![job[s]] = made[s] + 2]
    /\ Goto(s, "brand")
    /\ UNCHANGED <<result, errorMessage, queueVars, apiVars, job, made, writes, events, envVars>>

\* process() never looks at the row's status: a redelivered job is run again.
SetRunning(s) ==
    /\ pc[s] = "update"
    /\ status' = [status EXCEPT ![job[s]] = "RUNNING"]
    /\ attempts' = [attempts EXCEPT ![job[s]] = made[s] + 1]
    /\ Goto(s, "brand")
    /\ UNCHANGED <<result, errorMessage, queueVars, apiVars, job, made, writes, events, envVars>>

LoadBrand(s) ==
    /\ pc[s] = "brand"
    /\ Goto(s, IF brandActive THEN "run" ELSE "failing")
    /\ UNCHANGED <<rowVars, queueVars, apiVars, job, made, writes, events, envVars>>

\* getDepth and orchestrator.run: AgentPipeline has what happens inside.
RunPipeline(s) ==
    /\ pc[s] = "run"
    /\ \E l \in {"save", "failing"} : Goto(s, l)
    /\ UNCHANGED <<rowVars, queueVars, apiVars, job, made, writes, events, envVars>>

\* Mutant of SaveDone: the result is not written.
SaveDone_NoResult(s) ==
    /\ pc[s] = "save"
    /\ status' = [status EXCEPT ![job[s]] = "DONE"]
    /\ Goto(s, "report")
    /\ UNCHANGED <<attempts, result, errorMessage, queueVars, apiVars, job, made, writes,
                   events, envVars>>

SaveDone(s) ==
    /\ pc[s] = "save"
    /\ status' = [status EXCEPT ![job[s]] = "DONE"]
    /\ result' = [result EXCEPT ![job[s]] = TRUE]
    /\ Goto(s, "report")
    /\ UNCHANGED <<attempts, errorMessage, queueVars, apiVars, job, made, writes, events, envVars>>

\* job_done is emitted, the stream closed and the evaluation started.
Report(s) ==
    /\ pc[s] = "report"
    /\ events' = [events EXCEPT ![job[s]] = Append(@, "job_done")]
    /\ Goto(s, "complete")
    /\ UNCHANGED <<rowVars, queueVars, apiVars, job, made, writes, envVars>>

\* process() has returned; BullMQ completes the job, if the lock is still held.
Complete(s) ==
    /\ pc[s] = "complete"
    /\ qstate' = [qstate EXCEPT ![job[s]] = IF HoldsLock(s) THEN "completed" ELSE @]
    /\ Goto(s, "idle")
    /\ UNCHANGED <<rowVars, attemptsMade, stalls, lock, apiVars, job, made, writes, events, envVars>>

\* An awaited database call of process() rejects.
DbFails(s) ==
    /\ pc[s] \in DbFaults
    /\ Goto(s, "failing")
    /\ UNCHANGED <<rowVars, queueVars, apiVars, job, made, writes, events, envVars>>

\* process() has thrown; BullMQ schedules the next attempt or fails the job.
MoveToFailed(s) ==
    /\ pc[s] = "failing"
    /\ IF HoldsLock(s)
       THEN /\ attemptsMade' = [attemptsMade EXCEPT ![job[s]] = @ + 1]
            /\ qstate' = [qstate EXCEPT ![job[s]] =
                             IF made[s] + 1 < MaxAttempts THEN "delayed" ELSE "failed"]
            /\ Goto(s, "onFailed")
       ELSE /\ Goto(s, "idle")
            /\ UNCHANGED <<attemptsMade, qstate>>
    /\ UNCHANGED <<rowVars, stalls, lock, apiVars, job, made, writes, events, envVars>>

\* attemptsMade >= maxAttempts in onFailed (mutant: one too late).
IsFinal_Late(s) == made[s] + 1 > MaxAttempts

IsFinal(s) == made[s] + 1 >= MaxAttempts

\* Mutant of OnFailed: the error event is sent for every failed attempt.
OnFailed_AlwaysTells(s) ==
    /\ pc[s] = "onFailed"
    /\ writes' = [writes EXCEPT ![Home[s]] =
                     @ \cup {<<job[s], IF IsFinal(s) THEN "FAILED" ELSE "RETRYING">>}]
    /\ events' = [events EXCEPT ![job[s]] = Append(@, "error")]
    /\ Goto(s, "idle")
    /\ UNCHANGED <<rowVars, queueVars, apiVars, job, made, envVars>>

\* The 'failed' handler: the row update is started and not awaited.
OnFailed(s) ==
    /\ pc[s] = "onFailed"
    /\ writes' = [writes EXCEPT ![Home[s]] =
                     @ \cup {<<job[s], IF IsFinal(s) THEN "FAILED" ELSE "RETRYING">>}]
    /\ events' = [events EXCEPT ![job[s]] = IF IsFinal(s) THEN Append(@, "error") ELSE @]
    /\ Goto(s, "idle")
    /\ UNCHANGED <<rowVars, queueVars, apiVars, job, made, envVars>>

\* A row update of onFailed reaches the database.
Commit(r, w) ==
    /\ w \in writes[r]
    /\ writes' = [writes EXCEPT ![r] = @ \ {w}]
    /\ status' = [status EXCEPT ![w[1]] = w[2]]
    /\ errorMessage' = [errorMessage EXCEPT ![w[1]] = @ \/ w[2] = "FAILED"]
    /\ UNCHANGED <<attempts, result, queueVars, apiVars, slotVars, events, envVars>>
----------------------------------------------------------------------------
(* Replicas *)

Crash(r) ==
    /\ Alive(r)
    /\ crashes < MaxCrashes
    /\ crashes' = crashes + 1
    /\ replica' = [replica EXCEPT ![r] = "down"]
    /\ pc' = [s \in Slots |-> IF Home[s] = r THEN "idle" ELSE pc[s]]
    /\ api' = [j \in Jobs |-> IF host[j] = r /\ api[j] = "saved" THEN "rejected" ELSE api[j]]
    /\ writes' = [writes EXCEPT ![r] = {}]
    /\ UNCHANGED <<rowVars, queueVars, host, job, made, events, brandActive, lapses>>

\* The process starts: its worker may take jobs before onModuleInit is through.
Boot(r) ==
    /\ replica[r] = "down"
    /\ replica' = [replica EXCEPT ![r] = "booting"]
    /\ UNCHANGED <<rowVars, queueVars, apiVars, slotVars, writes, events, brandActive, crashes, lapses>>

\* The rows that onModuleInit takes for zombies (mutant: none).
Zombies_None == {}

Zombies == {j \in Jobs : status[j] = "RUNNING"}

\* ContentService.onModuleInit; then the replica serves requests.
CleanUp(r) ==
    /\ replica[r] = "booting"
    /\ replica' = [replica EXCEPT ![r] = "up"]
    /\ status' = [j \in Jobs |-> IF j \in Zombies THEN "FAILED" ELSE status[j]]
    /\ errorMessage' = [j \in Jobs |-> errorMessage[j] \/ j \in Zombies]
    /\ UNCHANGED <<attempts, result, queueVars, apiVars, slotVars, writes, events,
                   brandActive, crashes, lapses>>

\* BrandsService.deactivate, any time.
DeactivateBrand ==
    /\ brandActive
    /\ brandActive' = FALSE
    /\ UNCHANGED <<rowVars, queueVars, apiVars, slotVars, writes, events, replica, crashes, lapses>>

\* An updateConfig that overlapped deactivate() saves its stale copy (Brands).
ReactivateBrand ==
    /\ ~brandActive
    /\ brandActive' = TRUE
    /\ UNCHANGED <<rowVars, queueVars, apiVars, slotVars, writes, events, replica, crashes, lapses>>
----------------------------------------------------------------------------
\* All work is done and every replica serves.
Resting ==
    /\ \A j \in Jobs : api[j] \in {"accepted", "rejected"} /\ qstate[j] \notin Live
    /\ \A s \in Slots : pc[s] = "idle"
    /\ \A r \in Replicas : replica[r] = "up" /\ writes[r] = {}

SlotStep(s) ==
    \/ SetRunning(s) \/ LoadBrand(s) \/ RunPipeline(s) \/ SaveDone(s)
    \/ Report(s) \/ Complete(s) \/ DbFails(s) \/ MoveToFailed(s) \/ OnFailed(s)

JobStep(j) ==
    \/ \E r \in Replicas : RejectCreate(j, r) \/ SaveRow(j, r)
    \/ Enqueue(j) \/ EnqueueFails(j)
    \/ \E s \in Slots : Pick(s, j) \/ StalledFail(s, j)
    \/ Promote(j) \/ StalledRequeue(j)

ReplicaStep(r) ==
    \/ Crash(r) \/ Boot(r) \/ CleanUp(r)
    \/ \E w \in writes[r] : Commit(r, w)

Next ==
    \/ \E s \in Slots : SlotStep(s)
    \/ \E j \in Jobs : JobStep(j)
    \/ \E r \in Replicas : ReplicaStep(r)
    \/ DeactivateBrand \/ ReactivateBrand
    \/ Resting /\ UNCHANGED vars

Spec == Init /\ [][Next]_vars

\* process() ends (every agent runs under a timeout), updates land, a dead
\* replica is restarted by its supervisor, BullMQ delivers and checks for stalls.
Fairness ==
    /\ \A s \in Slots : WF_vars(SlotStep(s))
    /\ \A r \in Replicas :
          /\ WF_vars(Boot(r)) /\ WF_vars(CleanUp(r))
          /\ WF_vars(\E w \in writes[r] : Commit(r, w))
    /\ \A j \in Jobs :
          /\ WF_vars(Enqueue(j) \/ EnqueueFails(j))
          /\ WF_vars(Promote(j))
          /\ WF_vars(Orphaned(j) /\ StalledRequeue(j))
          /\ WF_vars(\E s \in Slots : Pick(s, j))
          /\ WF_vars(Orphaned(j) /\ \E s \in Slots : StalledFail(s, j))

FairSpec == Spec /\ Fairness
----------------------------------------------------------------------------
\* The row of a job is saved before the job can be delivered: a worker never
\* updates a row that is not there (createJob saves, then enqueues).
RowBeforeQueue ==
    /\ \A j \in Jobs : qstate[j] # "absent" => status[j] # "none"
    /\ \A s \in Slots : pc[s] # "idle" => status[job[s]] # "none"

\* A row never shows more attempts than PIPELINE_JOB_OPTIONS allows, though a
\* stalled job is delivered again without its attempt being counted.
AttemptsBounded == \A j \in Jobs : attempts[j] <= MaxAttempts

\* The runs of process() that work on job j.
Runs(j) == {s \in Slots : pc[s] \in Busy \ {"onFailed"} /\ job[s] = j}

\* A job's subscribers hear of its end (and its evaluation is started) once per
\* delivery: never twice, and never both job_done and error, without a stall.
OneOutcomePerDelivery == \A j \in Jobs : Len(events[j]) <= 1 + stalls[j]

\* A job BullMQ counts as completed has a DONE row with its result, whichever
\* replicas crashed or started meanwhile, as long as no live worker loses its lock.
CompletedIsDone ==
    lapses = 0 => \A j \in Jobs : qstate[j] = "completed" => status[j] = "DONE" /\ result[j]

\* No row is forgotten in RUNNING: one that nobody works on, of a job BullMQ has
\* finished with, is about to be found by the cleanup of a starting replica, as
\* long as no live worker loses its lock.
NoForgottenRun ==
    lapses = 0 => \A j \in Jobs :
        /\ status[j] = "RUNNING"
        /\ qstate[j] \in {"completed", "failed"}
        /\ ~Settling(j)
        /\ Runs(j) = {}
        => \E r \in Replicas : replica[r] # "up"

Machine == INSTANCE JobStatusMachine WITH
    Jobs        <- Jobs,
    status      <- status,
    redelivered <- {j \in Jobs : stalls[j] > 0},
    restarted   <- crashes > 0 \/ InitiallyUp # Replicas

\* README.md's "Job status machine: QUEUED -> RUNNING -> DONE|FAILED|CANCELLED|
\* RETRYING": the rows follow it through retries and crashes; DONE is left only
\* by a job that BullMQ delivered again after a stall, FAILED only by such a job
\* or after a server start.
ImplementsStatusMachine == Machine!Spec

\* Every accepted job ends DONE or FAILED for good, through retries, crashes and
\* restarts, unless it stalls more often than BullMQ allows or a live worker loses
\* its lock.
AcceptedJobsSettle ==
    \A j \in Jobs :
        api[j] = "accepted" ~> \/ [](status[j] \in {"DONE", "FAILED"})
                               \/ stalls[j] > MaxStalledCount
                               \/ lapses > 0
=============================================================================

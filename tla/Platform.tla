------------------------------ MODULE Platform ------------------------------
(***************************************************************************)
(* The job lifecycle and the SSE streams together, on several replicas:    *)
(* what the clients of GET /stream/:jobId hear while a job is run, retried,*)
(* stalled, redelivered and its servers crash.                             *)
(*                                                                         *)
(* Each replica has a stream map of its own, so an entry is named by the   *)
(* replica and the job.  The service and the ingress (.k8s/) have no       *)
(* session affinity: a client is connected to any replica.  A run of the   *)
(* job emits on the replica of its worker.                                 *)
(*                                                                         *)
(* A Generator that lost the race against its timeout is abandoned: it goes*)
(* on emitting tokens (generator.agent.ts) while its job is retried.       *)
(***************************************************************************)
EXTENDS JobLifecycle

CONSTANTS Clients,
          MaxTokens     \* bound: tokens emitted for all jobs together

ASSUME ClientsAssumption == None \notin Clients \cup (Replicas \X Jobs) /\ MaxTokens \in Nat

VARIABLES streams, conn, sid, armed, hooked, received,   \* as in Streaming
          runs,        \* history: deliveries of each job
          run,         \* history: the delivery a slot works on
          abandoned,   \* <<replica, job, delivery>> of abandoned Generators
          tokens,      \* tokens emitted so far
          heard        \* the tokens written to each response (the rest is in received)

sseVars  == <<streams, conn, sid, armed, hooked, received>>
runVars  == <<runs, run, abandoned, tokens, heard>>
allVars  == <<vars, sseVars, runVars>>

\* Heartbeats are left out, and what bounds Streaming on its own.
S == INSTANCE Streaming WITH
    Jobs      <- Replicas \X Jobs,
    beats     <- [c \in Clients |-> 0],
    emitted   <- [x \in Replicas \X Jobs |-> 0],
    runs      <- [x \in Replicas \X Jobs |-> 0],
    MaxEvents <- 0, MaxRuns <- 0, MaxBeats <- 0

PlatformInit ==
    /\ Init
    /\ S!Init
    /\ runs = [j \in Jobs |-> 0]
    /\ run = [s \in Slots |-> 0]
    /\ abandoned = {}
    /\ tokens = 0
    /\ heard = [c \in Clients |-> <<>>]

\* The stream entry that the run in slot s emits to.
Entry(s) == <<Home[s], job[s]>>

\* emit() of a token of delivery n, by a run or by an abandoned Generator.
SendToken(x, n, live) ==
    /\ tokens < MaxTokens
    /\ tokens' = tokens + 1
    /\ heard' = IF S!IsActive(x) THEN S!Write(heard, streams[x], [run |-> n, live |-> live])
                                ELSE heard
    /\ UNCHANGED <<vars, sseVars, runs, run, abandoned>>
----------------------------------------------------------------------------
(* Steps of the job that the clients hear of *)

Deliver(s, j) ==
    /\ Pick(s, j)
    /\ runs' = [runs EXCEPT ![j] = @ + 1]
    /\ run' = [run EXCEPT ![s] = runs[j] + 1]
    /\ UNCHANGED <<sseVars, abandoned, tokens, heard>>

\* Mutant of EmitToken: the end of the Generator's stream is not awaited.
EmitToken_NotAwaited(s) ==
    /\ pc[s] = "run" \/ run[s] > 0
    /\ SendToken(Entry(s), run[s], TRUE)

\* The Generator of the run in slot s passes a token on.
EmitToken(s) ==
    /\ pc[s] = "run"
    /\ SendToken(Entry(s), run[s], TRUE)

\* The pipeline ends; if it failed, its Generator may be alive.
PipelineEnds(s) ==
    /\ RunPipeline(s)
    /\ \/ UNCHANGED abandoned
       \/ /\ pc'[s] = "failing"
          /\ abandoned' = abandoned \cup {<<Home[s], job[s], run[s]>>}
    /\ UNCHANGED <<sseVars, runs, run, tokens, heard>>

AbandonedEmits == \E g \in abandoned : SendToken(<<g[1], g[2]>>, g[3], FALSE)

\* The stream of an abandoned Generator ends.
AbandonedEnds ==
    /\ \E g \in abandoned : abandoned' = abandoned \ {g}
    /\ UNCHANGED <<vars, sseVars, runs, run, tokens, heard>>

\* Mutant of ReportDone: the stream is not closed.
ReportDone_NoClose(s) ==
    /\ Report(s)
    /\ received' = S!Emit(Entry(s), "job_done")
    /\ UNCHANGED <<streams, conn, sid, armed, hooked, runVars>>

\* emit(job_done), then close().
ReportDone(s) ==
    /\ Report(s)
    /\ S!Close(Entry(s), S!Emit(Entry(s), "job_done"))
    /\ UNCHANGED <<sid, hooked, runVars>>

\* onFailed: after the last attempt emit(error) and close(); else the stream stays.
ReportFailed(s) ==
    /\ OnFailed(s)
    /\ IF IsFinal(s)
       THEN S!Close(Entry(s), S!Emit(Entry(s), "error")) /\ UNCHANGED <<sid, hooked>>
       ELSE UNCHANGED sseVars
    /\ UNCHANGED runVars

\* A replica dies with its stream map, its connections and its abandoned agents.
CrashAll(r) ==
    /\ Crash(r)
    /\ LET lost == {c \in Clients : sid[c] # None /\ sid[c][1] = r}
       IN  /\ streams' = [x \in Replicas \X Jobs |-> IF x[1] = r THEN None ELSE streams[x]]
           /\ conn' = [c \in Clients |->
                          IF c \in lost /\ conn[c] = "open" THEN "gone" ELSE conn[c]]
           /\ armed' = armed \ lost
           /\ hooked' = hooked \ lost
    /\ abandoned' = {g \in abandoned : g[1] # r}
    /\ UNCHANGED <<sid, received, runs, run, tokens, heard>>
----------------------------------------------------------------------------
(* Steps that one side takes alone *)

SilentSlotStep(s) ==
    \/ SetRunning(s) \/ LoadBrand(s) \/ SaveDone(s) \/ Complete(s) \/ DbFails(s) \/ MoveToFailed(s)

\* The brand stays active here: whether a run fails for its brand or in its
\* pipeline makes no difference to the streams.
SilentStep ==
    /\ \/ \E s \in Slots : SilentSlotStep(s)
       \/ \E j \in Jobs :
             \/ \E r \in Replicas : SaveRow(j, r)
             \/ Enqueue(j) \/ EnqueueFails(j) \/ Promote(j) \/ StalledRequeue(j)
       \/ \E r \in Replicas :
             Boot(r) \/ CleanUp(r) \/ \E w \in writes[r] : Commit(r, w)
    /\ UNCHANGED <<sseVars, runVars>>

FailStalled(s, j) ==
    /\ StalledFail(s, j)
    /\ run' = [run EXCEPT ![s] = runs[j]]
    /\ UNCHANGED <<sseVars, runs, abandoned, tokens, heard>>

\* Requests are served, and DELETE is routed, by replicas that are up.
StreamStep ==
    /\ \E r \in Replicas, j \in Jobs :
          /\ replica[r] = "up"
          /\ S!CancelStream(<<r, j>>) \/ \E c \in Clients : S!OpenStream(<<r, j>>, c)
    /\ UNCHANGED <<vars, runVars>>

ConnectionStep ==
    /\ \E c \in Clients : S!StreamTimeout(c) \/ S!OnClose(c) \/ S!Disconnect(c)
    /\ UNCHANGED <<vars, runVars>>

PlatformNext ==
    \/ \E s \in Slots :
          \/ EmitToken(s) \/ PipelineEnds(s) \/ ReportDone(s) \/ ReportFailed(s)
          \/ \E j \in Jobs : Deliver(s, j) \/ FailStalled(s, j)
    \/ AbandonedEmits \/ AbandonedEnds
    \/ \E r \in Replicas : CrashAll(r)
    \/ SilentStep \/ StreamStep \/ ConnectionStep
    \/ Resting /\ UNCHANGED allVars

PlatformSpec == PlatformInit /\ [][PlatformNext]_allVars
----------------------------------------------------------------------------
\* A client that hears job_done can fetch the result: the row has been saved
\* before the event, and stays DONE unless BullMQ delivers the job again or the
\* un-awaited RETRYING update of an earlier attempt comes as late as that.
ToldDoneIsSaved ==
    \A c \in Clients : \A i \in DOMAIN received[c] : received[c][i] = "job_done" =>
        LET j == sid[c][2]
        IN  /\ result[j]
            /\ \/ status[j] = "DONE"
               \/ status[j] = "RETRYING" /\ LateWrites /\ attemptsMade[j] > 0
               \/ stalls[j] > 0

\* The tokens a client gets from the runs of its job come run by run: a retry
\* starts to speak only when the run before it is silent, though the stream stays
\* open between them.  Exceptions are a worker that lost its lock and, after its
\* own run only, an abandoned Generator.
TokensInRunOrder ==
    lapses = 0 =>
        \A c \in Clients : \A i, k \in DOMAIN heard[c] :
            i < k => LET a == heard[c][i]
                         b == heard[c][k]
                     IN  b.live => IF a.live THEN a.run <= b.run ELSE a.run < b.run

\* A client hears at most one outcome of its job, and one that is still connected
\* has not heard any: an attempt that will be retried does not end its stream.
OneOutcomePerClient ==
    \A c \in Clients :
        LET outcomes == {i \in DOMAIN received[c] : received[c][i] \in {"job_done", "error"}}
        IN  Cardinality(outcomes) <= 1 /\ (conn[c] = "open" => outcomes = {})
=============================================================================

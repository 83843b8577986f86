------------------------ MODULE JobLifecycleProofs ------------------------
(***************************************************************************)
(* Proofs about JobLifecycle, for any number of jobs, replicas, slots and  *)
(* attempts, and any number of crashes, lost locks and late writes.        *)
(*                                                                         *)
(* RowBeforeQueue and AttemptsBounded are not inductive: the first needs   *)
(* how far each POST /generate has come (ApiInv), the second that the slot *)
(* which holds a job's lock knows the job's true number of finished        *)
(* attempts (LockInv) and that a job with attempts left is the only one    *)
(* that is delivered (LeftInv).                                            *)
(*                                                                         *)
(* OneOutcomePerDelivery counts events; OutcomeInv is the account behind   *)
(* it: the outcomes told, the workers that may still tell one, and the     *)
(* delivery still to come are together at most 1 + stalls.                 *)
(*                                                                         *)
(* CompletedIsDone and NoForgottenRun hold for a steady job (Steady: no    *)
(* live worker has lost its lock).  CalmInv says that such a job has one   *)
(* worker, which holds the lock, or one pending update and no worker, and  *)
(* what its row shows meanwhile.                                           *)
(*                                                                         *)
(* TraceInv ties the row to the abstract JobStatusMachine: while a job has *)
(* not stalled, its place in the queue and in process() determines its     *)
(* status up to a restart (Track).  Both need updates that land before the *)
(* retry (~LateWrites): otherwise a late RETRYING overwrites the RUNNING of*)
(* the next attempt and the row goes from RETRYING to DONE.  The refinement*)
(* also needs the RUNNING update not to fail, for then a QUEUED row becomes*)
(* RETRYING or FAILED at once.                                             *)
(*                                                                         *)
(* The second half is about Platform: what clients on all replicas hear.   *)
(* JobsLiveOn says that its jobs take the steps of JobLifecycle, so that   *)
(* the invariants above hold there.  LockedWorker is the part of SoleWorker*)
(* that late writes leave true.                                            *)
(*   ToldDoneIsSaved needs EndInv, what is true of a job's row, queue state*)
(* and pending updates once job_done is emitted or about to be, and WordInv*)
(* with StreamInv: a response is silent until close() ends it, and then has*)
(* heard one outcome, job_done only of a job that has told it.  The latter *)
(* also give OneOutcomePerClient.                                          *)
(*   TokensInRunOrder needs TokenInv: the run at work is the latest        *)
(* delivery, and one whose Generator was abandoned, and perhaps heard, has *)
(* Passed: no run that may still speak is as old.                          *)
(***************************************************************************)
EXTENDS Platform, FiniteSetTheorems, TLAPS

ApiInv ==
    /\ \A j \in Jobs : api[j] \in {"new", "saved"} => qstate[j] = "absent"
    /\ \A j \in Jobs : api[j] = "saved" => status[j] # "none"

LockInv ==
    \A s \in Slots :
        pc[s] \in Busy \ {"onFailed"} /\ HoldsLock(s) =>
            qstate[job[s]] = "active" /\ made[s] = attemptsMade[job[s]]

LeftInv ==
    /\ \A j \in Jobs : qstate[j] \in Live \cup {"absent"} => attemptsMade[j] < MaxAttempts
    /\ \A s \in Slots : pc[s] # "idle" => made[s] < MaxAttempts

IInv == TypeOK /\ RowBeforeQueue /\ AttemptsBounded /\ ApiInv /\ LockInv /\ LeftInv

\* The invariant holds before the first request.
LEMMA InitIInv == Init => IInv
<1> SUFFICES ASSUME Init PROVE IInv
    OBVIOUS
<1>1. TypeOK
  BY DEF Init, TypeOK, Busy, Live, JobStatus
<1>2. RowBeforeQueue /\ AttemptsBounded /\ ApiInv /\ LockInv /\ LeftInv
  BY AttemptsAssumption DEF Init, RowBeforeQueue, AttemptsBounded, ApiInv, LockInv, LeftInv, Busy
<1> QED BY <1>1, <1>2 DEF IInv

\* The steps of POST /generate.
LEMMA ApiKeeps ==
    ASSUME IInv, NEW j \in Jobs,
           \/ \E r \in Replicas : RejectCreate(j, r) \/ SaveRow(j, r)
           \/ Enqueue(j) \/ EnqueueFails(j)
    PROVE  IInv'
<1> USE DEF IInv
<1>1. CASE \E r \in Replicas : RejectCreate(j, r)
  BY <1>1 DEF RejectCreate, rowVars, queueVars, slotVars, envVars, TypeOK, RowBeforeQueue,
     AttemptsBounded, ApiInv, LockInv, LeftInv, HoldsLock
<1>2. CASE \E r \in Replicas : SaveRow(j, r)
  <2>1. TypeOK'
    BY <1>2 DEF SaveRow, queueVars, slotVars, envVars, TypeOK, JobStatus
  <2>2. RowBeforeQueue' /\ AttemptsBounded' /\ ApiInv'
    BY <1>2 DEF SaveRow, queueVars, slotVars, TypeOK, RowBeforeQueue, AttemptsBounded, ApiInv
  <2>3. LockInv' /\ LeftInv'
    BY <1>2 DEF SaveRow, queueVars, slotVars, LockInv, LeftInv, HoldsLock
  <2> QED BY <2>1, <2>2, <2>3
<1>3. CASE Enqueue(j) \/ EnqueueFails(j)
  <2>0. PICK q \in {"absent", "waiting"} :
          /\ qstate' = [qstate EXCEPT ![j] = q]
          /\ api[j] = "saved"
          /\ \E a \in {"accepted", "rejected"} : api' = [api EXCEPT ![j] = a]
          /\ UNCHANGED <<rowVars, attemptsMade, stalls, lock, host, slotVars, writes, events, envVars>>
    BY <1>3 DEF Enqueue, EnqueueFails
  <2>1. TypeOK'
    BY <2>0 DEF rowVars, slotVars, envVars, TypeOK, Live
  <2>2. RowBeforeQueue' /\ AttemptsBounded' /\ ApiInv'
    BY <2>0 DEF rowVars, slotVars, TypeOK, RowBeforeQueue, AttemptsBounded, ApiInv
  <2>3. LockInv' /\ LeftInv'
    BY <2>0 DEF slotVars, TypeOK, ApiInv, LockInv, LeftInv, HoldsLock, Live
  <2> QED BY <2>1, <2>2, <2>3
<1> QED BY <1>1, <1>2, <1>3

\* BullMQ's steps: delivery, the end of a backoff, and stalled jobs.
LEMMA QueueKeeps ==
    ASSUME IInv, NEW j \in Jobs,
           \/ \E s \in Slots : Pick(s, j) \/ StalledFail(s, j)
           \/ Promote(j) \/ StalledRequeue(j)
    PROVE  IInv'
<1> USE DEF IInv
<1>1. ASSUME NEW s \in Slots, Pick(s, j) PROVE IInv'
  <2>1. TypeOK'
    BY <1>1 DEF Pick, rowVars, apiVars, envVars, TypeOK, Live, Busy
  <2>2. RowBeforeQueue' /\ AttemptsBounded' /\ ApiInv'
    BY <1>1 DEF Pick, rowVars, apiVars, TypeOK, RowBeforeQueue, AttemptsBounded, ApiInv
  <2>3. LockInv' /\ LeftInv'
    BY <1>1 DEF Pick, TypeOK, LockInv, LeftInv, HoldsLock, Live, Busy
  <2> QED BY <2>1, <2>2, <2>3
<1>2. ASSUME NEW s \in Slots, StalledFail(s, j) PROVE IInv'
  <2>1. qstate[j] = "active" /\ lapses' \in Nat
    BY <1>2 DEF StalledFail, LockExpired, TypeOK
  <2>2. TypeOK'
    BY <1>2, <2>1 DEF StalledFail, rowVars, apiVars, TypeOK, Live, Busy
  <2>3. RowBeforeQueue' /\ AttemptsBounded' /\ ApiInv'
    BY <1>2, <2>1 DEF StalledFail, rowVars, apiVars, TypeOK, RowBeforeQueue, AttemptsBounded, ApiInv
  <2>4. LockInv' /\ LeftInv'
    BY <1>2, <2>1 DEF StalledFail, TypeOK, LockInv, LeftInv, HoldsLock, Live, Busy
  <2> QED BY <2>2, <2>3, <2>4
<1>3. CASE Promote(j)
  <2>1. TypeOK'
    BY <1>3 DEF Promote, rowVars, apiVars, slotVars, envVars, TypeOK, Live
  <2>2. RowBeforeQueue' /\ AttemptsBounded' /\ ApiInv'
    BY <1>3 DEF Promote, rowVars, apiVars, slotVars, TypeOK, RowBeforeQueue, AttemptsBounded, ApiInv
  <2>3. LockInv' /\ LeftInv'
    BY <1>3 DEF Promote, slotVars, TypeOK, LockInv, LeftInv, HoldsLock, Live
  <2> QED BY <2>1, <2>2, <2>3
<1>4. CASE StalledRequeue(j)
  <2>1. qstate[j] = "active" /\ lapses' \in Nat
    BY <1>4 DEF StalledRequeue, LockExpired, TypeOK
  <2>2. TypeOK'
    BY <1>4, <2>1 DEF StalledRequeue, rowVars, apiVars, slotVars, TypeOK, Live
  <2>3. RowBeforeQueue' /\ AttemptsBounded' /\ ApiInv'
    BY <1>4, <2>1 DEF StalledRequeue, rowVars, apiVars, slotVars, TypeOK, RowBeforeQueue,
       AttemptsBounded, ApiInv
  <2>4. LockInv' /\ LeftInv'
    BY <1>4, <2>1, NoneAssumption DEF StalledRequeue, slotVars, TypeOK, LockInv, LeftInv,
       HoldsLock, Live
  <2> QED BY <2>2, <2>3, <2>4
<1> QED BY <1>1, <1>2, <1>3, <1>4

\* A slot's move from one busy place of process() to another that changes no
\* queue state and no row keeps everything.
LEMMA MoveKeeps ==
    ASSUME IInv, NEW s \in Slots, pc[s] \in Busy \ {"onFailed"},
           NEW l \in Busy \ {"onFailed"}, Goto(s, l),
           UNCHANGED <<attempts, errorMessage, queueVars, apiVars, job, made, writes, envVars>>,
           \/ UNCHANGED <<status, result, events>>
           \/ /\ status' = [status EXCEPT ![job[s]] = "DONE"]
              /\ result' = [result EXCEPT ![job[s]] = TRUE]
              /\ UNCHANGED events
           \/ /\ events' = [events EXCEPT ![job[s]] = Append(@, "job_done")]
              /\ UNCHANGED <<status, result>>
    PROVE  IInv'
<1> USE DEF IInv, Goto
<1>0. job[s] \in Jobs
  BY DEF TypeOK, Busy
<1>1. TypeOK'
  <2>1. CASE UNCHANGED <<status, result, events>>
    BY <1>0, <2>1 DEF queueVars, apiVars, envVars, TypeOK, Busy
  <2>2. CASE status' = [status EXCEPT ![job[s]] = "DONE"] /\ UNCHANGED events
             /\ result' = [result EXCEPT ![job[s]] = TRUE]
    BY <1>0, <2>2 DEF queueVars, apiVars, envVars, TypeOK, JobStatus, Busy
  <2>3. CASE events' = [events EXCEPT ![job[s]] = Append(@, "job_done")]
             /\ UNCHANGED <<status, result>>
    <3>1. events' \in [Jobs -> Seq({"job_done", "error"})]
      BY <1>0, <2>3 DEF TypeOK
    <3> QED BY <1>0, <2>3, <3>1 DEF queueVars, apiVars, envVars, TypeOK, Busy
  <2> QED BY <2>1, <2>2, <2>3
<1>2. RowBeforeQueue' /\ AttemptsBounded' /\ ApiInv'
  BY <1>0 DEF queueVars, apiVars, TypeOK, RowBeforeQueue, AttemptsBounded, ApiInv, Busy
<1>3. LockInv' /\ LeftInv'
  BY <1>0 DEF queueVars, TypeOK, LockInv, LeftInv, HoldsLock, Busy
<1> QED BY <1>1, <1>2, <1>3

\* Every step of process() and onFailed() keeps the invariant.
LEMMA SlotKeeps ==
    ASSUME IInv, NEW s \in Slots, SlotStep(s)
    PROVE  IInv'
<1> USE DEF IInv
<1>0. pc[s] # "idle" => job[s] \in Jobs
  BY DEF TypeOK
<1>1. CASE SetRunning(s)
  <2>0. job[s] \in Jobs /\ made[s] \in Nat /\ made[s] < MaxAttempts
    BY <1>0, <1>1 DEF SetRunning, TypeOK, LeftInv
  <2>1. TypeOK'
    BY <1>1, <2>0 DEF SetRunning, Goto, queueVars, apiVars, envVars, TypeOK, JobStatus, Busy
  <2>2. RowBeforeQueue' /\ ApiInv'
    BY <1>1, <2>0 DEF SetRunning, Goto, queueVars, apiVars, TypeOK, RowBeforeQueue, ApiInv
  <2>3. AttemptsBounded'
    BY <1>1, <2>0, AttemptsAssumption DEF SetRunning, TypeOK, AttemptsBounded
  <2>4. LockInv' /\ LeftInv'
    BY <1>1, <2>0 DEF SetRunning, Goto, queueVars, TypeOK, LockInv, LeftInv, HoldsLock, Busy
  <2> QED BY <2>1, <2>2, <2>3, <2>4
<1>2. CASE LoadBrand(s)
  BY <1>2, MoveKeeps DEF LoadBrand, rowVars, Busy
<1>3. CASE RunPipeline(s)
  BY <1>3, MoveKeeps DEF RunPipeline, rowVars, Busy
<1>4. CASE SaveDone(s)
  BY <1>4, MoveKeeps DEF SaveDone, rowVars, Busy
<1>5. CASE Report(s)
  BY <1>5, MoveKeeps DEF Report, rowVars, Busy
<1>6. CASE DbFails(s)
  <2>1. pc[s] \in Busy \ {"onFailed"}
    BY <1>6, FaultAssumption DEF DbFails, Busy
  <2> QED BY <1>6, <2>1, MoveKeeps DEF DbFails, rowVars, Busy
<1>7. CASE Complete(s)
  <2>0. job[s] \in Jobs /\ (HoldsLock(s) => qstate[job[s]] = "active")
    BY <1>0, <1>7 DEF Complete, LockInv, Busy
  <2>1. TypeOK'
    BY <1>7, <2>0 DEF Complete, Goto, rowVars, apiVars, envVars, TypeOK, Busy
  <2>2. RowBeforeQueue' /\ AttemptsBounded' /\ ApiInv'
    BY <1>7, <2>0 DEF Complete, Goto, rowVars, apiVars, TypeOK, RowBeforeQueue, AttemptsBounded,
       ApiInv
  <2>3. LockInv' /\ LeftInv'
    BY <1>7, <2>0 DEF Complete, Goto, TypeOK, LockInv, LeftInv, HoldsLock, Busy, Live
  <2> QED BY <2>1, <2>2, <2>3
<1>8. CASE MoveToFailed(s)
  <2>0. /\ job[s] \in Jobs /\ made[s] \in Nat /\ made[s] < MaxAttempts
        /\ HoldsLock(s) => qstate[job[s]] = "active" /\ made[s] = attemptsMade[job[s]]
    BY <1>0, <1>8 DEF MoveToFailed, LockInv, LeftInv, TypeOK, Busy
  <2>1. CASE ~HoldsLock(s)
    <3>0. /\ pc' = [pc EXCEPT ![s] = "idle"]
          /\ UNCHANGED <<rowVars, queueVars, apiVars, job, made, writes, events, envVars>>
      BY <1>8, <2>1 DEF MoveToFailed, Goto, queueVars
    <3>1. TypeOK'
      BY <3>0 DEF rowVars, queueVars, apiVars, envVars, TypeOK
    <3>2. RowBeforeQueue' /\ AttemptsBounded' /\ ApiInv'
      BY <3>0 DEF rowVars, queueVars, apiVars, TypeOK, RowBeforeQueue, AttemptsBounded, ApiInv
    <3>3. LockInv' /\ LeftInv'
      BY <3>0 DEF queueVars, TypeOK, LockInv, LeftInv, HoldsLock, Busy
    <3> QED BY <3>1, <3>2, <3>3
  <2>2. CASE HoldsLock(s)
    <3>0. PICK q \in {"delayed", "failed"} :
            /\ qstate' = [qstate EXCEPT ![job[s]] = q]
            /\ q = "delayed" => made[s] + 1 < MaxAttempts
            /\ attemptsMade' = [attemptsMade EXCEPT ![job[s]] = @ + 1]
            /\ pc' = [pc EXCEPT ![s] = "onFailed"]
            /\ UNCHANGED <<rowVars, stalls, lock, apiVars, job, made, writes, events, envVars>>
      BY <1>8, <2>2 DEF MoveToFailed, Goto
    <3>1. TypeOK'
      BY <2>0, <3>0 DEF rowVars, apiVars, envVars, TypeOK, Busy, Live
    <3>2. RowBeforeQueue' /\ AttemptsBounded' /\ ApiInv'
      BY <1>8, <2>0, <2>2, <3>0 DEF MoveToFailed, rowVars, apiVars, TypeOK, RowBeforeQueue,
         AttemptsBounded, ApiInv
    <3>3. LockInv'
      BY <2>0, <2>2, <3>0 DEF TypeOK, LockInv, HoldsLock, Busy
    <3>4. LeftInv'
      BY <1>8, <2>0, <2>2, <3>0, AttemptsAssumption DEF MoveToFailed, TypeOK, LeftInv, Live
    <3> QED BY <3>1, <3>2, <3>3, <3>4
  <2> QED BY <2>1, <2>2
<1>9. CASE OnFailed(s)
  <2>0. job[s] \in Jobs /\ Home[s] \in Replicas
    BY <1>0, <1>9, HomeAssumption DEF OnFailed
  <2>1. TypeOK'
    BY <1>9, <2>0 DEF OnFailed, Goto, rowVars, queueVars, apiVars, envVars, TypeOK
  <2>2. RowBeforeQueue' /\ AttemptsBounded' /\ ApiInv'
    BY <1>9, <2>0 DEF OnFailed, Goto, rowVars, queueVars, apiVars, TypeOK, RowBeforeQueue,
       AttemptsBounded, ApiInv
  <2>3. LockInv' /\ LeftInv'
    BY <1>9, <2>0 DEF OnFailed, Goto, queueVars, TypeOK, LockInv, LeftInv, HoldsLock, Busy
  <2> QED BY <2>1, <2>2, <2>3
<1> QED BY <1>1, <1>2, <1>3, <1>4, <1>5, <1>6, <1>7, <1>8, <1>9 DEF SlotStep

\* Crashes, starts, the cleanup and late updates keep the invariant.
LEMMA ReplicaKeeps ==
    ASSUME IInv, NEW r \in Replicas, ReplicaStep(r)
    PROVE  IInv'
<1> USE DEF IInv
<1>1. CASE Crash(r)
  <2>1. TypeOK'
    BY <1>1 DEF Crash, rowVars, queueVars, TypeOK
  <2>2. RowBeforeQueue' /\ AttemptsBounded' /\ ApiInv'
    BY <1>1 DEF Crash, rowVars, queueVars, TypeOK, RowBeforeQueue, AttemptsBounded, ApiInv
  <2>3. LockInv' /\ LeftInv'
    BY <1>1 DEF Crash, queueVars, TypeOK, LockInv, LeftInv, HoldsLock, Busy
  <2> QED BY <2>1, <2>2, <2>3
<1>2. CASE Boot(r)
  BY <1>2 DEF Boot, rowVars, queueVars, apiVars, slotVars, TypeOK, RowBeforeQueue,
     AttemptsBounded, ApiInv, LockInv, LeftInv, HoldsLock
<1>3. CASE CleanUp(r)
  <2>1. TypeOK'
    BY <1>3 DEF CleanUp, queueVars, apiVars, slotVars, TypeOK, JobStatus, Zombies
  <2>2. RowBeforeQueue' /\ AttemptsBounded' /\ ApiInv'
    BY <1>3 DEF CleanUp, queueVars, apiVars, slotVars, TypeOK, RowBeforeQueue, AttemptsBounded,
       ApiInv
  <2>3. LockInv' /\ LeftInv'
    BY <1>3 DEF CleanUp, queueVars, slotVars, LockInv, LeftInv, HoldsLock
  <2> QED BY <2>1, <2>2, <2>3
<1>4. ASSUME NEW w \in writes[r], Commit(r, w) PROVE IInv'
  <2>0. w[1] \in Jobs /\ w[2] \in {"RETRYING", "FAILED"}
    BY DEF TypeOK
  <2>1. TypeOK'
    BY <1>4, <2>0 DEF Commit, queueVars, apiVars, slotVars, envVars, TypeOK, JobStatus
  <2>2. RowBeforeQueue' /\ AttemptsBounded' /\ ApiInv'
    BY <1>4, <2>0 DEF Commit, queueVars, apiVars, slotVars, TypeOK, RowBeforeQueue,
       AttemptsBounded, ApiInv
  <2>3. LockInv' /\ LeftInv'
    BY <1>4 DEF Commit, queueVars, slotVars, LockInv, LeftInv, HoldsLock
  <2> QED BY <2>1, <2>2, <2>3
<1> QED BY <1>1, <1>2, <1>3, <1>4 DEF ReplicaStep

\* Every step keeps the invariant.
LEMMA NextIInv == IInv /\ [Next]_vars => IInv'
<1> SUFFICES ASSUME IInv, [Next]_vars PROVE IInv'
    OBVIOUS
<1>1. ASSUME NEW s \in Slots, SlotStep(s) PROVE IInv'
  BY <1>1, SlotKeeps
<1>2. ASSUME NEW j \in Jobs, JobStep(j) PROVE IInv'
  BY <1>2, ApiKeeps, QueueKeeps DEF JobStep
<1>3. ASSUME NEW r \in Replicas, ReplicaStep(r) PROVE IInv'
  BY <1>3, ReplicaKeeps
<1>4. CASE DeactivateBrand
  BY <1>4 DEF DeactivateBrand, rowVars, queueVars, apiVars, slotVars, IInv, TypeOK,
     RowBeforeQueue, AttemptsBounded, ApiInv, LockInv, LeftInv, HoldsLock
<1>5. CASE ReactivateBrand
  BY <1>5 DEF ReactivateBrand, rowVars, queueVars, apiVars, slotVars, IInv, TypeOK,
     RowBeforeQueue, AttemptsBounded, ApiInv, LockInv, LeftInv, HoldsLock
<1>6. CASE UNCHANGED vars
  BY <1>6 DEF vars, rowVars, queueVars, apiVars, slotVars, envVars, IInv, TypeOK,
     RowBeforeQueue, AttemptsBounded, ApiInv, LockInv, LeftInv, HoldsLock
<1> QED BY <1>1, <1>2, <1>3, <1>4, <1>5, <1>6 DEF Next

\* The invariant holds in every reachable state.
LEMMA IInvHolds == Spec => []IInv
  BY InitIInv, NextIInv, PTL DEF Spec

\* Rows, queue entries, slots and pending writes keep their types.
THEOREM JobTypes == Spec => []TypeOK
<1>1. IInv => TypeOK
  BY DEF IInv
<1> QED BY <1>1, IInvHolds, PTL

\* A delivered job has its row, whatever crashes and stalls happen.
THEOREM RowBeforeQueueHolds == Spec => []RowBeforeQueue
<1>1. IInv => RowBeforeQueue
  BY DEF IInv
<1> QED BY <1>1, IInvHolds, PTL

\* No row counts more attempts than the queue's options allow.
THEOREM AttemptsBoundedHolds == Spec => []AttemptsBounded
<1>1. IInv => AttemptsBounded
  BY DEF IInv
<1> QED BY <1>1, IInvHolds, PTL
----------------------------------------------------------------------------
(* The outcomes told for a job.  Every delivery has one report to give: it *)
(* is with the queue while the job waits, and with a slot until the slot   *)
(* has reported.  A stall takes none away and adds one.                    *)

\* Slot s may still report an outcome of its job.
Reporting(s) ==
    \/ pc[s] \in {"update", "brand", "run", "save", "report", "failing"}
    \/ pc[s] = "onFailed" /\ IsFinal(s)

Reporters(j) == {s \in Slots : Reporting(s) /\ job[s] = j}

\* The delivery still to come.
Undelivered(j) == IF qstate[j] \in {"absent", "waiting", "delayed"} THEN 1 ELSE 0

OutcomeInv ==
    \A j \in Jobs :
        /\ IsFiniteSet(Reporters(j))
        /\ Len(events[j]) + Cardinality(Reporters(j)) + Undelivered(j) <= 1 + stalls[j]
Owes(s, j) == IF Reporting(s) /\ job[s] = j THEN 1 ELSE 0

\* When only one slot moves, the reporters of a job change by that slot.
LEMMA OneSlotMoves ==
    ASSUME NEW s \in Slots, NEW k \in Jobs, IsFiniteSet(Reporters(k)),
           \A t \in Slots \ {s} : pc'[t] = pc[t] /\ job'[t] = job[t] /\ made'[t] = made[t]
    PROVE  /\ IsFiniteSet(Reporters(k)')
           /\ Cardinality(Reporters(k)) \in Nat /\ Cardinality(Reporters(k)') \in Nat
           /\ Cardinality(Reporters(k)') + Owes(s, k) = Cardinality(Reporters(k)) + Owes(s, k)'
<1> DEFINE R  == Reporters(k)
           R2 == Reporters(k)'
<1>1. /\ s \in R <=> Reporting(s) /\ job[s] = k
      /\ s \in R2 <=> (Reporting(s) /\ job[s] = k)'
      /\ R2 \ {s} = R \ {s}
  BY DEF Reporters, Reporting, IsFinal
<1>2. IsFiniteSet(R) /\ Cardinality(R) \in Nat
  BY FS_CardinalityType
<1>3. Owes(s, k) = (IF s \in R THEN 1 ELSE 0) /\ Owes(s, k)' = (IF s \in R2 THEN 1 ELSE 0)
  BY <1>1 DEF Owes
<1> HIDE DEF R, R2
<1>4. CASE s \in R
  <2>1. IsFiniteSet(R \ {s}) /\ Cardinality(R \ {s}) = Cardinality(R) - 1
    BY <1>2, <1>4, FS_RemoveElement
  <2>2. CASE s \in R2
    <3>1. R2 = R
      BY <1>1, <1>4, <2>2
    <3>2. QED
      BY <1>2, <1>3, <1>4, <3>1 DEF R, R2
  <2>3. CASE s \notin R2
    <3>1. R2 = R \ {s}
      BY <1>1, <2>3
    <3>2. Cardinality(R2) \in Nat
      BY <2>1, <3>1, FS_CardinalityType
    <3>3. QED
      BY <1>2, <1>3, <1>4, <2>1, <2>3, <3>1, <3>2 DEF R, R2
  <2>4. QED
    BY <2>2, <2>3
<1>5. CASE s \notin R
  <2>1. CASE s \in R2
    <3>1. R2 = R \cup {s}
      BY <1>1, <1>5, <2>1
    <3>2. IsFiniteSet(R2) /\ Cardinality(R2) = Cardinality(R) + 1
      BY <1>2, <1>5, <3>1, FS_AddElement
    <3>3. QED
      BY <1>2, <1>3, <1>5, <2>1, <3>2 DEF R, R2
  <2>2. CASE s \notin R2
    <3>1. R2 = R
      BY <1>1, <1>5, <2>2
    <3>2. QED
      BY <1>2, <1>3, <1>5, <2>2, <3>1 DEF R, R2
  <2>3. QED
    BY <2>1, <2>2
<1>6. QED
  BY <1>4, <1>5

\* A step that moves no slot, sends nothing and keeps the delivery to come
\* keeps the account.
LEMMA OutcomeIdle ==
    ASSUME OutcomeInv, UNCHANGED <<pc, job, made, events, stalls>>,
           \A k \in Jobs : Undelivered(k)' = Undelivered(k)
    PROVE  OutcomeInv'
<1>1. \A k \in Jobs : Reporters(k)' = Reporters(k)
  BY DEF Reporters, Reporting, IsFinal
<1>2. QED
  BY <1>1 DEF OutcomeInv

\* The arithmetic of the account: what is added is balanced by what is settled.
LEMMA Balance ==
    ASSUME NEW e \in Nat, NEW e2 \in Nat, NEW c \in Nat, NEW c2 \in Nat, NEW o \in Nat,
           NEW o2 \in Nat, NEW u \in Nat, NEW u2 \in Nat, NEW n \in Nat, NEW n2 \in Nat,
           e + c + u <= 1 + n, c2 + o = c + o2, e2 + o2 + u2 + n <= e + o + u + n2
    PROVE  e2 + c2 + u2 <= 1 + n2
OBVIOUS

\* A step of one slot keeps the account when its balance holds.
LEMMA OutcomeBalance ==
    ASSUME IInv, OutcomeInv, IInv', NEW s \in Slots,
           \A t \in Slots \ {s} : pc'[t] = pc[t] /\ job'[t] = job[t] /\ made'[t] = made[t],
           \A k \in Jobs :
               Len(events'[k]) + Owes(s, k)' + Undelivered(k)' + stalls[k]
                   <= Len(events[k]) + Owes(s, k) + Undelivered(k) + stalls'[k]
    PROVE  OutcomeInv'
<1> SUFFICES ASSUME NEW k \in Jobs
             PROVE  /\ IsFiniteSet(Reporters(k)')
                    /\ Len(events'[k]) + Cardinality(Reporters(k)') + Undelivered(k)'
                          <= 1 + stalls'[k]
  BY DEF OutcomeInv
<1>1. /\ IsFiniteSet(Reporters(k))
      /\ Len(events[k]) + Cardinality(Reporters(k)) + Undelivered(k) <= 1 + stalls[k]
  BY DEF OutcomeInv
<1>2. /\ IsFiniteSet(Reporters(k)')
      /\ Cardinality(Reporters(k)) \in Nat /\ Cardinality(Reporters(k)') \in Nat
      /\ Cardinality(Reporters(k)') + Owes(s, k) = Cardinality(Reporters(k)) + Owes(s, k)'
  BY <1>1, OneSlotMoves
<1>3. /\ stalls[k] \in Nat /\ stalls'[k] \in Nat
      /\ Len(events[k]) \in Nat /\ Len(events'[k]) \in Nat
  BY DEF IInv, TypeOK
<1>4. Owes(s, k) \in Nat /\ Owes(s, k)' \in Nat
  BY DEF Owes
<1>5. Undelivered(k) \in Nat /\ Undelivered(k)' \in Nat
  BY DEF Undelivered
<1>6. Len(events'[k]) + Owes(s, k)' + Undelivered(k)' + stalls[k]
          <= Len(events[k]) + Owes(s, k) + Undelivered(k) + stalls'[k]
  OBVIOUS
<1> DEFINE e == Len(events[k])
           e2 == Len(events'[k])
           c == Cardinality(Reporters(k))
           c2 == Cardinality(Reporters(k)')
           o == Owes(s, k)
           o2 == Owes(s, k)'
           u == Undelivered(k)
           u2 == Undelivered(k)'
           n == stalls[k]
           n2 == stalls'[k]
<1>7. /\ e \in Nat /\ e2 \in Nat /\ c \in Nat /\ c2 \in Nat /\ o \in Nat /\ o2 \in Nat
      /\ u \in Nat /\ u2 \in Nat /\ n \in Nat /\ n2 \in Nat
      /\ e + c + u <= 1 + n /\ c2 + o = c + o2 /\ e2 + o2 + u2 + n <= e + o + u + n2
  BY <1>1, <1>2, <1>3, <1>4, <1>5, <1>6
<1> HIDE DEF e, e2, c, c2, o, o2, u, u2, n, n2
<1>8. e2 + c2 + u2 <= 1 + n2
  BY <1>7, Balance
<1>9. QED
  BY <1>2, <1>8 DEF e2, c2, u2, n2

\* Every step of process() and onFailed() keeps the account of outcomes.
LEMMA OutcomeSlot ==
    ASSUME IInv, OutcomeInv, NEW s \in Slots, SlotStep(s)
    PROVE  OutcomeInv'
<1>0. IInv' /\ stalls' = stalls /\ job' = job /\ made' = made
  BY SlotKeeps DEF SlotStep, SetRunning, LoadBrand, RunPipeline, SaveDone, Report, Complete,
     DbFails, MoveToFailed, OnFailed, queueVars
<1>1. job[s] \in Jobs /\ pc[s] # "idle"
  BY FaultAssumption DEF IInv, TypeOK, SlotStep, SetRunning, LoadBrand, RunPipeline, SaveDone,
     Report, Complete, DbFails, MoveToFailed, OnFailed
<1>2. \A t \in Slots \ {s} : pc'[t] = pc[t] /\ job'[t] = job[t] /\ made'[t] = made[t]
  <2>1. \E l \in Busy \cup {"idle"} : Goto(s, l)
    BY DEF SlotStep, SetRunning, LoadBrand, RunPipeline, SaveDone, Report, Complete, DbFails,
       MoveToFailed, OnFailed, Busy
  <2>2. QED
    BY <1>0, <2>1 DEF IInv, TypeOK, Goto
<1>3. ASSUME NEW k \in Jobs
      PROVE  Len(events'[k]) + Owes(s, k)' + Undelivered(k)' + stalls[k]
                 <= Len(events[k]) + Owes(s, k) + Undelivered(k) + stalls'[k]
  <2>0. /\ stalls[k] \in Nat /\ Len(events[k]) \in Nat /\ Len(events'[k]) \in Nat
        /\ IsFinal(s)' = IsFinal(s) /\ job'[s] = job[s]
        /\ (HoldsLock(s) /\ pc[s] # "onFailed" => qstate[job[s]] = "active")
    BY <1>0, <1>1 DEF IInv, TypeOK, IsFinal, LockInv
  <2>u. /\ Undelivered(k) \in Nat /\ Owes(s, k) \in Nat
        /\ qstate'[k] = qstate[k] => Undelivered(k)' = Undelivered(k)
        /\ k # job[s] => Owes(s, k) = 0 /\ Owes(s, k)' = 0
    BY <2>0 DEF Undelivered, Owes
  <2>1. CASE SetRunning(s) \/ LoadBrand(s) \/ RunPipeline(s) \/ SaveDone(s) \/ DbFails(s)
    <3>1. /\ events' = events /\ qstate' = qstate
          /\ pc[s] \in {"update", "brand", "run", "save"}
          /\ pc'[s] \in {"brand", "run", "save", "report", "failing"}
      BY <2>1, FaultAssumption DEF SetRunning, LoadBrand, RunPipeline, SaveDone, DbFails, Goto,
         queueVars, IInv, TypeOK
    <3>2. Owes(s, k)' = Owes(s, k)
      BY <2>0, <3>1 DEF Owes, Reporting
    <3>3. QED
      BY <1>0, <2>0, <2>u, <3>1, <3>2
  <2>2. CASE Report(s)
    <3>1. /\ qstate' = qstate /\ pc[s] = "report" /\ pc'[s] = "complete"
      BY <2>2 DEF Report, Goto, queueVars, IInv, TypeOK
    <3>2. /\ k = job[s] => Len(events'[k]) = Len(events[k]) + 1
          /\ k # job[s] => events'[k] = events[k]
      BY <1>1, <2>2 DEF Report, IInv, TypeOK
    <3>3. k = job[s] => Owes(s, k) = 1 /\ Owes(s, k)' = 0
      BY <2>0, <3>1 DEF Owes, Reporting
    <3>4. QED
      BY <1>0, <2>0, <2>u, <3>1, <3>2, <3>3
  <2>3. CASE Complete(s)
    <3>1. /\ events' = events /\ pc[s] = "complete" /\ pc'[s] = "idle"
          /\ qstate'[k] = qstate[k] \/ (qstate[k] = "active" /\ qstate'[k] = "completed")
      BY <1>1, <2>0, <2>3 DEF Complete, Goto, IInv, TypeOK
    <3>2. Owes(s, k)' = 0 /\ Undelivered(k)' = Undelivered(k)
      BY <3>1 DEF Owes, Reporting, Undelivered
    <3>3. QED
      BY <1>0, <2>0, <2>u, <3>1, <3>2
  <2>4. CASE MoveToFailed(s) /\ ~HoldsLock(s)
    <3>1. events' = events /\ pc[s] = "failing" /\ pc'[s] = "idle" /\ qstate' = qstate
      BY <2>4 DEF MoveToFailed, Goto, IInv, TypeOK
    <3>2. Owes(s, k)' = 0
      BY <3>1 DEF Owes, Reporting
    <3>3. QED
      BY <1>0, <2>0, <2>u, <3>1, <3>2
  <2>5. CASE MoveToFailed(s) /\ HoldsLock(s)
    <3>1. /\ events' = events /\ pc[s] = "failing" /\ pc'[s] = "onFailed"
          /\ qstate'[k] = IF k # job[s] THEN qstate[k]
                          ELSE IF IsFinal(s) THEN "failed" ELSE "delayed"
      BY <1>1, <2>5, AttemptsAssumption DEF MoveToFailed, Goto, IInv, TypeOK, IsFinal
    <3>2. k = job[s] => qstate[k] = "active"
      BY <2>0, <2>5, <3>1
    <3>3. k = job[s] => /\ Owes(s, k) = 1 /\ Undelivered(k) = 0
                       /\ \/ Owes(s, k)' = 0 /\ Undelivered(k)' = 1
                          \/ Owes(s, k)' = 1 /\ Undelivered(k)' = 0
      BY <2>0, <3>1, <3>2 DEF Owes, Reporting, Undelivered
    <3>4. k # job[s] => qstate'[k] = qstate[k]
      BY <3>1
    <3>5. Owes(s, k)' + Undelivered(k)' = Owes(s, k) + Undelivered(k)
      BY <2>u, <3>3, <3>4
    <3>6. QED
      BY <1>0, <2>0, <2>u, <3>1, <3>3, <3>4, <3>5
  <2>6. CASE OnFailed(s)
    <3>1. qstate' = qstate /\ pc[s] = "onFailed" /\ pc'[s] = "idle"
      BY <2>6 DEF OnFailed, Goto, queueVars, IInv, TypeOK
    <3>2. /\ k = job[s] /\ IsFinal(s) => Len(events'[k]) = Len(events[k]) + 1
          /\ k # job[s] \/ ~IsFinal(s) => events'[k] = events[k]
      BY <1>1, <2>6 DEF OnFailed, IInv, TypeOK
    <3>3. Owes(s, k)' = 0 /\ (k = job[s] /\ IsFinal(s) => Owes(s, k) = 1)
      BY <2>0, <3>1 DEF Owes, Reporting
    <3>4. QED
      BY <1>0, <2>0, <2>u, <3>1, <3>2, <3>3
  <2>7. QED
    BY <2>1, <2>2, <2>3, <2>4, <2>5, <2>6 DEF SlotStep
<1>4. QED
  BY <1>0, <1>2, <1>3, OutcomeBalance

\* Requests, deliveries and stalls keep the account of outcomes.
LEMMA OutcomeJob ==
    ASSUME IInv, OutcomeInv, NEW j \in Jobs, JobStep(j)
    PROVE  OutcomeInv'
<1>0. IInv'
  BY ApiKeeps, QueueKeeps DEF JobStep
<1>1. CASE \E r \in Replicas : RejectCreate(j, r) \/ SaveRow(j, r)
  BY <1>1, OutcomeIdle DEF RejectCreate, SaveRow, queueVars, slotVars, Undelivered
<1>2. CASE Enqueue(j) \/ EnqueueFails(j) \/ Promote(j)
  <2>1. qstate[j] \in {"absent", "delayed"}
    BY <1>2 DEF Enqueue, EnqueueFails, Promote, IInv, ApiInv
  <2>2. \E q \in {"absent", "waiting"} : qstate' = [qstate EXCEPT ![j] = q]
    BY <1>2 DEF Enqueue, EnqueueFails, Promote
  <2>3. \A k \in Jobs : Undelivered(k)' = Undelivered(k)
    BY <2>1, <2>2 DEF Undelivered, IInv, TypeOK
  <2>4. QED
    BY <1>2, <2>3, OutcomeIdle DEF Enqueue, EnqueueFails, Promote, slotVars
<1>3. ASSUME NEW s \in Slots, Pick(s, j) PROVE OutcomeInv'
  <2>1. ASSUME NEW k \in Jobs
        PROVE  Len(events'[k]) + Owes(s, k)' + Undelivered(k)' + stalls[k]
                   <= Len(events[k]) + Owes(s, k) + Undelivered(k) + stalls'[k]
    <3>1. stalls[k] \in Nat /\ Len(events[k]) \in Nat
      BY DEF IInv, TypeOK
    <3>2. /\ events' = events /\ stalls' = stalls
          /\ qstate[j] = "waiting" /\ qstate'[k] = IF k = j THEN "active" ELSE qstate[k]
          /\ job'[s] = j /\ pc[s] = "idle"
      BY <1>3 DEF Pick, IInv, TypeOK
    <3>3. /\ Owes(s, k) = 0
          /\ k = j => Undelivered(k) = 1 /\ Undelivered(k)' = 0 /\ Owes(s, k)' \in {0, 1}
          /\ k # j => Undelivered(k)' = Undelivered(k) /\ Owes(s, k)' = 0
          /\ Undelivered(k) \in {0, 1}
      BY <3>2 DEF Owes, Reporting, Undelivered
    <3>4. QED
      BY <3>1, <3>2, <3>3
  <2>2. \A t \in Slots \ {s} : pc'[t] = pc[t] /\ job'[t] = job[t] /\ made'[t] = made[t]
    BY <1>3 DEF Pick, IInv, TypeOK
  <2>3. QED
    BY <1>0, <2>1, <2>2, OutcomeBalance
<1>4. ASSUME NEW s \in Slots, StalledFail(s, j) PROVE OutcomeInv'
  <2>1. ASSUME NEW k \in Jobs
        PROVE  Len(events'[k]) + Owes(s, k)' + Undelivered(k)' + stalls[k]
                   <= Len(events[k]) + Owes(s, k) + Undelivered(k) + stalls'[k]
    <3>1. stalls[k] \in Nat /\ Len(events[k]) \in Nat
      BY DEF IInv, TypeOK
    <3>2. /\ events' = events /\ stalls'[k] = IF k = j THEN stalls[k] + 1 ELSE stalls[k]
          /\ qstate'[k] = IF k = j THEN "failed" ELSE qstate[k]
          /\ job'[s] = j /\ pc[s] = "idle"
      BY <1>4 DEF StalledFail, IInv, TypeOK
    <3>3. /\ Owes(s, k) = 0
          /\ k = j => Undelivered(k)' = 0 /\ Owes(s, k)' \in {0, 1}
          /\ k # j => Undelivered(k)' = Undelivered(k) /\ Owes(s, k)' = 0
          /\ Undelivered(k) \in {0, 1}
      BY <3>2 DEF Owes, Reporting, Undelivered
    <3>4. QED
      BY <3>1, <3>2, <3>3
  <2>2. \A t \in Slots \ {s} : pc'[t] = pc[t] /\ job'[t] = job[t] /\ made'[t] = made[t]
    BY <1>4 DEF StalledFail, IInv, TypeOK
  <2>3. QED
    BY <1>0, <2>1, <2>2, OutcomeBalance
<1>5. CASE StalledRequeue(j)
  <2> SUFFICES ASSUME NEW k \in Jobs
               PROVE  /\ IsFiniteSet(Reporters(k)')
                      /\ Len(events'[k]) + Cardinality(Reporters(k)') + Undelivered(k)'
                            <= 1 + stalls'[k]
    BY DEF OutcomeInv
  <2>1. Reporters(k)' = Reporters(k)
    BY <1>5 DEF StalledRequeue, slotVars, Reporters, Reporting, IsFinal
  <2>2. /\ events' = events /\ stalls'[k] = IF k = j THEN stalls[k] + 1 ELSE stalls[k]
        /\ qstate[j] = "active" /\ qstate'[k] = IF k = j THEN "waiting" ELSE qstate[k]
    BY <1>5 DEF StalledRequeue, LockExpired, IInv, TypeOK
  <2>3. stalls[k] \in Nat /\ Len(events[k]) \in Nat /\ Cardinality(Reporters(k)) \in Nat
    BY FS_CardinalityType DEF IInv, TypeOK, OutcomeInv
  <2>4. QED
    BY <2>1, <2>2, <2>3 DEF OutcomeInv, Undelivered
<1>6. QED
  BY <1>1, <1>2, <1>3, <1>4, <1>5 DEF JobStep

\* Crashes, starts and late updates keep the account of outcomes.
LEMMA OutcomeReplica ==
    ASSUME IInv, OutcomeInv, NEW r \in Replicas, ReplicaStep(r)
    PROVE  OutcomeInv'
<1>1. CASE Crash(r)
  <2> SUFFICES ASSUME NEW k \in Jobs
               PROVE  /\ IsFiniteSet(Reporters(k)')
                      /\ Len(events'[k]) + Cardinality(Reporters(k)') + Undelivered(k)'
                            <= 1 + stalls'[k]
    BY DEF OutcomeInv
  <2>1. Reporters(k)' \subseteq Reporters(k)
    BY <1>1 DEF Crash, Reporters, Reporting, IsFinal, IInv, TypeOK
  <2>2. events' = events /\ stalls' = stalls /\ qstate' = qstate
    BY <1>1 DEF Crash, queueVars
  <2>3. /\ IsFiniteSet(Reporters(k)') /\ Cardinality(Reporters(k)') \in Nat
        /\ Cardinality(Reporters(k)) \in Nat
        /\ Cardinality(Reporters(k)') <= Cardinality(Reporters(k))
    BY <2>1, FS_Subset, FS_CardinalityType DEF OutcomeInv
  <2>4. stalls[k] \in Nat /\ Len(events[k]) \in Nat /\ Undelivered(k) \in {0, 1}
    BY DEF IInv, TypeOK, Undelivered
  <2>5. Undelivered(k)' = Undelivered(k)
    BY <2>2 DEF Undelivered
  <2>6. QED
    BY <2>2, <2>3, <2>4, <2>5 DEF OutcomeInv
<1>2. CASE Boot(r) \/ CleanUp(r) \/ \E w \in writes[r] : Commit(r, w)
  BY <1>2, OutcomeIdle DEF Boot, CleanUp, Commit, queueVars, slotVars, Undelivered
<1>3. QED
  BY <1>1, <1>2 DEF ReplicaStep

\* The subscribers of a job hear of its end at most once per delivery, through
\* any crashes, lost locks, retries and late writes: job_done or error is sent
\* again, and the evaluation started again, only after BullMQ saw a stall.
THEOREM OneOutcomePerDeliveryHolds == Spec => []OneOutcomePerDelivery
<1>1. Init => OutcomeInv
  <2> SUFFICES ASSUME Init, NEW j \in Jobs
               PROVE  /\ IsFiniteSet(Reporters(j))
                      /\ Len(events[j]) + Cardinality(Reporters(j)) + Undelivered(j) <= 1 + stalls[j]
    BY DEF OutcomeInv
  <2>1. Reporters(j) = {} /\ Len(events[j]) = 0 /\ Undelivered(j) = 1 /\ stalls[j] = 0
    BY DEF Init, Reporters, Reporting, Undelivered
  <2>2. QED
    BY <2>1, FS_EmptySet
<1>2. IInv /\ OutcomeInv /\ [Next]_vars => OutcomeInv'
  <2> SUFFICES ASSUME IInv, OutcomeInv, [Next]_vars PROVE OutcomeInv'
    OBVIOUS
  <2>1. CASE DeactivateBrand \/ ReactivateBrand \/ UNCHANGED vars
    BY <2>1, OutcomeIdle DEF DeactivateBrand, ReactivateBrand, vars, queueVars, slotVars, Undelivered
  <2>2. QED
    BY <2>1, OutcomeSlot, OutcomeJob, OutcomeReplica DEF Next
<1>3. IInv /\ OutcomeInv => OneOutcomePerDelivery
  <2> SUFFICES ASSUME IInv, OutcomeInv, NEW j \in Jobs PROVE Len(events[j]) <= 1 + stalls[j]
    BY DEF OneOutcomePerDelivery
  <2>1. Cardinality(Reporters(j)) \in Nat /\ Undelivered(j) \in {0, 1}
    BY FS_CardinalityType DEF OutcomeInv, Undelivered
  <2>2. QED
    BY <2>1 DEF OutcomeInv, IInv, TypeOK
<1>4. QED
  BY <1>1, <1>2, <1>3, IInvHolds, PTL DEF Spec
----------------------------------------------------------------------------
(* Who works on a job, when the backoff outlasts the writes of onFailed    *)
(* (~LateWrites) and no live worker lost the job's lock.                   *)

Steady(j) == lapses = 0 \/ stalls[j] = 0

\* A slot at work has the lock, so that there is at most one.
SoleWorker ==
    \A j \in Jobs : Steady(j) => \A s \in Slots : pc[s] # "idle" /\ job[s] = j =>
        /\ lock[j] = s
        /\ qstate[j] \in IF pc[s] = "onFailed" THEN {"delayed", "failed"} ELSE {"active"}

\* A pending write is the job's only one, and no slot works on the job.
SoleWrite ==
    \A j \in Jobs : Steady(j) => \A r \in Replicas : \A w \in writes[r] : w[1] = j =>
        /\ qstate[j] \in {"delayed", "failed"}
        /\ \A s \in Slots : pc[s] = "idle" \/ job[s] # j
        /\ \A q \in Replicas : \A v \in writes[q] : v[1] = j => q = r /\ v = w

DoneInv ==
    \A j \in Jobs : Steady(j) =>
        /\ \A s \in Slots :
              pc[s] \in {"report", "complete"} /\ job[s] = j => status[j] = "DONE" /\ result[j]
        /\ qstate[j] = "completed" => status[j] = "DONE" /\ result[j]

ForgottenInv ==
    \A j \in Jobs :
        Steady(j) /\ qstate[j] = "failed" /\ status[j] = "RUNNING" /\ ~Settling(j) =>
            \E r \in Replicas : replica[r] # "up"

CalmInv == SoleWorker /\ SoleWrite /\ DoneInv /\ ForgottenInv
\* A job whose lock a live worker lost has stalled; both counts only grow.
LEMMA SteadyStays ==
    ASSUME IInv, Next, NEW k \in Jobs, Steady(k)'
    PROVE  Steady(k)
<1>1. \/ lapses' = lapses /\ stalls' = stalls
      \/ \E j \in Jobs : StalledRequeue(j)
      \/ \E j \in Jobs, s \in Slots : StalledFail(s, j)
  BY DEF Next, SlotStep, JobStep, ReplicaStep, SetRunning, LoadBrand, RunPipeline, SaveDone, Report,
     Complete, DbFails, MoveToFailed, OnFailed, RejectCreate, SaveRow, Enqueue, EnqueueFails, Pick,
     Promote, Crash, Boot, CleanUp, Commit, DeactivateBrand, ReactivateBrand, queueVars, envVars,
     vars
<1>2. ASSUME NEW j \in Jobs, StalledRequeue(j) \/ \E s \in Slots : StalledFail(s, j)
      PROVE  Steady(k)
  <2>1. /\ stalls' = [stalls EXCEPT ![j] = @ + 1]
        /\ lapses' = lapses \/ lapses' = lapses + 1
    BY <1>2 DEF StalledRequeue, StalledFail, LockExpired
  <2>2. QED
    BY <2>1 DEF Steady, IInv, TypeOK
<1>3. QED
  BY <1>1, <1>2 DEF Steady

\* The stall of a job that stays steady is that of a dead worker.
LEMMA StallIsOrphan ==
    ASSUME IInv, SoleWorker, NEW j \in Jobs, Steady(j)',
           StalledRequeue(j) \/ \E s \in Slots : StalledFail(s, j)
    PROVE  \A s \in Slots : pc[s] = "idle" \/ job[s] # j
<1>1. /\ stalls'[j] = stalls[j] + 1 /\ stalls[j] \in Nat /\ lapses \in Nat
      /\ LockExpired(j)
  BY DEF StalledRequeue, StalledFail, IInv, TypeOK
<1>2. lapses' = 0
  BY <1>1 DEF Steady
<1>3. Orphaned(j) /\ lapses = 0
  BY <1>1, <1>2 DEF LockExpired
<1>4. QED
  BY <1>3 DEF Orphaned, SoleWorker, Steady

\* The slots and the queue before and after a step of slot s.
LEMMA SlotFrame ==
    ASSUME IInv, NEW s \in Slots, SlotStep(s)
    PROVE  /\ job[s] \in Jobs /\ pc[s] # "idle" /\ pc \in [Slots -> Busy \cup {"idle"}]
           /\ job' = job /\ made' = made /\ lock' = lock /\ stalls' = stalls /\ lapses' = lapses
           /\ replica' = replica /\ crashes' = crashes /\ api' = api
           /\ \A t \in Slots \ {s} : pc'[t] = pc[t]
           /\ \A k \in Jobs \ {job[s]} :
                 qstate'[k] = qstate[k] /\ status'[k] = status[k] /\ result'[k] = result[k]
<1>1. job[s] \in Jobs /\ pc[s] # "idle" /\ pc \in [Slots -> Busy \cup {"idle"}]
  BY FaultAssumption DEF IInv, TypeOK, SlotStep, SetRunning, LoadBrand, RunPipeline, SaveDone,
     Report, Complete, DbFails, MoveToFailed, OnFailed
<1>2. \E l \in Busy \cup {"idle"} : Goto(s, l)
  BY DEF SlotStep, SetRunning, LoadBrand, RunPipeline, SaveDone, Report, Complete, DbFails,
     MoveToFailed, OnFailed, Busy
<1>3. \A t \in Slots \ {s} : pc'[t] = pc[t]
  BY <1>1, <1>2 DEF Goto
<1>4. /\ job' = job /\ made' = made /\ lock' = lock /\ stalls' = stalls /\ lapses' = lapses
      /\ replica' = replica /\ crashes' = crashes /\ api' = api
  BY DEF SlotStep, SetRunning, LoadBrand, RunPipeline, SaveDone, Report, Complete, DbFails,
     MoveToFailed, OnFailed, queueVars, envVars, apiVars
<1>5. \A k \in Jobs \ {job[s]} : qstate'[k] = qstate[k]
  BY <1>1 DEF SlotStep, SetRunning, LoadBrand, RunPipeline, SaveDone, Report, Complete, DbFails,
     MoveToFailed, OnFailed, queueVars, IInv, TypeOK
<1>6. \A k \in Jobs \ {job[s]} : status'[k] = status[k] /\ result'[k] = result[k]
  BY <1>1 DEF SlotStep, SetRunning, LoadBrand, RunPipeline, SaveDone, Report, Complete, DbFails,
     MoveToFailed, OnFailed, rowVars, IInv, TypeOK
<1>7. QED
  BY <1>1, <1>3, <1>4, <1>5, <1>6

\* What a step of the slot at work on a steady job does to its queue entry.
LEMMA SlotQueue ==
    ASSUME IInv, SoleWorker, NEW s \in Slots, SlotStep(s), Steady(job[s])
    PROVE  /\ HoldsLock(s)
           /\ pc[s] # "onFailed" => qstate[job[s]] = "active"
           /\ pc'[s] \notin {"idle", "onFailed"} => qstate'[job[s]] = "active"
           /\ pc'[s] = "onFailed" => qstate'[job[s]] \in {"delayed", "failed"}
           /\ pc'[s] = "idle" => \/ qstate'[job[s]] = "completed" /\ pc[s] = "complete"
                                 \/ OnFailed(s) /\ qstate' = qstate
           /\ pc[s] = "onFailed" <=> OnFailed(s)
<1>0. job[s] \in Jobs /\ pc[s] # "idle" /\ pc \in [Slots -> Busy \cup {"idle"}]
  BY SlotFrame
<1>1. /\ HoldsLock(s)
      /\ pc[s] # "onFailed" => qstate[job[s]] = "active"
  BY <1>0 DEF SoleWorker, HoldsLock
<1>2. qstate \in [Jobs -> Live \cup {"absent", "completed", "failed"}]
  BY DEF IInv, TypeOK
<1>3. QED
  BY <1>0, <1>1, <1>2, FaultAssumption
  DEF SlotStep, SetRunning, LoadBrand, RunPipeline, SaveDone, Report, Complete, DbFails,
      MoveToFailed, OnFailed, Goto, queueVars

\* No step gives a steady job a second worker.
LEMMA SoleWorkerKept ==
    ASSUME IInv, CalmInv, ~LateWrites, Next
    PROVE  SoleWorker'
<1> USE DEF CalmInv
<1> SUFFICES ASSUME NEW k \in Jobs, Steady(k)', NEW t \in Slots, pc'[t] # "idle", job'[t] = k
             PROVE  /\ lock'[k] = t
                    /\ qstate'[k] \in IF pc'[t] = "onFailed" THEN {"delayed", "failed"}
                                                           ELSE {"active"}
  BY DEF SoleWorker
<1>0. Steady(k)
  BY SteadyStays
<1>i. pc[t] # "idle" /\ job[t] = k =>
          /\ lock[k] = t
          /\ qstate[k] \in IF pc[t] = "onFailed" THEN {"delayed", "failed"} ELSE {"active"}
  BY <1>0 DEF SoleWorker
<1>1. ASSUME NEW s \in Slots, SlotStep(s) PROVE
        /\ lock'[k] = t
        /\ qstate'[k] \in IF pc'[t] = "onFailed" THEN {"delayed", "failed"} ELSE {"active"}
  <2>1. CASE t = s
    <3>1. job[s] = k /\ lock'[k] = t
      BY <1>1, <1>i, <2>1, SlotFrame
    <3>2. QED
      BY <1>0, <1>1, <2>1, <3>1, SlotQueue
  <2>2. CASE t # s
    <3>1. pc'[t] = pc[t] /\ job[t] = k /\ lock' = lock
      BY <1>1, <2>2, SlotFrame
    <3>2. job[s] # k
      BY <1>0, <1>1, <1>i, <2>2, <3>1, SlotFrame DEF SoleWorker
    <3>3. QED
      BY <1>1, <1>i, <3>1, <3>2, SlotFrame
  <2>3. QED
    BY <2>1, <2>2
<1>2. ASSUME NEW j \in Jobs, NEW s \in Slots, Pick(s, j) PROVE
        /\ lock'[k] = t
        /\ qstate'[k] \in IF pc'[t] = "onFailed" THEN {"delayed", "failed"} ELSE {"active"}
  BY <1>2, <1>i DEF Pick, IInv, TypeOK
<1>3. ASSUME NEW j \in Jobs, NEW s \in Slots, StalledFail(s, j) PROVE
        /\ lock'[k] = t
        /\ qstate'[k] \in IF pc'[t] = "onFailed" THEN {"delayed", "failed"} ELSE {"active"}
  <2>1. j = k => \A x \in Slots : pc[x] = "idle" \/ job[x] # j
    BY <1>3, StallIsOrphan
  <2>2. QED
    BY <1>3, <1>i, <2>1 DEF StalledFail, IInv, TypeOK
<1>4. ASSUME NEW j \in Jobs, StalledRequeue(j) PROVE
        /\ lock'[k] = t
        /\ qstate'[k] \in IF pc'[t] = "onFailed" THEN {"delayed", "failed"} ELSE {"active"}
  <2>1. j = k => \A x \in Slots : pc[x] = "idle" \/ job[x] # j
    BY <1>4, StallIsOrphan
  <2>2. QED
    BY <1>4, <1>i, <2>1 DEF StalledRequeue, slotVars, IInv, TypeOK
<1>5. ASSUME NEW j \in Jobs, Promote(j) \/ Enqueue(j) \/ EnqueueFails(j) PROVE
        /\ lock'[k] = t
        /\ qstate'[k] \in IF pc'[t] = "onFailed" THEN {"delayed", "failed"} ELSE {"active"}
  <2>1. /\ (qstate[j] = "delayed" /\ ~Settling(j)) \/ qstate[j] = "absent"
        /\ UNCHANGED <<pc, job, lock>>
        /\ \E q \in {"absent", "waiting"} : qstate' = [qstate EXCEPT ![j] = q]
    BY <1>5 DEF Promote, Enqueue, EnqueueFails, slotVars, IInv, ApiInv
  <2>2. j # k
    BY <1>i, <2>1 DEF Settling
  <2>3. QED
    BY <1>i, <2>1, <2>2 DEF IInv, TypeOK
<1>6. ASSUME NEW r \in Replicas, Crash(r) PROVE
        /\ lock'[k] = t
        /\ qstate'[k] \in IF pc'[t] = "onFailed" THEN {"delayed", "failed"} ELSE {"active"}
  BY <1>6, <1>i DEF Crash, queueVars, IInv, TypeOK
<1>7. CASE UNCHANGED <<pc, job, lock, qstate>>
  BY <1>7, <1>i
<1>8. QED
  BY <1>1, <1>2, <1>3, <1>4, <1>5, <1>6, <1>7
  DEF Next, JobStep, ReplicaStep, RejectCreate, SaveRow, Boot, CleanUp, Commit, DeactivateBrand,
      ReactivateBrand, vars, slotVars, queueVars

\* No step gives a steady job a second pending update, or one beside a worker.
LEMMA SoleWriteKept ==
    ASSUME IInv, CalmInv, ~LateWrites, Next
    PROVE  SoleWrite'
<1> USE DEF CalmInv
<1> DEFINE Sole(k, r, w) ==
        /\ qstate[k] \in {"delayed", "failed"}
        /\ \A s \in Slots : pc[s] = "idle" \/ job[s] # k
        /\ \A q \in Replicas : \A v \in writes[q] : v[1] = k => q = r /\ v = w
<1> SUFFICES ASSUME NEW k \in Jobs, Steady(k)',
                    NEW r \in Replicas, NEW w \in writes'[r], w[1] = k
             PROVE  Sole(k, r, w)'
  BY DEF SoleWrite
<1>0. Steady(k)
  BY SteadyStays
<1>i. w \in writes[r] => Sole(k, r, w)
  BY <1>0 DEF SoleWrite
<1>1. ASSUME NEW s \in Slots, SlotStep(s), ~OnFailed(s) PROVE Sole(k, r, w)'
  <2>1. writes' = writes
    BY <1>1 DEF SlotStep, SetRunning, LoadBrand, RunPipeline, SaveDone, Report, Complete, DbFails,
       MoveToFailed
  <2>2. job[s] # k
    BY <1>1, <1>i, <2>1, SlotFrame
  <2>3. QED
    BY <1>1, <1>i, <2>1, <2>2, SlotFrame
<1>2. ASSUME NEW s \in Slots, OnFailed(s) PROVE Sole(k, r, w)'
  <2>0. SlotStep(s)
    BY <1>2 DEF SlotStep
  <2>1. /\ Home[s] \in Replicas /\ pc[s] = "onFailed" /\ pc'[s] = "idle" /\ qstate' = qstate
        /\ \E x \in {"FAILED", "RETRYING"} :
              writes' = [writes EXCEPT ![Home[s]] = @ \cup {<<job[s], x>>}]
    BY <1>2, HomeAssumption DEF OnFailed, Goto, queueVars, IInv, TypeOK
  <2>2. PICK x \in {"FAILED", "RETRYING"} :
              writes' = [writes EXCEPT ![Home[s]] = @ \cup {<<job[s], x>>}]
    BY <2>1
  <2>3. CASE job[s] # k
    <3>1. \A q \in Replicas : \A v \in writes'[q] : v[1] = k => v \in writes[q]
      BY <2>1, <2>2, <2>3 DEF IInv, TypeOK
    <3>2. QED
      BY <1>i, <2>0, <2>1, <2>3, <3>1, SlotFrame
  <2>4. CASE job[s] = k
    <3>1. \A q \in Replicas : \A v \in writes[q] : v[1] # k
      BY <1>0, <2>1, <2>4 DEF SoleWrite
    <3>2. \A q \in Replicas : \A v \in writes'[q] : v[1] = k => q = Home[s] /\ v = <<k, x>>
      BY <2>1, <2>2, <2>4, <3>1 DEF IInv, TypeOK
    <3>3. \A t \in Slots : pc'[t] = "idle" \/ job'[t] # k
      BY <1>0, <2>0, <2>1, <2>4, SlotFrame DEF SoleWorker
    <3>4. qstate[k] \in {"delayed", "failed"}
      BY <1>0, <2>1, <2>4 DEF SoleWorker
    <3>5. QED
      BY <2>1, <3>2, <3>3, <3>4
  <2>5. QED
    BY <2>3, <2>4
<1>3. ASSUME NEW j \in Jobs, NEW s \in Slots, Pick(s, j) \/ StalledFail(s, j)
      PROVE  Sole(k, r, w)'
  <2>1. /\ writes' = writes /\ qstate[j] \in {"waiting", "active"} /\ job'[s] = j
        /\ \A t \in Slots \ {s} : pc'[t] = pc[t] /\ job'[t] = job[t]
        /\ \A i \in Jobs \ {j} : qstate'[i] = qstate[i]
    BY <1>3 DEF Pick, StalledFail, LockExpired, IInv, TypeOK
  <2>2. j # k
    BY <1>i, <2>1
  <2>3. QED
    BY <1>i, <2>1, <2>2
<1>4. ASSUME NEW j \in Jobs, Promote(j) \/ Enqueue(j) \/ EnqueueFails(j) \/ StalledRequeue(j)
      PROVE  Sole(k, r, w)'
  <2>1. /\ writes' = writes /\ pc' = pc /\ job' = job
        /\ qstate[j] \in {"absent", "active"} \/ ~Settling(j)
        /\ \A i \in Jobs \ {j} : qstate'[i] = qstate[i]
    BY <1>4 DEF Promote, Enqueue, EnqueueFails, StalledRequeue, LockExpired, slotVars, IInv, TypeOK,
       ApiInv
  <2>2. j # k
    BY <1>i, <2>1 DEF Settling
  <2>3. QED
    BY <1>i, <2>1, <2>2
<1>5. ASSUME NEW q \in Replicas, Crash(q) PROVE Sole(k, r, w)'
  <2>1. /\ qstate' = qstate /\ job' = job
        /\ \A t \in Slots : pc'[t] \in {"idle", pc[t]}
        /\ \A x \in Replicas : writes'[x] \subseteq writes[x]
    BY <1>5 DEF Crash, queueVars, IInv, TypeOK
  <2>2. QED
    BY <1>i, <2>1
<1>6. ASSUME NEW q \in Replicas, NEW v \in writes[q], Commit(q, v) PROVE Sole(k, r, w)'
  <2>1. /\ qstate' = qstate /\ job' = job /\ pc' = pc
        /\ \A x \in Replicas : writes'[x] \subseteq writes[x]
    BY <1>6 DEF Commit, queueVars, slotVars, IInv, TypeOK
  <2>2. QED
    BY <1>i, <2>1
<1>7. CASE UNCHANGED <<pc, job, qstate, writes>>
  BY <1>7, <1>i
<1>8. QED
  BY <1>1, <1>2, <1>3, <1>4, <1>5, <1>6, <1>7
  DEF Next, JobStep, ReplicaStep, RejectCreate, SaveRow, Boot, CleanUp, DeactivateBrand,
      ReactivateBrand, vars, slotVars, queueVars

\* Nothing takes DONE from a steady job whose run has saved its result.
LEMMA DoneKept ==
    ASSUME IInv, CalmInv, ~LateWrites, Next
    PROVE  DoneInv'
<1> USE DEF CalmInv
<1> DEFINE Done(k) == status[k] = "DONE" /\ result[k]
           Due(k) == \/ qstate[k] = "completed"
                     \/ \E t \in Slots : pc[t] \in {"report", "complete"} /\ job[t] = k
<1> SUFFICES ASSUME NEW k \in Jobs, Steady(k)', Due(k)' PROVE Done(k)'
  BY DEF DoneInv
<1>0. Steady(k)
  BY SteadyStays
<1>i. Due(k) => Done(k)
  BY <1>0 DEF DoneInv
<1>a. Due(k) => qstate[k] \in {"completed", "active"}
  BY <1>0 DEF SoleWorker
<1>1. ASSUME NEW s \in Slots, SlotStep(s) PROVE Done(k)'
  <2>1. CASE job[s] # k
    BY <1>1, <1>i, <2>1, SlotFrame
  <2>2. CASE job[s] = k
    <3>1. \A t \in Slots \ {s} : pc[t] = "idle" \/ job[t] # k
      BY <1>0, <1>1, <2>2, SlotFrame DEF SoleWorker
    <3>2. pc'[s] \in {"report", "complete"} \/ qstate'[k] = "completed"
      BY <1>1, <2>2, <3>1, SlotFrame
    <3>3. pc'[s] \in {"report", "complete"} \/ pc[s] = "complete"
      BY <1>0, <1>1, <2>2, <3>2, SlotFrame, SlotQueue DEF SoleWorker
    <3>4. SaveDone(s) \/ Report(s) \/ Complete(s)
      BY <1>1, <3>3, FaultAssumption, SlotFrame
      DEF SlotStep, SetRunning, LoadBrand, RunPipeline, DbFails, MoveToFailed, OnFailed, Goto
    <3>5. CASE SaveDone(s)
      BY <2>2, <3>5 DEF SaveDone, IInv, TypeOK
    <3>6. CASE Report(s) \/ Complete(s)
      BY <1>i, <2>2, <3>6 DEF Report, Complete, rowVars
    <3>7. QED
      BY <3>4, <3>5, <3>6
  <2>3. QED
    BY <2>1, <2>2
<1>2. ASSUME NEW j \in Jobs, JobStep(j), ~ \E r \in Replicas : SaveRow(j, r) PROVE Done(k)'
  <2>1. UNCHANGED <<status, result>>
    BY <1>2 DEF JobStep, RejectCreate, Enqueue, EnqueueFails, Pick, StalledFail, Promote,
       StalledRequeue, rowVars
  <2>2. qstate'[k] = "completed" => qstate[k] = "completed"
    BY <1>2 DEF JobStep, RejectCreate, Enqueue, EnqueueFails, Pick, StalledFail, Promote,
       StalledRequeue, queueVars, IInv, TypeOK
  <2>3. \A t \in Slots : pc'[t] \in {"report", "complete"} => pc[t] = pc'[t] /\ job[t] = job'[t]
    BY <1>2 DEF JobStep, RejectCreate, Enqueue, EnqueueFails, Pick, StalledFail, Promote,
       StalledRequeue, slotVars, IInv, TypeOK
  <2>4. QED
    BY <1>i, <2>1, <2>2, <2>3
<1>3. ASSUME NEW j \in Jobs, NEW r \in Replicas, SaveRow(j, r) PROVE Done(k)'
  <2>1. Due(k)
    BY <1>3 DEF SaveRow, queueVars, slotVars
  <2>2. j # k
    BY <1>3, <1>a, <2>1 DEF SaveRow, IInv, ApiInv
  <2>3. QED
    BY <1>3, <1>i, <2>1, <2>2 DEF SaveRow, IInv, TypeOK
<1>4. ASSUME NEW r \in Replicas, NEW w \in writes[r], Commit(r, w) PROVE Done(k)'
  <2>1. Due(k)
    BY <1>4 DEF Commit, queueVars, slotVars
  <2>2. w[1] # k
    BY <1>0, <1>a, <2>1 DEF SoleWrite
  <2>3. QED
    BY <1>4, <1>i, <2>1, <2>2 DEF Commit, IInv, TypeOK
<1>5. ASSUME NEW r \in Replicas, Crash(r) \/ Boot(r) \/ CleanUp(r) PROVE Done(k)'
  <2>1. Due(k) /\ result' = result
    BY <1>5 DEF Crash, Boot, CleanUp, rowVars, queueVars, slotVars, IInv, TypeOK
  <2>2. QED
    BY <1>5, <1>i, <2>1 DEF Crash, Boot, CleanUp, Zombies, rowVars
<1>6. CASE UNCHANGED <<pc, job, qstate, status, result>>
  BY <1>6, <1>i
<1>7. QED
  BY <1>1, <1>2, <1>3, <1>4, <1>5, <1>6
  DEF Next, ReplicaStep, DeactivateBrand, ReactivateBrand, vars, slotVars, queueVars, rowVars

\* A steady job that is failed with a RUNNING row has a replica yet to start.
LEMMA ForgottenKept ==
    ASSUME IInv, CalmInv, ~LateWrites, Next
    PROVE  ForgottenInv'
<1> USE DEF CalmInv
<1> SUFFICES ASSUME NEW k \in Jobs, Steady(k)', qstate'[k] = "failed", status'[k] = "RUNNING",
                    ~Settling(k)'
             PROVE  \E r \in Replicas : replica'[r] # "up"
  BY DEF ForgottenInv
<1>0. Steady(k)
  BY SteadyStays
<1>i. qstate[k] = "failed" /\ status[k] = "RUNNING" /\ ~Settling(k) =>
          \E r \in Replicas : replica[r] # "up"
  BY <1>0 DEF ForgottenInv
<1>1. ASSUME NEW s \in Slots, SlotStep(s) PROVE \E r \in Replicas : replica'[r] # "up"
  <2>1. CASE job[s] # k
    <3>1. \A r \in Replicas : writes[r] \subseteq writes'[r]
      BY <1>1, HomeAssumption DEF SlotStep, SetRunning, LoadBrand, RunPipeline, SaveDone, Report,
         Complete, DbFails, MoveToFailed, OnFailed, IInv, TypeOK
    <3>2. ~Settling(k)
      BY <1>1, <2>1, <3>1, SlotFrame DEF Settling
    <3>3. QED
      BY <1>1, <1>i, <2>1, <3>2, SlotFrame
  <2>2. CASE job[s] = k
    <3>1. pc'[s] # "onFailed"
      BY <1>1, <2>2, SlotFrame DEF Settling
    <3>2. OnFailed(s)
      BY <1>0, <1>1, <2>2, <3>1, SlotQueue
    <3>3. \E x \in {"FAILED", "RETRYING"} : <<k, x>> \in writes'[Home[s]]
      BY <2>2, <3>2, HomeAssumption DEF OnFailed, IInv, TypeOK
    <3>4. QED
      BY <3>3, HomeAssumption DEF Settling
  <2>3. QED
    BY <2>1, <2>2
<1>2. ASSUME NEW j \in Jobs, NEW s \in Slots, Pick(s, j) \/ StalledFail(s, j)
      PROVE  \E r \in Replicas : replica'[r] # "up"
  <2>1. /\ pc'[s] # "onFailed" => qstate'[j] = "active"
        /\ job'[s] = j /\ pc[s] = "idle" /\ status' = status /\ writes' = writes
        /\ replica' = replica
        /\ \A t \in Slots \ {s} : pc'[t] = pc[t] /\ job'[t] = job[t]
        /\ \A x \in Jobs \ {j} : qstate'[x] = qstate[x]
    BY <1>2 DEF Pick, StalledFail, rowVars, envVars, IInv, TypeOK
  <2>2. j # k
    BY <2>1 DEF Settling
  <2>3. ~Settling(k)
    BY <2>1, <2>2 DEF Settling
  <2>4. QED
    BY <1>i, <2>1, <2>2, <2>3
<1>3. ASSUME NEW j \in Jobs, Promote(j) \/ Enqueue(j) \/ EnqueueFails(j) \/ StalledRequeue(j)
      PROVE  \E r \in Replicas : replica'[r] # "up"
  <2>1. /\ writes' = writes /\ pc' = pc /\ job' = job /\ status' = status /\ replica' = replica
        /\ \E q \in {"absent", "waiting"} : qstate' = [qstate EXCEPT ![j] = q]
    BY <1>3 DEF Promote, Enqueue, EnqueueFails, StalledRequeue, slotVars, rowVars, envVars
  <2>2. qstate[k] = "failed" /\ ~Settling(k)
    BY <2>1 DEF Settling, IInv, TypeOK
  <2>3. QED
    BY <1>i, <2>1, <2>2
<1>4. ASSUME NEW j \in Jobs, NEW r \in Replicas, SaveRow(j, r) \/ RejectCreate(j, r)
      PROVE  \E q \in Replicas : replica'[q] # "up"
  <2>1. /\ writes' = writes /\ pc' = pc /\ job' = job /\ replica' = replica /\ qstate' = qstate
        /\ status'[k] \in {status[k], "QUEUED"}
    BY <1>4 DEF SaveRow, RejectCreate, slotVars, queueVars, rowVars, envVars, IInv, TypeOK
  <2>2. ~Settling(k)
    BY <2>1 DEF Settling
  <2>3. QED
    BY <1>i, <2>1, <2>2
<1>5. ASSUME NEW r \in Replicas, NEW w \in writes[r], Commit(r, w)
      PROVE  \E q \in Replicas : replica'[q] # "up"
  <2>0. w[1] \in Jobs /\ w[2] \in {"RETRYING", "FAILED"}
    BY DEF IInv, TypeOK
  <2>1. /\ pc' = pc /\ job' = job /\ replica' = replica /\ qstate' = qstate
        /\ status' = [status EXCEPT ![w[1]] = w[2]]
        /\ writes' = [writes EXCEPT ![r] = @ \ {w}]
    BY <1>5 DEF Commit, slotVars, queueVars, envVars
  <2>2. w[1] # k /\ status[k] = "RUNNING"
    BY <2>0, <2>1 DEF IInv, TypeOK
  <2>3. ~Settling(k)
    BY <2>1, <2>2 DEF Settling, IInv, TypeOK
  <2>4. QED
    BY <1>i, <2>1, <2>2, <2>3
<1>6. ASSUME NEW r \in Replicas, Crash(r) \/ Boot(r) PROVE \E q \in Replicas : replica'[q] # "up"
  BY <1>6 DEF Crash, Boot, IInv, TypeOK
<1>7. ASSUME NEW r \in Replicas, CleanUp(r) PROVE FALSE
  BY <1>7 DEF CleanUp, Zombies
<1>8. CASE UNCHANGED <<pc, job, qstate, status, writes, replica>>
  BY <1>8, <1>i DEF Settling
<1>9. QED
  BY <1>1, <1>2, <1>3, <1>4, <1>5, <1>6, <1>7, <1>8
  DEF Next, JobStep, ReplicaStep, DeactivateBrand, ReactivateBrand, vars, slotVars, queueVars,
      rowVars, envVars

\* The invariant about steady jobs holds when updates land before the retry.
LEMMA CalmHolds ==
    ASSUME ~LateWrites
    PROVE  Spec => []CalmInv
<1>1. Init => CalmInv
  BY DEF Init, CalmInv, SoleWorker, SoleWrite, DoneInv, ForgottenInv
<1>2. IInv /\ CalmInv /\ [Next]_vars => CalmInv'
  <2> SUFFICES ASSUME IInv, CalmInv, [Next]_vars PROVE CalmInv'
    OBVIOUS
  <2>1. CASE Next
    BY <2>1, SoleWorkerKept, SoleWriteKept, DoneKept, ForgottenKept DEF CalmInv
  <2>2. CASE UNCHANGED vars
    BY <2>2 DEF vars, rowVars, queueVars, slotVars, envVars, CalmInv, SoleWorker, SoleWrite, DoneInv,
       ForgottenInv, Steady, Settling
  <2>3. QED
    BY <2>1, <2>2
<1>3. QED
  BY <1>1, <1>2, IInvHolds, PTL DEF Spec

\* A job that BullMQ counts as completed has a DONE row with its result, for any
\* number of replicas, crashes and cleanups, when the backoff outlasts the row
\* updates of onFailed and no live worker lost a lock.
THEOREM CompletedIsDoneHolds ==
    ASSUME ~LateWrites
    PROVE  Spec => []CompletedIsDone
<1>1. CalmInv => CompletedIsDone
  BY DEF CalmInv, DoneInv, Steady, CompletedIsDone
<1>2. QED
  BY <1>1, CalmHolds, PTL

\* A row left in RUNNING by a job that BullMQ has finished with is one that the
\* cleanup of a starting replica will still find, under the same conditions.
THEOREM NoForgottenRunHolds ==
    ASSUME ~LateWrites
    PROVE  Spec => []NoForgottenRun
<1>1. CalmInv => NoForgottenRun
  BY DEF CalmInv, DoneInv, ForgottenInv, Steady, NoForgottenRun
<1>2. QED
  BY <1>1, CalmHolds, PTL
----------------------------------------------------------------------------
(* The row's status along the life of a job that was not redelivered.      *)

Restarted == crashes > 0 \/ InitiallyUp # Replicas

\* The next attempt may begin.
Startable(j) ==
    status[j] \in {"QUEUED", "RETRYING"} \/ (Restarted /\ status[j] \in {"RUNNING", "FAILED"})

\* An attempt is under way, unless a starting server said otherwise.
OpenRun(j) == status[j] = "RUNNING" \/ (Restarted /\ status[j] = "FAILED")

FreshInv == \A j \in Jobs : api[j] = "new" => status[j] = "none"

WrittenInv == \A r \in Replicas : \A w \in writes[r] : status[w[1]] # "none"

RestartInv == \A r \in Replicas : replica[r] # "up" => Restarted

Track(j) ==
    /\ qstate[j] = "absent" => status[j] \in {"none", "QUEUED"}
    /\ qstate[j] = "waiting" => Startable(j)
    /\ qstate[j] = "delayed" /\ ~Settling(j) => Startable(j)
    /\ \A s \in Slots : job[s] = j =>
          /\ pc[s] = "update" => Startable(j)
          /\ pc[s] \in {"brand", "run", "save", "failing", "onFailed"} => OpenRun(j)
          /\ pc[s] = "onFailed" /\ qstate[j] = "delayed" => ~IsFinal(s)
    /\ \A r \in Replicas : \A w \in writes[r] : w[1] = j =>
          OpenRun(j) /\ (qstate[j] = "delayed" => w[2] = "RETRYING")

TrackInv == \A j \in Jobs : stalls[j] = 0 => Track(j)

TraceInv == FreshInv /\ WrittenInv /\ RestartInv /\ TrackInv

\* Only SaveRow gives a row to a job without one.
LEMMA RowAppears ==
    ASSUME IInv, TraceInv, Next, NEW k \in Jobs
    PROVE  /\ status[k] # "none" => status'[k] # "none"
           /\ status'[k] # status[k] /\ status[k] = "none" =>
                 api[k] = "new" /\ \E r \in Replicas : SaveRow(k, r)
<1>1. ASSUME NEW s \in Slots, SlotStep(s) PROVE
        status'[k] = status[k] \/ (status[k] # "none" /\ status'[k] # "none")
  <2>1. status[job[s]] # "none"
    BY <1>1, SlotFrame DEF IInv, RowBeforeQueue
  <2>2. status'[job[s]] \in {status[job[s]], "RUNNING", "DONE"}
    BY <1>1, SlotFrame DEF SlotStep, SetRunning, LoadBrand, RunPipeline, SaveDone, Report,
         Complete, DbFails, MoveToFailed, OnFailed, rowVars, IInv, TypeOK
  <2>3. QED
    BY <1>1, <2>1, <2>2, SlotFrame
<1>2. ASSUME NEW j \in Jobs, JobStep(j), ~ \E r \in Replicas : SaveRow(j, r)
      PROVE  status' = status
  BY <1>2 DEF JobStep, RejectCreate, Enqueue, EnqueueFails, Pick, StalledFail, Promote,
     StalledRequeue, rowVars
<1>3. ASSUME NEW j \in Jobs, NEW r \in Replicas, SaveRow(j, r)
      PROVE  /\ status'[k] = IF k = j THEN "QUEUED" ELSE status[k]
             /\ api[j] = "new"
  BY <1>3 DEF SaveRow, IInv, TypeOK
<1>4. ASSUME NEW r \in Replicas, ReplicaStep(r) PROVE
        status'[k] = status[k] \/ (status[k] # "none" /\ status'[k] # "none")
  <2>1. CASE Crash(r) \/ Boot(r) \/ CleanUp(r)
    BY <2>1 DEF Crash, Boot, CleanUp, Zombies, rowVars, IInv, TypeOK
  <2>2. ASSUME NEW w \in writes[r], Commit(r, w) PROVE
          status'[k] = status[k] \/ (status[k] # "none" /\ status'[k] # "none")
    BY <2>2 DEF Commit, TraceInv, WrittenInv, IInv, TypeOK
  <2>3. QED
    BY <1>4, <2>1, <2>2 DEF ReplicaStep
<1>5. CASE UNCHANGED status
  BY <1>5
<1>6. QED
  BY <1>1, <1>2, <1>3, <1>4, <1>5 DEF Next, DeactivateBrand, ReactivateBrand, vars, rowVars

\* A request that has not saved its job has no row.
LEMMA FreshKept ==
    ASSUME IInv, TraceInv, Next
    PROVE  FreshInv'
<1> SUFFICES ASSUME NEW k \in Jobs, api'[k] = "new" PROVE status'[k] = "none"
  BY DEF FreshInv
<1>1. api[k] = "new" /\ ~ \E r \in Replicas : SaveRow(k, r)
  BY SlotFrame DEF Next, JobStep, ReplicaStep, RejectCreate, SaveRow, Enqueue, EnqueueFails, Pick,
     StalledFail, Promote, StalledRequeue, Crash, Boot, CleanUp, Commit, DeactivateBrand,
     ReactivateBrand, apiVars, vars, IInv, TypeOK
<1>2. QED
  BY <1>1, RowAppears DEF TraceInv, FreshInv

\* Only onFailed starts a row update.
LEMMA WritesGrow ==
    ASSUME IInv, Next
    PROVE  (\E s \in Slots : OnFailed(s)) \/ \A r \in Replicas : writes'[r] \subseteq writes[r]
<1>1. ASSUME NEW s \in Slots, SlotStep(s), ~OnFailed(s) PROVE writes' = writes
  BY <1>1 DEF SlotStep, SetRunning, LoadBrand, RunPipeline, SaveDone, Report, Complete, DbFails,
     MoveToFailed
<1>2. ASSUME NEW j \in Jobs, JobStep(j) PROVE writes' = writes
  BY <1>2 DEF JobStep, RejectCreate, SaveRow, Enqueue, EnqueueFails, Pick, StalledFail, Promote,
     StalledRequeue
<1>3. ASSUME NEW q \in Replicas, ReplicaStep(q)
      PROVE  \A r \in Replicas : writes'[r] \subseteq writes[r]
  <2>1. writes \in [Replicas -> SUBSET (Jobs \X {"RETRYING", "FAILED"})]
    BY DEF IInv, TypeOK
  <2>2. \/ writes' = writes
        \/ writes' = [writes EXCEPT ![q] = {}]
        \/ \E w \in writes[q] : writes' = [writes EXCEPT ![q] = @ \ {w}]
    BY <1>3 DEF ReplicaStep, Crash, Boot, CleanUp, Commit
  <2>3. QED
    BY <2>1, <2>2
<1>4. CASE UNCHANGED writes
  BY <1>4
<1>5. QED
  BY <1>1, <1>2, <1>3, <1>4 DEF Next, DeactivateBrand, ReactivateBrand, vars

\* Every pending update is of a job that has a row.
LEMMA WrittenKept ==
    ASSUME IInv, TraceInv, Next
    PROVE  WrittenInv'
<1> SUFFICES ASSUME NEW r \in Replicas, NEW w \in writes'[r] PROVE status'[w[1]] # "none"
  BY DEF WrittenInv
<1>1. CASE w \in writes[r]
  <2>1. w[1] \in Jobs /\ status[w[1]] # "none"
    BY <1>1 DEF TraceInv, WrittenInv, IInv, TypeOK
  <2>2. QED
    BY <2>1, RowAppears
<1>2. CASE w \notin writes[r]
  <2>1. PICK s \in Slots : OnFailed(s)
    BY <1>2, WritesGrow
  <2>2. w[1] = job[s] /\ job[s] \in Jobs /\ pc[s] # "idle"
    BY <1>2, <2>1, HomeAssumption DEF OnFailed, IInv, TypeOK
  <2>3. status' = status
    BY <2>1 DEF OnFailed, rowVars
  <2>4. QED
    BY <2>2, <2>3 DEF IInv, RowBeforeQueue
<1>3. QED
  BY <1>1, <1>2

\* A server start has been seen wherever a replica is not serving.
LEMMA RestartKept ==
    ASSUME IInv, TraceInv, Next
    PROVE  RestartInv' /\ (Restarted => Restarted')
<1>1. ASSUME NEW r \in Replicas, Crash(r) PROVE Restarted'
  BY <1>1 DEF Crash, Restarted, IInv, TypeOK
<1>2. ASSUME NEW r \in Replicas, Boot(r) \/ CleanUp(r)
      PROVE  crashes' = crashes /\ \A q \in Replicas : replica'[q] # "up" => replica[q] # "up"
  BY <1>2 DEF Boot, CleanUp, IInv, TypeOK
<1>3. CASE ~ \E r \in Replicas : Crash(r) \/ Boot(r) \/ CleanUp(r)
  BY <1>3, SlotFrame DEF Next, JobStep, ReplicaStep, RejectCreate, SaveRow, Enqueue, EnqueueFails,
     Pick, StalledFail, Promote, StalledRequeue, Commit, DeactivateBrand, ReactivateBrand, vars,
     envVars, TraceInv, RestartInv, Restarted
<1>4. QED
  BY <1>1, <1>2, <1>3 DEF TraceInv, RestartInv, Restarted

\* The status of a job's row stays with its run, when the update to RUNNING is
\* not among the database calls that fail.
LEMMA TrackKept ==
    ASSUME IInv, CalmInv, TraceInv, ~LateWrites, "update" \notin DbFaults, Next
    PROVE  TrackInv'
<1> SUFFICES ASSUME NEW k \in Jobs, stalls'[k] = 0 PROVE Track(k)'
  BY DEF TrackInv
<1>r. Restarted => Restarted'
  BY RestartKept
<1>s. /\ stalls[k] = 0 \/ \E j \in Jobs : StalledRequeue(j) \/ \E s \in Slots : StalledFail(s, j)
      /\ \A j \in Jobs :
            StalledRequeue(j) \/ (\E s \in Slots : StalledFail(s, j)) => stalls[k] = 0 /\ j # k
  <2>1. ASSUME NEW j \in Jobs, StalledRequeue(j) \/ \E s \in Slots : StalledFail(s, j)
        PROVE  stalls[k] = 0 /\ j # k
    BY <2>1 DEF StalledRequeue, StalledFail, IInv, TypeOK
  <2>2. CASE ~ \E j \in Jobs : StalledRequeue(j) \/ \E s \in Slots : StalledFail(s, j)
    <3>1. stalls' = stalls
      BY <2>2, SlotFrame DEF Next, JobStep, ReplicaStep, RejectCreate, SaveRow, Enqueue,
         EnqueueFails, Pick, Promote, Crash, Boot, CleanUp, Commit, DeactivateBrand,
         ReactivateBrand, queueVars, vars
    <3>2. QED
      BY <2>1, <3>1
  <2>3. QED
    BY <2>1, <2>2
<1>i. Track(k) /\ Steady(k)
  BY <1>s DEF TraceInv, TrackInv, Steady
<1>w. /\ \A s \in Slots : pc[s] # "idle" /\ job[s] = k =>
            /\ lock[k] = s
            /\ qstate[k] \in IF pc[s] = "onFailed" THEN {"delayed", "failed"} ELSE {"active"}
      /\ \A r \in Replicas : \A w \in writes[r] : w[1] = k =>
            /\ qstate[k] \in {"delayed", "failed"}
            /\ \A s \in Slots : pc[s] = "idle" \/ job[s] # k
            /\ \A q \in Replicas : \A v \in writes[q] : v[1] = k => q = r /\ v = w
  BY <1>i DEF CalmInv, SoleWorker, SoleWrite
<1>1. ASSUME NEW s \in Slots, SlotStep(s), job[s] # k PROVE Track(k)'
  <2>1. \A r \in Replicas : \A w : w[1] = k => (w \in writes'[r] <=> w \in writes[r])
    <3>1. writes \in [Replicas -> SUBSET (Jobs \X {"RETRYING", "FAILED"})] /\ Home[s] \in Replicas
      BY HomeAssumption DEF IInv, TypeOK
    <3>2. \/ writes' = writes
          \/ \E x \in {"FAILED", "RETRYING"} :
                writes' = [writes EXCEPT ![Home[s]] = @ \cup {<<job[s], x>>}]
      BY <1>1 DEF SlotStep, SetRunning, LoadBrand, RunPipeline, SaveDone, Report, Complete,
         DbFails, MoveToFailed, OnFailed
    <3>3. QED
      BY <1>1, <3>1, <3>2
  <2>2. Settling(k)' <=> Settling(k)
    BY <1>1, <2>1, SlotFrame DEF Settling
  <2>3. (Startable(k)' <=> Startable(k)) /\ (OpenRun(k)' <=> OpenRun(k))
    BY <1>1, SlotFrame DEF Startable, OpenRun, Restarted
  <2>4. QED
    BY <1>1, <1>i, <2>1, <2>2, <2>3, SlotFrame DEF Track, IsFinal
<1>2. ASSUME NEW s \in Slots, SlotStep(s), job[s] = k PROVE Track(k)'
  <2>0. /\ \A t \in Slots : pc[t] # "idle" /\ job[t] = k => t = s
        /\ \A r \in Replicas : \A w \in writes[r] : w[1] # k
        /\ pc[s] \in {"brand", "run", "save", "failing", "onFailed"} => OpenRun(k)
    BY <1>2, <1>i, <1>w, SlotFrame DEF Track
  <2>1. CASE OnFailed(s)
    <3>1. /\ pc[s] = "onFailed" /\ pc'[s] = "idle" /\ qstate' = qstate /\ status' = status
          /\ Home[s] \in Replicas
          /\ writes' = [writes EXCEPT ![Home[s]] =
                           @ \cup {<<k, IF IsFinal(s) THEN "FAILED" ELSE "RETRYING">>}]
      BY <1>2, <2>1, HomeAssumption DEF OnFailed, Goto, queueVars, rowVars, IInv, TypeOK
    <3>2. OpenRun(k)' /\ (qstate[k] = "delayed" => ~IsFinal(s))
      BY <1>2, <1>i, <2>0, <3>1, SlotFrame DEF OpenRun, Restarted, Track
    <3>3. \A r \in Replicas : \A w \in writes'[r] : w[1] = k =>
             w[2] = IF IsFinal(s) THEN "FAILED" ELSE "RETRYING"
      BY <2>0, <3>1 DEF IInv, TypeOK
    <3>4. Settling(k)'
      <4> DEFINE new == <<k, IF IsFinal(s) THEN "FAILED" ELSE "RETRYING">>
      <4>0. new \in writes'[Home[s]] /\ new[1] = k
        BY <3>1 DEF IInv, TypeOK
      <4>1. \E w \in writes'[Home[s]] : w[1] = k
        BY <4>0
      <4>2. QED
        BY <3>1, <4>1 DEF Settling
    <3>5. \A t \in Slots : job'[t] = k => pc'[t] = "idle"
      BY <1>2, <2>0, <3>1, SlotFrame
    <3>6. qstate[k] \in {"delayed", "failed"}
      BY <1>2, <1>w, <3>1
    <3>7. QED
      BY <3>1, <3>2, <3>3, <3>4, <3>5, <3>6 DEF Track
  <2>2. CASE ~OnFailed(s)
    <3>1. /\ writes' = writes
          /\ pc'[s] = "onFailed" => pc[s] = "failing" /\ status' = status
                                    /\ (qstate'[k] = "delayed" => ~IsFinal(s))
          /\ pc'[s] \in {"run", "save", "failing"} =>
                pc[s] \in {"brand", "run", "save"} /\ status' = status
          /\ pc'[s] # "update"
          /\ pc'[s] = "brand" => status'[k] = "RUNNING"
      <4>1. SlotStep(s) /\ job[s] \in Jobs /\ pc \in [Slots -> Busy \cup {"idle"}]
        BY <1>2, SlotFrame
      <4>2. made[s] \in Nat /\ status \in [Jobs -> JobStatus \cup {"none"}]
             /\ qstate \in [Jobs -> Live \cup {"absent", "completed", "failed"}]
        BY DEF IInv, TypeOK
      <4>3. CASE SetRunning(s)
        BY <1>2, <4>1, <4>2, <4>3 DEF SetRunning, Goto
      <4>4. CASE MoveToFailed(s)
        BY <1>2, <4>1, <4>2, <4>4, AttemptsAssumption DEF MoveToFailed, Goto, rowVars, IsFinal
      <4>5. CASE LoadBrand(s) \/ RunPipeline(s) \/ SaveDone(s) \/ Report(s) \/ Complete(s)
        BY <4>1, <4>5 DEF LoadBrand, RunPipeline, SaveDone, Report, Complete, Goto, rowVars
      <4>6. CASE DbFails(s)
        <5>1. pc[s] \in {"brand", "save"}
          BY <4>6, FaultAssumption DEF DbFails
        <5>2. QED
          BY <4>1, <4>6, <5>1 DEF DbFails, Goto, rowVars
      <4>7. QED
        BY <2>2, <4>1, <4>3, <4>4, <4>5, <4>6 DEF SlotStep
    <3>2. qstate'[k] \in {"active", "delayed", "failed", "completed"}
          /\ (qstate'[k] = "delayed" => pc'[s] = "onFailed")
      BY <1>2, <1>i, <2>2, SlotQueue DEF CalmInv
    <3>3. qstate'[k] = "delayed" => Settling(k)'
      BY <1>2, <3>2, SlotFrame DEF Settling
    <3>4. \A t \in Slots : job'[t] = k => t = s \/ pc'[t] = "idle"
      BY <1>2, <2>0, SlotFrame
    <3>5. pc'[s] \in {"brand", "run", "save", "failing", "onFailed"} => OpenRun(k)'
      BY <1>2, <2>0, <3>1, SlotFrame DEF OpenRun, Restarted
    <3>6. IsFinal(s)' <=> IsFinal(s)
      BY <1>2, SlotFrame DEF IsFinal
    <3>7. QED
      BY <2>0, <3>1, <3>2, <3>3, <3>4, <3>5, <3>6 DEF Track
  <2>3. QED
    BY <2>1, <2>2
<1>3. ASSUME NEW j \in Jobs, NEW s \in Slots, Pick(s, j) \/ StalledFail(s, j) PROVE Track(k)'
  <2>1. /\ writes' = writes /\ status' = status /\ crashes' = crashes
        /\ job'[s] = j /\ pc[s] = "idle"
        /\ \A t \in Slots \ {s} : pc'[t] = pc[t] /\ job'[t] = job[t] /\ made'[t] = made[t]
        /\ \A x \in Jobs \ {j} : qstate'[x] = qstate[x]
        /\ Pick(s, j) => pc'[s] = "update" /\ qstate[j] = "waiting" /\ qstate'[j] = "active"
    BY <1>3 DEF Pick, StalledFail, rowVars, envVars, IInv, TypeOK
  <2>2. (Startable(k)' <=> Startable(k)) /\ (OpenRun(k)' <=> OpenRun(k))
    BY <2>1 DEF Startable, OpenRun, Restarted
  <2>3. CASE j = k
    <3>1. Pick(s, j)
      BY <1>3, <1>s, <2>3
    <3>2. Startable(k)
      BY <1>i, <2>1, <2>3, <3>1 DEF Track
    <3>3. \A t \in Slots \ {s} : job'[t] = k => pc'[t] = "idle"
      BY <1>w, <2>1, <2>3, <3>1
    <3>4. \A r \in Replicas : \A w \in writes[r] : w[1] # k
      BY <1>w, <2>1, <2>3, <3>1
    <3>5. QED
      BY <2>1, <2>2, <2>3, <3>1, <3>2, <3>3, <3>4 DEF Track
  <2>4. CASE j # k
    <3>1. Settling(k)' <=> Settling(k)
      BY <2>1, <2>4 DEF Settling
    <3>2. \A t \in Slots : job'[t] = k => job[t] = k /\ pc'[t] = pc[t] /\ (IsFinal(t)' <=> IsFinal(t))
      BY <2>1, <2>4 DEF IsFinal
    <3>3. QED
      BY <1>i, <2>1, <2>2, <2>4, <3>1, <3>2 DEF Track
  <2>5. QED
    BY <2>3, <2>4
<1>4. ASSUME NEW j \in Jobs, Promote(j) \/ Enqueue(j) \/ EnqueueFails(j) \/ StalledRequeue(j)
      PROVE  Track(k)'
  <2>1. /\ writes' = writes /\ status' = status /\ crashes' = crashes
        /\ pc' = pc /\ job' = job /\ made' = made
        /\ \A x \in Jobs \ {j} : qstate'[x] = qstate[x]
    BY <1>4 DEF Promote, Enqueue, EnqueueFails, StalledRequeue, rowVars, envVars, slotVars, IInv,
       TypeOK
  <2>2. /\ Startable(k)' <=> Startable(k)
        /\ OpenRun(k)' <=> OpenRun(k)
        /\ Settling(k)' <=> Settling(k)
        /\ \A t \in Slots : IsFinal(t)' <=> IsFinal(t)
    BY <2>1 DEF Startable, OpenRun, Restarted, Settling, IsFinal
  <2>3. CASE j = k
    <3>1. \/ qstate[k] = "delayed" /\ ~Settling(k) /\ qstate'[k] = "waiting"
          \/ qstate[k] = "absent" /\ status[k] # "none" /\ qstate'[k] \in {"absent", "waiting"}
      BY <1>4, <1>s, <2>3 DEF Promote, Enqueue, EnqueueFails, IInv, ApiInv, TypeOK
    <3>2. Startable(k) /\ (qstate'[k] = "absent" => status[k] = "QUEUED")
      BY <1>i, <3>1 DEF Track, Startable
    <3>3. /\ \A t \in Slots : job[t] = k => pc[t] = "idle"
          /\ \A r \in Replicas : \A w \in writes[r] : w[1] # k
      BY <1>w, <3>1 DEF Settling
    <3>4. QED
      BY <2>1, <2>2, <3>1, <3>2, <3>3 DEF Track
  <2>4. CASE j # k
    BY <1>i, <2>1, <2>2, <2>4 DEF Track
  <2>5. QED
    BY <2>3, <2>4
<1>5. ASSUME NEW j \in Jobs, NEW r \in Replicas, SaveRow(j, r) PROVE Track(k)'
  <2>1. /\ writes' = writes /\ crashes' = crashes /\ pc' = pc /\ job' = job /\ made' = made
        /\ qstate' = qstate /\ status'[k] = IF k = j THEN "QUEUED" ELSE status[k]
        /\ k = j => qstate[k] = "absent"
    BY <1>5 DEF SaveRow, queueVars, envVars, slotVars, IInv, TypeOK, ApiInv
  <2>2. CASE j = k
    BY <1>w, <2>1, <2>2 DEF Track
  <2>3. CASE j # k
    BY <1>i, <2>1, <2>3 DEF Track, Startable, OpenRun, Restarted, Settling, IsFinal
  <2>4. QED
    BY <2>2, <2>3
<1>6. ASSUME NEW r \in Replicas, Crash(r) PROVE Track(k)'
  <2>1. /\ qstate' = qstate /\ status' = status /\ job' = job /\ made' = made
        /\ \A t \in Slots : pc'[t] \in {"idle", pc[t]}
        /\ \A q \in Replicas : writes'[q] \subseteq writes[q]
        /\ Restarted'
    BY <1>6 DEF Crash, queueVars, rowVars, Restarted, IInv, TypeOK
  <2>2. /\ Startable(k) => Startable(k)'
        /\ OpenRun(k) => OpenRun(k)' /\ Startable(k)'
        /\ \A t \in Slots : IsFinal(t)' <=> IsFinal(t)
    BY <2>1 DEF Startable, OpenRun, IsFinal
  <2>3. qstate[k] = "delayed" => Startable(k)'
    BY <1>i, <2>2 DEF Track, Settling
  <2>4. QED
    BY <1>i, <2>1, <2>2, <2>3 DEF Track
<1>7. ASSUME NEW r \in Replicas, CleanUp(r) PROVE Track(k)'
  <2>1. /\ qstate' = qstate /\ job' = job /\ made' = made /\ pc' = pc /\ writes' = writes
        /\ Restarted /\ crashes' = crashes
        /\ status'[k] = IF status[k] = "RUNNING" THEN "FAILED" ELSE status[k]
    BY <1>7 DEF CleanUp, Zombies, queueVars, slotVars, TraceInv, RestartInv, IInv, TypeOK
  <2>2. /\ Startable(k) => Startable(k)'
        /\ OpenRun(k) => OpenRun(k)'
        /\ Settling(k)' <=> Settling(k)
        /\ \A t \in Slots : IsFinal(t)' <=> IsFinal(t)
    BY <2>1 DEF Startable, OpenRun, Restarted, Settling, IsFinal
  <2>3. QED
    BY <1>i, <2>1, <2>2 DEF Track
<1>8. ASSUME NEW r \in Replicas, NEW w \in writes[r], Commit(r, w) PROVE Track(k)'
  <2>0. w[1] \in Jobs /\ w[2] \in {"RETRYING", "FAILED"}
    BY DEF IInv, TypeOK
  <2>1. /\ qstate' = qstate /\ job' = job /\ made' = made /\ pc' = pc /\ crashes' = crashes
        /\ writes' = [writes EXCEPT ![r] = @ \ {w}]
        /\ status'[k] = IF w[1] = k THEN w[2] ELSE status[k]
    BY <1>8, <2>0 DEF Commit, queueVars, slotVars, envVars, IInv, TypeOK
  <2>2. CASE w[1] = k
    <3>1. /\ qstate[k] \in {"delayed", "failed"}
          /\ \A s \in Slots : pc[s] = "idle" \/ job[s] # k
          /\ \A q \in Replicas : \A v \in writes'[q] : v[1] # k
      BY <1>w, <2>1, <2>2 DEF IInv, TypeOK
    <3>2. qstate[k] = "delayed" => Startable(k)'
      BY <1>i, <2>1, <2>2 DEF Track, Startable
    <3>3. \A s \in Slots : job'[s] = k => pc'[s] = "idle"
      BY <2>1, <3>1
    <3>4. QED
      BY <2>1, <3>1, <3>2, <3>3 DEF Track
  <2>3. CASE w[1] # k
    <3>1. \A q \in Replicas : \A v : v[1] = k => (v \in writes'[q] <=> v \in writes[q])
      BY <2>1, <2>3 DEF IInv, TypeOK
    <3>2. /\ Startable(k)' <=> Startable(k)
          /\ OpenRun(k)' <=> OpenRun(k)
          /\ Settling(k)' <=> Settling(k)
          /\ \A t \in Slots : IsFinal(t)' <=> IsFinal(t)
      BY <2>1, <2>3, <3>1 DEF Startable, OpenRun, Restarted, Settling, IsFinal
    <3>3. \A q \in Replicas : \A v \in writes'[q] : v[1] = k => v \in writes[q]
      BY <3>1
    <3>4. QED
      BY <1>i, <2>1, <2>3, <3>2, <3>3 DEF Track
  <2>4. QED
    BY <2>2, <2>3
<1>9. CASE UNCHANGED <<pc, job, made, qstate, status, writes, crashes>>
  BY <1>9, <1>i DEF Track, Startable, OpenRun, Restarted, Settling, IsFinal
<1>10. QED
  BY <1>1, <1>2, <1>3, <1>4, <1>5, <1>6, <1>7, <1>8, <1>9
  DEF Next, JobStep, ReplicaStep, RejectCreate, Boot, DeactivateBrand, ReactivateBrand, vars,
      slotVars, queueVars, rowVars, envVars

\* The invariant that ties the rows to the abstract machine holds.
LEMMA TraceHolds ==
    ASSUME ~LateWrites, "update" \notin DbFaults
    PROVE  Spec => []TraceInv
<1>1. Init => TraceInv
  BY FaultAssumption
  DEF Init, TraceInv, FreshInv, WrittenInv, RestartInv, Restarted, TrackInv, Track
<1>2. IInv /\ CalmInv /\ TraceInv /\ [Next]_vars => TraceInv'
  <2> SUFFICES ASSUME IInv, CalmInv, TraceInv, [Next]_vars PROVE TraceInv'
    OBVIOUS
  <2>1. CASE Next
    BY <2>1, FreshKept, WrittenKept, RestartKept, TrackKept DEF TraceInv
  <2>2. CASE UNCHANGED vars
    BY <2>2 DEF vars, rowVars, queueVars, apiVars, slotVars, envVars, TraceInv, FreshInv, WrittenInv,
       RestartInv, Restarted, TrackInv, Track, Startable, OpenRun, Settling, IsFinal
  <2>3. QED
    BY <2>1, <2>2
<1>3. QED
  BY <1>1, <1>2, IInvHolds, CalmHolds, PTL DEF Spec

\* A row update of the worker of job j is a step of the status machine.
LEMMA UpdateRefines ==
    ASSUME IInv, TraceInv, NEW j \in Jobs, status[j] # "none",
           UNCHANGED <<stalls, crashes>>, NEW st \in {"RUNNING", "DONE", "RETRYING", "FAILED"},
           status' = [status EXCEPT ![j] = st],
           stalls[j] = 0 => IF st = "RUNNING" THEN Startable(j) ELSE OpenRun(j)
    PROVE  Machine!Next \/ UNCHANGED Machine!vars
<1>1. UNCHANGED <<{k \in Jobs : stalls[k] > 0}, crashes > 0 \/ InitiallyUp # Replicas>>
  OBVIOUS
<1>2. CASE stalls[j] > 0
  <2>1. Machine!Redo(j)
    BY <1>2 DEF Machine!Redo, Machine!Becomes
  <2>2. QED
    BY <1>1, <2>1 DEF Machine!Next
<1>3. CASE stalls[j] = 0
  <2>1. CASE status[j] = st
    <3>1. status' = status
      BY <2>1 DEF IInv, TypeOK
    <3>2. QED
      BY <1>1, <3>1 DEF Machine!vars
  <2>2. CASE status[j] # st
    <3>1. Machine!Attempt(j) \/ Machine!End(j) \/ Machine!Survive(j)
      BY <1>3, <2>2 DEF Startable, OpenRun, Restarted, Machine!Attempt, Machine!End,
         Machine!Survive, Machine!Becomes
    <3>2. QED
      BY <1>1, <3>1 DEF Machine!Next
  <2>3. QED
    BY <2>1, <2>2
<1>4. QED
  BY <1>2, <1>3 DEF IInv, TypeOK

\* A step that changes no row, and can only make jobs redelivered or a restart
\* known, is a disturbance or a stutter.
LEMMA DisturbRefines ==
    ASSUME UNCHANGED status, Restarted => Restarted',
           {k \in Jobs : stalls[k] > 0} \subseteq {k \in Jobs : stalls'[k] > 0}
    PROVE  Machine!Next
BY DEF Machine!Next, Machine!Disturb, Restarted

\* Every step is a step of JobStatusMachine or leaves the rows' status alone.
LEMMA StepRefines ==
    ASSUME IInv, CalmInv, TraceInv, Next
    PROVE  Machine!Next \/ UNCHANGED Machine!vars
<1>r. Restarted => Restarted'
  BY RestartKept
<1>1. ASSUME NEW s \in Slots, SlotStep(s) PROVE Machine!Next \/ UNCHANGED Machine!vars
  <2>0. /\ job[s] \in Jobs /\ status[job[s]] # "none" /\ UNCHANGED <<stalls, crashes>>
        /\ stalls[job[s]] = 0 => Track(job[s])
    BY <1>1, SlotFrame DEF IInv, RowBeforeQueue, TraceInv, TrackInv
  <2>1. CASE SetRunning(s)
    BY <2>0, <2>1, UpdateRefines DEF SetRunning, Track
  <2>2. CASE SaveDone(s)
    BY <2>0, <2>2, UpdateRefines DEF SaveDone, Track
  <2>3. CASE status' = status
    BY <1>r, <2>0, <2>3, DisturbRefines
  <2>4. QED
    BY <1>1, <2>1, <2>2, <2>3 DEF SlotStep, LoadBrand, RunPipeline, Report, Complete, DbFails,
       MoveToFailed, OnFailed, rowVars
<1>2. ASSUME NEW j \in Jobs, NEW r \in Replicas, SaveRow(j, r)
      PROVE  Machine!Next \/ UNCHANGED Machine!vars
  <2>1. Machine!Create(j)
    BY <1>2 DEF SaveRow, TraceInv, FreshInv, Machine!Create, Machine!Becomes
  <2>2. QED
    BY <1>2, <2>1 DEF SaveRow, queueVars, envVars, Machine!Next
<1>3. ASSUME NEW j \in Jobs, JobStep(j), ~ \E r \in Replicas : SaveRow(j, r)
      PROVE  Machine!Next \/ UNCHANGED Machine!vars
  <2>1. status' = status
    BY <1>3 DEF JobStep, RejectCreate, Enqueue, EnqueueFails, Pick, StalledFail, Promote,
       StalledRequeue, rowVars
  <2>2. stalls' = stalls \/ stalls' = [stalls EXCEPT ![j] = @ + 1]
    BY <1>3 DEF JobStep, RejectCreate, Enqueue, EnqueueFails, Pick, StalledFail, Promote,
       StalledRequeue, queueVars
  <2>3. {k \in Jobs : stalls[k] > 0} \subseteq {k \in Jobs : stalls'[k] > 0}
    <3>1. \A k \in Jobs : stalls[k] \in Nat /\ stalls'[k] \in {stalls[k], stalls[k] + 1}
      BY <2>2 DEF IInv, TypeOK
    <3>2. \A k \in Jobs : stalls[k] > 0 => stalls'[k] > 0
      BY <3>1
    <3>3. QED
      BY <3>2
  <2>4. QED
    BY <1>r, <2>1, <2>3, DisturbRefines
<1>4. ASSUME NEW r \in Replicas, CleanUp(r) PROVE Machine!Next \/ UNCHANGED Machine!vars
  <2>1. Machine!FailRunning
    BY <1>4 DEF CleanUp, Zombies, TraceInv, RestartInv, Restarted, Machine!FailRunning
  <2>2. QED
    BY <1>4, <2>1 DEF CleanUp, queueVars, Machine!Next
<1>5. ASSUME NEW r \in Replicas, NEW w \in writes[r], Commit(r, w)
      PROVE  Machine!Next \/ UNCHANGED Machine!vars
  <2>1. /\ w[1] \in Jobs /\ w[2] \in {"RETRYING", "FAILED"} /\ status[w[1]] # "none"
        /\ stalls[w[1]] = 0 => OpenRun(w[1])
    BY DEF IInv, TypeOK, TraceInv, WrittenInv, TrackInv, Track
  <2>2. UNCHANGED <<stalls, crashes>> /\ status' = [status EXCEPT ![w[1]] = w[2]]
    BY <1>5 DEF Commit, queueVars, envVars
  <2>3. QED
    BY <2>1, <2>2, UpdateRefines
<1>6. CASE UNCHANGED <<status, stalls>>
  BY <1>r, <1>6, DisturbRefines
<1>7. QED
  BY <1>1, <1>2, <1>3, <1>4, <1>5, <1>6
  DEF Next, ReplicaStep, Crash, Boot, DeactivateBrand, ReactivateBrand, vars, rowVars, queueVars

\* README.md's job status machine is what the rows follow, for any number of
\* jobs, replicas, crashes, lost locks and retries, when the backoff outlasts the
\* row updates of onFailed and the update to RUNNING does not itself fail: DONE
\* is left only by a redelivered job, FAILED only by one or after a server start.
THEOREM RowsFollowStatusMachine ==
    ASSUME ~LateWrites, "update" \notin DbFaults
    PROVE  Spec => ImplementsStatusMachine
<1>1. Init => Machine!Init
  BY DEF Init, Machine!Init
<1>2. IInv /\ CalmInv /\ TraceInv /\ [Next]_vars => [Machine!Next]_(Machine!vars)
  <2>1. UNCHANGED vars => UNCHANGED Machine!vars
    BY DEF vars, rowVars, queueVars, envVars, Machine!vars
  <2>2. QED
    BY <2>1, StepRefines
<1>3. QED
  BY <1>1, <1>2, IInvHolds, CalmHolds, TraceHolds, PTL DEF Spec, ImplementsStatusMachine, Machine!Spec
----------------------------------------------------------------------------
(* Platform: the end of a job and what its clients hear of it *)

\* A slot that runs process() for a steady job holds its lock, and the queue knows.
LockedWorker ==
    \A j \in Jobs : Steady(j) => \A s \in Slots :
        pc[s] \in Busy \ {"onFailed"} /\ job[s] = j => lock[j] = s /\ qstate[j] = "active"

HasTold(j) == \E i \in DOMAIN events[j] : events[j][i] = "job_done"

\* job_done has been emitted, or is next.
Finished(j) == HasTold(j) \/ \E s \in Slots : pc[s] = "report" /\ job[s] = j

Shown(j) == status[j] = "DONE" \/ (status[j] = "RETRYING" /\ LateWrites /\ attemptsMade[j] > 0)

\* The end of a job that has not stalled.
EndOf(j) ==
    /\ \A s \in Slots : pc[s] = "onFailed" /\ job[s] = j /\ IsFinal(s) => qstate[j] = "failed"
    /\ \A r \in Replicas : <<j, "FAILED">> \in writes[r] => qstate[j] = "failed"
    /\ Settling(j) => attemptsMade[j] > 0 /\ (LateWrites \/ qstate[j] \in {"delayed", "failed"})
    /\ Finished(j) =>
          /\ Shown(j)
          /\ qstate[j] \in {"active", "completed"}
          /\ \A s \in Slots : pc[s] \in Busy \ {"onFailed"} /\ job[s] = j => pc[s] \in {"report", "complete"}

EndInv == \A j \in Jobs : (Finished(j) => result[j]) /\ (stalls[j] = 0 => EndOf(j))

Entries == Replicas \X Jobs

\* What StreamingProofs shows of one process, for the maps of all replicas.
StreamInv ==
    /\ S!TypeOK
    /\ S!TimersMatchEntries
    /\ \A x \in Entries : S!IsActive(x) => conn[streams[x]] \in {"open", "gone"}
    /\ \A c \in hooked : sid[c] \in Entries /\ conn[c] # "idle"

\* The response c has been told the outcome w, and the end.
HasHeard(c, w) == Len(received[c]) = 2 /\ received[c][1] = w /\ received[c][2] = "done"

\* A response is silent until the step that ends it.
WordOf(c) ==
    /\ conn[c] \in {"idle", "open"} => received[c] = <<>>
    /\ received[c] = <<>> \/ HasHeard(c, "job_done") \/ HasHeard(c, "error")
    /\ HasHeard(c, "job_done") => sid[c] \in Entries /\ HasTold(sid[c][2])

WordInv == \A c \in Clients : WordOf(c)

\* Where a run has tokens still to emit.
Speaking == {"update", "brand", "run"}

Token == [run : Nat, live : BOOLEAN]

TokenTypes ==
    /\ runs \in [Jobs -> Nat]
    /\ run \in [Slots -> Nat]
    /\ abandoned \subseteq Replicas \X Jobs \X Nat
    /\ tokens \in Nat
    /\ heard \in [Clients -> Seq(Token)]

\* Delivery n of job j is over.
Passed(j, n) ==
    /\ n <= runs[j]
    /\ \A s \in Slots : pc[s] \in Speaking /\ job[s] = j => n < run[s]

HeardBy(c) ==
    heard[c] # <<>> =>
        /\ conn[c] # "idle"
        /\ sid[c] \in Entries
        /\ \A i \in DOMAIN heard[c] :
              /\ heard[c][i].run <= runs[sid[c][2]]
              /\ ~heard[c][i].live => Passed(sid[c][2], heard[c][i].run)

LatestRuns == \A s \in Slots : pc[s] \in Busy \ {"onFailed"} => run[s] = runs[job[s]]

AbandonedRuns == \A g \in abandoned : Passed(g[2], g[3])

TokenInv ==
    /\ TokenTypes
    /\ lapses = 0 => LatestRuns /\ AbandonedRuns /\ \A c \in Clients : HeardBy(c)
----------------------------------------------------------------------------
\* The stall of a job that stays steady is that of a dead worker, late writes or not.
LEMMA StallHasNoWorker ==
    ASSUME IInv, LockedWorker, NEW j \in Jobs, Steady(j)',
           StalledRequeue(j) \/ \E s \in Slots : StalledFail(s, j)
    PROVE  \A s \in Slots : pc[s] \in Busy \ {"onFailed"} => job[s] # j
<1>1. /\ stalls'[j] = stalls[j] + 1 /\ stalls[j] \in Nat /\ lapses \in Nat
      /\ LockExpired(j)
  BY DEF StalledRequeue, StalledFail, IInv, TypeOK
<1>2. lapses' = 0
  BY <1>1 DEF Steady
<1>3. Orphaned(j) /\ lapses = 0
  BY <1>1, <1>2 DEF LockExpired
<1>4. "idle" \notin Busy
  BY DEF Busy
<1> QED BY <1>3, <1>4 DEF Orphaned, LockedWorker, Steady

\* No step lets a second worker run a steady job.
LEMMA LockedKept ==
    ASSUME IInv, LockedWorker, Next
    PROVE  LockedWorker'
<1> DEFINE W == Busy \ {"onFailed"}
<1> SUFFICES ASSUME NEW k \in Jobs, Steady(k)', NEW t \in Slots, pc'[t] \in W, job'[t] = k
             PROVE  lock'[k] = t /\ qstate'[k] = "active"
  BY DEF LockedWorker
<1>0. Steady(k)
  BY SteadyStays
<1>i. \A s \in Slots : pc[s] \in W /\ job[s] = k => lock[k] = s /\ qstate[k] = "active"
  BY <1>0 DEF LockedWorker
<1>w. "idle" \notin W /\ "onFailed" \notin W
  BY DEF Busy
<1> HIDE DEF W
<1>1. ASSUME NEW s \in Slots, SlotStep(s)
      PROVE  lock'[k] = t /\ qstate'[k] = "active"
  <2>1. CASE t = s
    <3>1. job[s] = k /\ lock' = lock /\ job[s] \in Jobs /\ pc[s] # "idle"
      BY <1>1, <2>1, SlotFrame
    <3>2. pc[s] # "onFailed" /\ ~Complete(s) /\ ~MoveToFailed(s)
      BY <1>1, <1>w, <2>1, FaultAssumption
      DEF SlotStep, SetRunning, LoadBrand, RunPipeline, SaveDone, Report, Complete, DbFails,
          MoveToFailed, OnFailed, Goto, IInv, TypeOK
    <3>3. qstate' = qstate
      BY <1>1, <3>2 DEF SlotStep, SetRunning, LoadBrand, RunPipeline, SaveDone, Report, DbFails,
         OnFailed, queueVars
    <3>4. pc[s] \in W
      BY <3>1, <3>2 DEF W, IInv, TypeOK
    <3> QED BY <1>i, <2>1, <3>1, <3>3, <3>4
  <2>2. CASE t # s
    <3>1. pc'[t] = pc[t] /\ job[t] = k /\ lock' = lock
      BY <1>1, <2>2, SlotFrame
    <3>2. lock[k] = t /\ qstate[k] = "active"
      BY <1>i, <3>1
    <3>3. CASE job[s] # k
      BY <1>1, <3>1, <3>2, <3>3, SlotFrame
    <3>4. CASE job[s] = k
      <4>1. ~HoldsLock(s)
        BY <2>2, <3>2, <3>4 DEF HoldsLock
      <4>2. qstate'[k] = qstate[k]
        BY <1>1, <3>4, <4>1
        DEF SlotStep, SetRunning, LoadBrand, RunPipeline, SaveDone, Report, Complete, DbFails,
            MoveToFailed, OnFailed, queueVars, IInv, TypeOK
      <4> QED BY <3>1, <3>2, <4>2
    <3> QED BY <3>3, <3>4
  <2> QED BY <2>1, <2>2
<1>2. ASSUME NEW j \in Jobs, NEW s \in Slots, Pick(s, j)
      PROVE  lock'[k] = t /\ qstate'[k] = "active"
  BY <1>2, <1>i DEF Pick, IInv, TypeOK
<1>3. ASSUME NEW j \in Jobs, NEW s \in Slots, StalledFail(s, j)
      PROVE  lock'[k] = t /\ qstate'[k] = "active"
  <2>1. t # s /\ pc[t] = pc'[t] /\ job[t] = k
    BY <1>3, <1>w DEF StalledFail, IInv, TypeOK
  <2>2. j # k
    BY <1>3, <2>1, StallHasNoWorker DEF W
  <2> QED BY <1>3, <1>i, <2>1, <2>2 DEF StalledFail, IInv, TypeOK
<1>4. ASSUME NEW j \in Jobs, StalledRequeue(j)
      PROVE  lock'[k] = t /\ qstate'[k] = "active"
  <2>1. pc[t] = pc'[t] /\ job[t] = k
    BY <1>4 DEF StalledRequeue, slotVars
  <2>2. j # k
    BY <1>4, <2>1, StallHasNoWorker DEF W
  <2> QED BY <1>4, <1>i, <2>1, <2>2 DEF StalledRequeue, IInv, TypeOK
<1>5. ASSUME NEW j \in Jobs, Promote(j) \/ Enqueue(j) \/ EnqueueFails(j)
      PROVE  lock'[k] = t /\ qstate'[k] = "active"
  <2>1. /\ qstate[j] \in {"delayed", "absent"}
        /\ UNCHANGED <<pc, job, lock>>
        /\ \E q \in {"absent", "waiting"} : qstate' = [qstate EXCEPT ![j] = q]
    BY <1>5 DEF Promote, Enqueue, EnqueueFails, slotVars, IInv, ApiInv
  <2>2. j # k
    BY <1>i, <2>1
  <2> QED BY <1>i, <2>1, <2>2 DEF IInv, TypeOK
<1>6. ASSUME NEW r \in Replicas, Crash(r)
      PROVE  lock'[k] = t /\ qstate'[k] = "active"
  <2>1. pc[t] = pc'[t] /\ job[t] = k /\ UNCHANGED <<lock, qstate>>
    BY <1>6, <1>w DEF Crash, queueVars, IInv, TypeOK
  <2> QED BY <1>i, <2>1
<1>7. CASE UNCHANGED <<pc, job, lock, qstate>>
  BY <1>7, <1>i
<1> QED
  BY <1>1, <1>2, <1>3, <1>4, <1>5, <1>6, <1>7
  DEF Next, JobStep, ReplicaStep, RejectCreate, SaveRow, Boot, CleanUp, Commit, DeactivateBrand,
      ReactivateBrand, vars, slotVars, queueVars

\* A step that leaves job k alone, or only takes slots and updates away from it.
Untouched(k) ==
    /\ status'[k] = status[k] /\ result'[k] = result[k] /\ qstate'[k] = qstate[k]
    /\ attemptsMade'[k] = attemptsMade[k] /\ events'[k] = events[k]
    /\ \A t \in Slots : job'[t] = k /\ pc'[t] # "idle" =>
          job[t] = k /\ pc'[t] = pc[t] /\ made'[t] = made[t]
    /\ \A r \in Replicas : \A w \in writes'[r] : w[1] = k => w \in writes[r]

\* What is known of the end of a job survives the steps of others.
LEMMA UntouchedKeeps ==
    ASSUME NEW k \in Jobs, Untouched(k)
    PROVE  /\ Finished(k)' => Finished(k)
           /\ EndOf(k) => EndOf(k)'
<1>1. Finished(k)' => Finished(k)
  BY DEF Finished, HasTold, Untouched
<1>2. Settling(k)' => Settling(k)
  BY DEF Settling, Untouched
<1>3. \A t \in Slots : pc'[t] \in Busy => pc'[t] # "idle"
  BY DEF Busy
<1>4. Shown(k) => Shown(k)'
  BY DEF Shown, Untouched
<1>5. ASSUME EndOf(k)
      PROVE  EndOf(k)'
  <2>1. \A s \in Slots : pc'[s] = "onFailed" /\ job'[s] = k /\ IsFinal(s)' => qstate'[k] = "failed"
    BY <1>5 DEF EndOf, IsFinal, Untouched
  <2>2. \A r \in Replicas : <<k, "FAILED">> \in writes'[r] => qstate'[k] = "failed"
    BY <1>5 DEF EndOf, Untouched
  <2>3. Settling(k)' => attemptsMade'[k] > 0 /\ (LateWrites \/ qstate'[k] \in {"delayed", "failed"})
    BY <1>2, <1>5 DEF EndOf, Untouched
  <2>4. Finished(k)' =>
          /\ Shown(k)'
          /\ qstate'[k] \in {"active", "completed"}
          /\ \A s \in Slots :
                pc'[s] \in Busy \ {"onFailed"} /\ job'[s] = k => pc'[s] \in {"report", "complete"}
    BY <1>1, <1>3, <1>4, <1>5 DEF EndOf, Untouched
  <2> QED BY <2>1, <2>2, <2>3, <2>4 DEF EndOf
<1> QED BY <1>1, <1>5

\* A slot only touches its own job.
LEMMA SlotTouchesItsJob ==
    ASSUME IInv, NEW s \in Slots, SlotStep(s), NEW k \in Jobs, job[s] # k
    PROVE  Untouched(k)
<1>1. status'[k] = status[k] /\ result'[k] = result[k] /\ qstate'[k] = qstate[k]
  BY SlotFrame
<1>2. attemptsMade'[k] = attemptsMade[k] /\ events'[k] = events[k]
  BY DEF SlotStep, SetRunning, LoadBrand, RunPipeline, SaveDone, Report, Complete, DbFails,
         MoveToFailed, OnFailed, queueVars, IInv, TypeOK
<1>3. \A t \in Slots : job'[t] = k /\ pc'[t] # "idle" =>
          job[t] = k /\ pc'[t] = pc[t] /\ made'[t] = made[t]
  BY SlotFrame
<1>4. \A r \in Replicas : \A w \in writes'[r] : w[1] = k => w \in writes[r]
  <2>1. \/ writes' = writes
        \/ \E l : writes' = [writes EXCEPT ![Home[s]] = @ \cup {<<job[s], l>>}]
    BY DEF SlotStep, SetRunning, LoadBrand, RunPipeline, SaveDone, Report, Complete, DbFails,
           MoveToFailed, OnFailed
  <2>2. ASSUME NEW l, writes' = [writes EXCEPT ![Home[s]] = @ \cup {<<job[s], l>>}],
               NEW r \in Replicas, NEW w \in writes'[r], w[1] = k
        PROVE  w \in writes[r]
    <3>1. w \in writes[r] \/ w = <<job[s], l>>
      BY <2>2 DEF IInv, TypeOK
    <3>2. w # <<job[s], l>>
      BY <2>2
    <3> QED BY <3>1, <3>2
  <2> QED BY <2>1, <2>2
<1> QED BY <1>1, <1>2, <1>3, <1>4 DEF Untouched

\* The steps of process() and onFailed() keep what is known of their job's end.
LEMMA EndSlot ==
    ASSUME IInv, LockedWorker, EndInv, NEW s \in Slots, SlotStep(s),
           NEW k \in Jobs, job[s] = k, stalls[k] = 0
    PROVE  EndOf(k)'
<1> DEFINE W == Busy \ {"onFailed"}
<1>0. /\ EndOf(k) /\ pc[s] # "idle" /\ job' = job /\ made' = made
      /\ \A t \in Slots \ {s} : pc'[t] = pc[t]
      /\ \A t \in Slots : IsFinal(t)' <=> IsFinal(t)
  BY SlotFrame DEF EndInv, IsFinal
<1>1. pc[s] \in W => \A t \in Slots \ {s} : job[t] = k => pc[t] \notin W
  BY <1>0 DEF LockedWorker, Steady
<1>t. /\ pc \in [Slots -> Busy \cup {"idle"}] /\ made \in [Slots -> Nat]
      /\ qstate \in [Jobs -> Live \cup {"absent", "completed", "failed"}]
      /\ status \in [Jobs -> JobStatus \cup {"none"}]
      /\ attemptsMade \in [Jobs -> Nat]
      /\ events \in [Jobs -> Seq({"job_done", "error"})]
  BY DEF IInv, TypeOK
<1>w. "report" \in W /\ "complete" \in W /\ "idle" \notin W /\ "onFailed" \notin W
  BY DEF Busy
<1> HIDE DEF W
<1>2. ASSUME pc[s] \in {"update", "brand", "run", "save", "failing"}
      PROVE  pc[s] \in W /\ ~Finished(k)
  BY <1>0, <1>2 DEF EndOf, W, Busy
<1>3. ASSUME NEW l \in {"brand", "run", "save", "failing"}, Goto(s, l),
             pc[s] \in {"update", "brand", "run", "save", "failing"},
             UNCHANGED <<qstate, attemptsMade, writes, events>>
      PROVE  EndOf(k)'
  <2>1. pc'[s] = l
    BY <1>3, <1>t DEF Goto
  <2>2. ~Finished(k)'
    BY <1>0, <1>2, <1>3, <2>1 DEF Finished, HasTold
  <2>3. Settling(k)' => Settling(k)
    BY <1>0, <1>3, <2>1 DEF Settling
  <2> QED BY <1>0, <1>3, <2>1, <2>2, <2>3 DEF EndOf
<1>4. CASE SetRunning(s) \/ LoadBrand(s) \/ RunPipeline(s) \/ DbFails(s)
  BY <1>3, <1>4, FaultAssumption
  DEF SetRunning, LoadBrand, RunPipeline, DbFails, queueVars
<1>5. CASE SaveDone(s)
  <2>1. /\ pc'[s] = "report" /\ status'[k] = "DONE" /\ pc[s] = "save"
        /\ UNCHANGED <<qstate, attemptsMade, writes, events>>
    BY <1>0, <1>5, <1>t DEF SaveDone, Goto, queueVars
  <2>2. qstate[k] = "active" /\ \A t \in Slots \ {s} : job[t] = k => pc[t] \notin W
    BY <1>0, <1>1, <1>2, <2>1 DEF LockedWorker, Steady, W
  <2>3. Settling(k)' => Settling(k)
    BY <1>0, <2>1 DEF Settling
  <2>4. /\ Shown(k)' /\ qstate'[k] = "active"
        /\ \A t \in Slots : pc'[t] \in W /\ job'[t] = k => pc'[t] \in {"report", "complete"}
    BY <1>0, <2>1, <2>2 DEF Shown
  <2> QED BY <1>0, <2>1, <2>3, <2>4 DEF EndOf, W
<1>6. CASE Report(s) \/ Complete(s)
  <2>1. /\ pc[s] \in {"report", "complete"} /\ pc'[s] \in {"complete", "idle"}
        /\ UNCHANGED <<status, attemptsMade, writes>>
    BY <1>6, <1>t DEF Report, Complete, Goto, queueVars, rowVars
  <2>2. \A t \in Slots \ {s} : job[t] = k => pc[t] \notin W
    BY <1>1, <1>w, <2>1
  <2>3. qstate[k] = "active" /\ lock[k] = s
    BY <1>0, <1>w, <2>1 DEF LockedWorker, Steady, W
  <2>4. Settling(k)' => Settling(k)
    BY <1>0, <2>1 DEF Settling
  <2>5. ~LateWrites => ~Settling(k)
    BY <1>0, <2>3 DEF EndOf
  <2>6. qstate'[k] \in {"active", "completed"}
    BY <1>0, <1>6, <1>t, <2>3 DEF Report, Complete, HoldsLock, queueVars
  <2>7. Finished(k)' => Shown(k)'
    <3>1. CASE Report(s)
      BY <1>0, <2>1, <3>1 DEF Report, Finished, Shown, EndOf
    <3>2. CASE Complete(s)
      <4>1. Finished(k)' => Finished(k)
        BY <1>0, <2>1, <3>2 DEF Complete, Finished, HasTold
      <4> QED BY <1>0, <2>1, <4>1 DEF Shown, EndOf
    <3> QED BY <1>6, <3>1, <3>2
  <2>8. \A t \in Slots : ~(pc'[t] = "onFailed" /\ job'[t] = k /\ IsFinal(t)')
    BY <1>0, <2>1, <2>3 DEF EndOf
  <2>9. \A r \in Replicas : <<k, "FAILED">> \notin writes'[r]
    BY <1>0, <2>1, <2>3 DEF EndOf
  <2>10. \A t \in Slots : pc'[t] \in W /\ job'[t] = k => pc'[t] \in {"report", "complete"}
    BY <1>0, <1>w, <2>1, <2>2
  <2> QED BY <1>0, <2>1, <2>4, <2>5, <2>6, <2>7, <2>8, <2>9, <2>10 DEF EndOf, W
<1>7. CASE MoveToFailed(s)
  <2>1. pc[s] = "failing" /\ UNCHANGED <<writes, events>>
    BY <1>7 DEF MoveToFailed
  <2>2. lock[k] = s /\ qstate[k] = "active" /\ HoldsLock(s)
    BY <1>0, <1>2, <2>1 DEF LockedWorker, Steady, W, HoldsLock
  <2>3. /\ pc'[s] = "onFailed" /\ attemptsMade'[k] = attemptsMade[k] + 1
        /\ qstate'[k] = IF made[s] + 1 < MaxAttempts THEN "delayed" ELSE "failed"
    BY <1>0, <1>7, <1>t, <2>2 DEF MoveToFailed, Goto
  <2>4. ~Finished(k)'
    BY <1>0, <1>2, <2>1, <2>3 DEF Finished, HasTold
  <2>5. attemptsMade'[k] > 0 /\ (IsFinal(s)' => qstate'[k] = "failed")
    BY <1>0, <1>t, <2>3, AttemptsAssumption DEF IsFinal
  <2>6. \A t \in Slots \ {s} : ~(pc'[t] = "onFailed" /\ job'[t] = k /\ IsFinal(t)')
    BY <1>0, <2>2 DEF EndOf
  <2>7. \A r \in Replicas : <<k, "FAILED">> \notin writes'[r]
    BY <1>0, <2>1, <2>2 DEF EndOf
  <2>8. qstate'[k] \in {"delayed", "failed"}
    BY <2>3
  <2> QED BY <1>0, <2>4, <2>5, <2>6, <2>7, <2>8 DEF EndOf
<1>8. CASE OnFailed(s)
  <2>1. /\ pc[s] = "onFailed" /\ pc'[s] = "idle"
        /\ UNCHANGED <<qstate, attemptsMade, status>>
    BY <1>8, <1>t DEF OnFailed, Goto, queueVars, rowVars
  <2>2. Settling(k)
    BY <1>0, <2>1 DEF Settling
  <2>3. ASSUME NEW r \in Replicas, <<k, "FAILED">> \in writes'[r]
        PROVE  qstate'[k] = "failed"
    <3>1. <<k, "FAILED">> \in writes[r] \/ IsFinal(s)
      BY <1>8, <2>3 DEF OnFailed, IInv, TypeOK
    <3> QED BY <1>0, <2>1, <3>1 DEF EndOf
  <2>4. HasTold(k)' => HasTold(k)
    BY <1>0, <1>8, <1>t DEF HasTold, OnFailed
  <2>5. Finished(k)' => Finished(k)
    BY <1>0, <2>1, <2>4 DEF Finished
  <2>6. Shown(k)' <=> Shown(k)
    BY <2>1 DEF Shown
  <2>7. \A t \in Slots : pc'[t] \in W => pc'[t] = pc[t]
    BY <1>0, <1>w, <2>1
  <2>8. attemptsMade'[k] > 0 /\ (LateWrites \/ qstate'[k] \in {"delayed", "failed"})
    BY <1>0, <2>1, <2>2 DEF EndOf
  <2>9. \A t \in Slots : pc'[t] = "onFailed" => pc[t] = "onFailed"
    BY <1>0, <2>1
  <2> QED BY <1>0, <2>1, <2>3, <2>5, <2>6, <2>7, <2>8, <2>9 DEF EndOf, W
<1> QED BY <1>4, <1>5, <1>6, <1>7, <1>8 DEF SlotStep

\* A stalled job stays one.
LEMMA StallsGrow ==
    ASSUME IInv, Next, NEW k \in Jobs, stalls'[k] = 0
    PROVE  stalls[k] = 0
<1>1. \/ stalls' = stalls
      \/ \E j \in Jobs : StalledRequeue(j)
      \/ \E j \in Jobs, s \in Slots : StalledFail(s, j)
  BY DEF Next, SlotStep, JobStep, ReplicaStep, SetRunning, LoadBrand, RunPipeline, SaveDone, Report,
     Complete, DbFails, MoveToFailed, OnFailed, RejectCreate, SaveRow, Enqueue, EnqueueFails, Pick,
     Promote, Crash, Boot, CleanUp, Commit, DeactivateBrand, ReactivateBrand, queueVars, vars
<1> QED BY <1>1 DEF StalledRequeue, StalledFail, IInv, TypeOK

\* A job that has told its clients job_done, or is about to, keeps its result.
LEMMA ResultKept ==
    ASSUME IInv, EndInv, Next, NEW k \in Jobs, Finished(k)'
    PROVE  result'[k]
<1>1. ASSUME NEW s \in Slots, SlotStep(s)
      PROVE  result'[k]
  <2>1. CASE job[s] # k
    <3>1. Finished(k)
      BY <1>1, <2>1, SlotTouchesItsJob, UntouchedKeeps
    <3> QED BY <1>1, <2>1, <3>1, SlotFrame DEF EndInv
  <2>2. CASE job[s] = k
    <3>0. job' = job /\ \A t \in Slots \ {s} : pc'[t] = pc[t]
      BY <1>1, SlotFrame
    <3>1. CASE SaveDone(s)
      BY <2>2, <3>1 DEF SaveDone, IInv, TypeOK
    <3>2. CASE Report(s)
      BY <2>2, <3>2 DEF Report, rowVars, EndInv, Finished
    <3>3. ASSUME ~SaveDone(s), ~Report(s)
          PROVE  result' = result /\ pc'[s] # "report" /\ (HasTold(k)' => HasTold(k))
      <4>1. result' = result /\ pc'[s] # "report"
        BY <1>1, <3>3
        DEF SlotStep, SetRunning, LoadBrand, RunPipeline, Complete, DbFails, MoveToFailed, OnFailed,
            Goto, rowVars, IInv, TypeOK
      <4>2. events'[k] \in {events[k], Append(events[k], "error")}
        BY <1>1, <2>2, <3>3
        DEF SlotStep, SetRunning, LoadBrand, RunPipeline, Complete, DbFails, MoveToFailed, OnFailed,
            IInv, TypeOK
      <4>3. HasTold(k)' => HasTold(k)
        <5>1. events[k] \in Seq({"job_done", "error"})
          BY DEF IInv, TypeOK
        <5>2. \A i \in DOMAIN Append(events[k], "error") :
                 Append(events[k], "error")[i] = "job_done" =>
                     i \in DOMAIN events[k] /\ events[k][i] = "job_done"
          BY <5>1
        <5> QED BY <4>2, <5>2 DEF HasTold
      <4> QED BY <4>1, <4>3
    <3>4. CASE ~SaveDone(s) /\ ~Report(s)
      BY <3>0, <3>3, <3>4 DEF Finished, EndInv
    <3> QED BY <3>1, <3>2, <3>4
  <2> QED BY <2>1, <2>2
<1>2. CASE UNCHANGED <<result, events>> /\ \A s \in Slots : pc'[s] = "report" => pc[s] = "report" /\ job'[s] = job[s]
  BY <1>2 DEF Finished, HasTold, EndInv
<1>3. ASSUME NEW s \in Slots, NEW j \in Jobs, Pick(s, j) \/ StalledFail(s, j)
      PROVE  result'[k]
  BY <1>2, <1>3 DEF Pick, StalledFail, rowVars, IInv, TypeOK
<1>4. ASSUME NEW r \in Replicas, Crash(r)
      PROVE  result'[k]
  BY <1>2, <1>4 DEF Crash, rowVars
<1>5. CASE UNCHANGED <<result, events, pc, job>>
  BY <1>2, <1>5
<1> QED
  BY <1>1, <1>3, <1>4, <1>5
  DEF Next, JobStep, ReplicaStep, RejectCreate, SaveRow, Enqueue, EnqueueFails, Promote,
      StalledRequeue, Boot, CleanUp, Commit, DeactivateBrand, ReactivateBrand, vars, slotVars, rowVars

\* What is known of the end of a job holds after every step.
LEMMA EndKept ==
    ASSUME IInv, LockedWorker, EndInv, Next
    PROVE  EndInv'
<1> SUFFICES ASSUME NEW k \in Jobs, stalls'[k] = 0
             PROVE  EndOf(k)'
  BY ResultKept DEF EndInv
<1>0. stalls[k] = 0 /\ EndOf(k)
  BY StallsGrow DEF EndInv
<1>1. ASSUME NEW s \in Slots, SlotStep(s)
      PROVE  EndOf(k)'
  BY <1>0, <1>1, EndSlot, SlotTouchesItsJob, UntouchedKeeps
<1>2. CASE Untouched(k)
  BY <1>0, <1>2, UntouchedKeeps
<1>3. ASSUME NEW j \in Jobs, NEW r \in Replicas, SaveRow(j, r)
      PROVE  EndOf(k)'
  <2>1. CASE j # k
    <3>1. Untouched(k)
      BY <1>3, <2>1 DEF SaveRow, queueVars, slotVars, Untouched, IInv, TypeOK
    <3> QED BY <1>2, <3>1
  <2>2. CASE j = k
    <3>1. qstate[k] = "absent" /\ UNCHANGED <<qstate, attemptsMade, events, writes, pc, job, made>>
      BY <1>3, <2>2 DEF SaveRow, queueVars, slotVars, IInv, ApiInv
    <3>2. ~Finished(k)'
      BY <1>0, <3>1 DEF EndOf, Finished, HasTold
    <3> QED BY <1>0, <3>1, <3>2 DEF EndOf, Settling, IsFinal
  <2> QED BY <2>1, <2>2
<1>4. ASSUME NEW j \in Jobs, Enqueue(j) \/ EnqueueFails(j) \/ Promote(j)
      PROVE  EndOf(k)'
  <2>0. UNCHANGED <<status, result, attemptsMade, events, writes, pc, job, made>>
    BY <1>4 DEF Enqueue, EnqueueFails, Promote, rowVars, slotVars
  <2>1. CASE j # k
    <3>1. qstate'[k] = qstate[k]
      BY <1>4, <2>1 DEF Enqueue, EnqueueFails, Promote, IInv, TypeOK
    <3>2. Untouched(k)
      BY <2>0, <3>1 DEF Untouched
    <3> QED BY <1>2, <3>2
  <2>2. CASE j = k
    <3>1. \/ qstate[k] = "absent"
          \/ qstate[k] = "delayed" /\ (LateWrites \/ ~Settling(k))
      BY <1>4, <2>2 DEF Enqueue, EnqueueFails, Promote, IInv, ApiInv
    <3>2. ~Finished(k)'
      BY <1>0, <2>0, <3>1 DEF EndOf, Finished, HasTold
    <3>3. Settling(k)' <=> Settling(k)
      BY <2>0 DEF Settling
    <3>4. \A t \in Slots : IsFinal(t)' <=> IsFinal(t)
      BY <2>0 DEF IsFinal
    <3> QED BY <1>0, <2>0, <3>1, <3>2, <3>3, <3>4 DEF EndOf
  <2> QED BY <2>1, <2>2
<1>5. ASSUME NEW j \in Jobs, NEW s \in Slots, Pick(s, j)
      PROVE  EndOf(k)'
  <2>0. /\ pc[s] = "idle" /\ pc'[s] = "update" /\ job'[s] = j
        /\ \A t \in Slots \ {s} : pc'[t] = pc[t] /\ job'[t] = job[t] /\ made'[t] = made[t]
        /\ UNCHANGED <<status, result, attemptsMade, events, writes>>
    BY <1>5 DEF Pick, rowVars, IInv, TypeOK
  <2>1. CASE j # k
    <3>1. qstate'[k] = qstate[k]
      BY <1>5, <2>1 DEF Pick, IInv, TypeOK
    <3>2. Untouched(k)
      BY <2>0, <2>1, <3>1 DEF Untouched
    <3> QED BY <1>2, <3>2
  <2>2. CASE j = k
    <3>1. qstate[k] = "waiting"
      BY <1>5, <2>2 DEF Pick
    <3>2. ~Finished(k)'
      BY <1>0, <2>0, <3>1 DEF EndOf, Finished, HasTold
    <3>3. Settling(k)' => Settling(k)
      BY <2>0 DEF Settling
    <3>4. \A t \in Slots \ {s} : IsFinal(t)' <=> IsFinal(t)
      BY <2>0 DEF IsFinal
    <3> QED BY <1>0, <2>0, <3>1, <3>2, <3>3, <3>4 DEF EndOf
  <2> QED BY <2>1, <2>2
<1>6. ASSUME NEW j \in Jobs, StalledRequeue(j) \/ \E s \in Slots : StalledFail(s, j)
      PROVE  EndOf(k)'
  <2>1. j # k
    BY <1>0, <1>6 DEF StalledRequeue, StalledFail, IInv, TypeOK
  <2>2. /\ UNCHANGED <<status, result, events, writes>>
        /\ qstate'[k] = qstate[k] /\ attemptsMade'[k] = attemptsMade[k]
    BY <1>6, <2>1 DEF StalledRequeue, StalledFail, rowVars, IInv, TypeOK
  <2>3. \A t \in Slots : job'[t] = k => job[t] = k /\ pc'[t] = pc[t] /\ made'[t] = made[t]
    BY <1>6, <2>1 DEF StalledRequeue, StalledFail, slotVars, IInv, TypeOK
  <2>4. Untouched(k)
    BY <2>2, <2>3 DEF Untouched
  <2> QED BY <1>2, <2>4
<1>7. ASSUME NEW r \in Replicas, Crash(r)
      PROVE  EndOf(k)'
  <2>1. Untouched(k)
    BY <1>7 DEF Crash, rowVars, queueVars, Untouched, IInv, TypeOK
  <2> QED BY <1>2, <2>1
<1>8. ASSUME NEW r \in Replicas, CleanUp(r)
      PROVE  EndOf(k)'
  <2>1. /\ UNCHANGED <<qstate, attemptsMade, events, writes, pc, job, made>>
        /\ status[k] # "RUNNING" => status'[k] = status[k]
    BY <1>8 DEF CleanUp, Zombies, queueVars, slotVars
  <2>2. /\ Finished(k)' => Finished(k)
        /\ Settling(k)' => Settling(k)
        /\ Shown(k) => Shown(k)'
        /\ \A t \in Slots : IsFinal(t)' <=> IsFinal(t)
    BY <2>1 DEF Finished, HasTold, Settling, Shown, IsFinal
  <2> QED BY <1>0, <2>1, <2>2 DEF EndOf
<1>9. ASSUME NEW r \in Replicas, NEW w \in writes[r], Commit(r, w)
      PROVE  EndOf(k)'
  <2>0. w[1] \in Jobs /\ w[2] \in {"RETRYING", "FAILED"} /\ w = <<w[1], w[2]>>
    BY DEF IInv, TypeOK
  <2>1. /\ UNCHANGED <<result, qstate, attemptsMade, events, pc, job, made>>
        /\ \A q \in Replicas : writes'[q] \subseteq writes[q]
        /\ status'[k] = IF w[1] = k THEN w[2] ELSE status[k]
    BY <1>9, <2>0 DEF Commit, queueVars, slotVars, IInv, TypeOK
  <2>2. CASE w[1] # k
    <3>1. Untouched(k)
      BY <2>1, <2>2 DEF Untouched
    <3> QED BY <1>2, <3>1
  <2>3. CASE w[1] = k
    <3>1. Settling(k)
      BY <2>3 DEF Settling
    <3>2. Finished(k) => Shown(k)'
      <4>1. SUFFICES ASSUME Finished(k) PROVE Shown(k)'
        OBVIOUS
      <4>2. attemptsMade[k] > 0 /\ LateWrites /\ w[2] # "FAILED"
        BY <1>0, <2>0, <2>3, <3>1, <4>1 DEF EndOf
      <4> QED BY <2>0, <2>1, <2>3, <4>2 DEF Shown
    <3>3. /\ Finished(k)' => Finished(k)
          /\ \A t \in Slots : IsFinal(t)' <=> IsFinal(t)
      BY <2>1 DEF Finished, HasTold, IsFinal
    <3> QED BY <1>0, <2>1, <3>1, <3>2, <3>3 DEF EndOf
  <2> QED BY <2>2, <2>3
<1>10. CASE UNCHANGED <<status, result, qstate, attemptsMade, events, writes, pc, job, made>>
  BY <1>2, <1>10 DEF Untouched
<1> QED
  BY <1>1, <1>3, <1>4, <1>5, <1>6, <1>7, <1>8, <1>9, <1>10
  DEF Next, JobStep, ReplicaStep, RejectCreate, Boot, DeactivateBrand, ReactivateBrand, vars,
      slotVars, queueVars, rowVars

\* The jobs of the platform live as they do without clients.
LEMMA JobsLiveOn == [PlatformNext]_allVars => [Next]_vars
<1> SUFFICES ASSUME [PlatformNext]_allVars
             PROVE  Next \/ UNCHANGED vars
  OBVIOUS
<1>1. ASSUME NEW s \in Slots,
             \/ EmitToken(s) \/ PipelineEnds(s) \/ ReportDone(s) \/ ReportFailed(s)
             \/ \E j \in Jobs : Deliver(s, j) \/ FailStalled(s, j)
      PROVE  Next \/ UNCHANGED vars
  BY <1>1 DEF EmitToken, SendToken, PipelineEnds, ReportDone, ReportFailed, Deliver, FailStalled,
     Next, SlotStep, JobStep
<1>2. CASE AbandonedEmits \/ AbandonedEnds \/ StreamStep \/ ConnectionStep \/ UNCHANGED allVars
  BY <1>2 DEF AbandonedEmits, AbandonedEnds, SendToken, StreamStep, ConnectionStep, allVars
<1>3. CASE \E r \in Replicas : CrashAll(r)
  BY <1>3 DEF CrashAll, Next, ReplicaStep
<1>4. CASE SilentStep
  BY <1>4 DEF SilentStep, SilentSlotStep, Next, SlotStep, JobStep, ReplicaStep
<1> QED BY <1>1, <1>2, <1>3, <1>4 DEF PlatformNext
----------------------------------------------------------------------------
\* writeEvent() keeps the logs well typed.
LEMMA WriteTyped ==
    ASSUME NEW rcv \in [Clients -> Seq(S!Events)], NEW c \in Clients, NEW event \in S!Events
    PROVE  S!Write(rcv, c, event) \in [Clients -> Seq(S!Events)]
BY DEF S!Write

\* close() of an entry keeps the maps of all replicas consistent.
LEMMA CloseKeepsStreams ==
    ASSUME StreamInv, NEW x \in Entries, NEW rcv \in [Clients -> Seq(S!Events)],
           S!Close(x, rcv), UNCHANGED <<sid, hooked>>
    PROVE  StreamInv'
<1> USE ClientsAssumption DEF S!IsActive, Entries
<1>1. received' \in [Clients -> Seq(S!Events)]
  BY WriteTyped DEF S!Close, StreamInv, S!TypeOK, S!Events
<1>2. conn' \in [Clients -> {"idle", "open", "ended", "gone"}]
  BY DEF S!Close, StreamInv, S!TypeOK
<1>3. S!TypeOK'
  BY <1>1, <1>2 DEF S!Close, S!Cleanup, StreamInv, S!TypeOK
<1>4. S!TimersMatchEntries'
  BY DEF S!Close, S!Cleanup, StreamInv, S!TypeOK, S!TimersMatchEntries
<1>5. ASSUME NEW y \in Entries, S!IsActive(y)'
      PROVE  conn'[streams'[y]] \in {"open", "gone"}
  <2>1. y # x /\ streams'[y] = streams[y] /\ S!IsActive(y)
    BY <1>5 DEF S!Close, S!Cleanup, StreamInv, S!TypeOK
  <2>2. streams[y] # streams[x]
    BY <2>1 DEF StreamInv, S!TypeOK, S!TimersMatchEntries
  <2>3. conn'[streams[y]] = conn[streams[y]]
    BY <2>1, <2>2 DEF S!Close, StreamInv, S!TypeOK
  <2> QED BY <2>1, <2>3 DEF StreamInv
<1>6. \A c \in hooked' : sid'[c] \in Entries /\ conn'[c] # "idle"
  BY DEF S!Close, StreamInv, S!TypeOK
<1> QED BY <1>3, <1>4, <1>5, <1>6 DEF StreamInv

\* GET /stream/:jobId keeps the maps consistent.
LEMMA OpenKeepsStreams ==
    ASSUME StreamInv, NEW c \in Clients, NEW x \in Entries, S!OpenStream(x, c)
    PROVE  StreamInv'
<1> USE ClientsAssumption DEF Entries
<1>0. \A y \in Entries : streams[y] # c
  BY DEF S!OpenStream, StreamInv, S!IsActive
<1>1. c \notin armed /\ c \notin hooked
  BY <1>0 DEF StreamInv, S!TimersMatchEntries, S!OpenStream
<1>2. CASE S!IsActive(x)
  <2>1. S!TypeOK'
    BY <1>2 DEF S!OpenStream, StreamInv, S!TypeOK
  <2>2. S!TimersMatchEntries' /\ \A y \in Entries : S!IsActive(y)' => conn'[streams'[y]] \in {"open", "gone"}
    BY <1>0, <1>1, <1>2 DEF S!OpenStream, StreamInv, S!TypeOK, S!TimersMatchEntries, S!IsActive
  <2>3. \A d \in hooked' : sid'[d] \in Entries /\ conn'[d] # "idle"
    BY <1>1, <1>2 DEF S!OpenStream, StreamInv, S!TypeOK
  <2> QED BY <2>1, <2>2, <2>3 DEF StreamInv
<1>3. CASE ~S!IsActive(x)
  <2>1. S!TypeOK'
    <3>1. streams' \in [Entries -> Clients \cup {None}] /\ sid' \in [Clients -> Entries \cup {None}]
      BY <1>3 DEF S!OpenStream, S!Register, StreamInv, S!TypeOK
    <3>2. conn' \in [Clients -> {"idle", "open", "ended", "gone"}]
      BY DEF S!OpenStream, StreamInv, S!TypeOK
    <3>3. armed' \subseteq Clients /\ hooked' \subseteq Clients /\ received' = received
      BY <1>3 DEF S!OpenStream, S!Register, StreamInv, S!TypeOK
    <3> QED BY <3>1, <3>2, <3>3 DEF StreamInv, S!TypeOK
  <2>2. S!TimersMatchEntries'
    BY <1>0, <1>1, <1>3 DEF S!OpenStream, S!Register, StreamInv, S!TypeOK, S!TimersMatchEntries,
       S!IsActive
  <2>3. ASSUME NEW y \in Entries, S!IsActive(y)'
        PROVE  conn'[streams'[y]] \in {"open", "gone"}
    <3>1. CASE y = x
      BY <1>3, <3>1 DEF S!OpenStream, S!Register, StreamInv, S!TypeOK
    <3>2. CASE y # x
      <4>1. streams'[y] = streams[y] /\ S!IsActive(y)
        BY <1>3, <2>3, <3>2 DEF S!OpenStream, S!Register, StreamInv, S!TypeOK, S!IsActive
      <4>2. conn'[streams[y]] = conn[streams[y]]
        BY <1>0 DEF S!OpenStream, StreamInv, S!TypeOK
      <4> QED BY <4>1, <4>2 DEF StreamInv
    <3> QED BY <3>1, <3>2
  <2>4. \A d \in hooked' : sid'[d] \in Entries /\ conn'[d] # "idle"
    BY <1>3 DEF S!OpenStream, S!Register, StreamInv, S!TypeOK
  <2> QED BY <2>1, <2>2, <2>3, <2>4 DEF StreamInv
<1> QED BY <1>2, <1>3

\* The steps of a connection keep the maps consistent.
LEMMA ConnectionKeepsStreams ==
    ASSUME StreamInv, NEW c \in Clients, S!StreamTimeout(c) \/ S!OnClose(c) \/ S!Disconnect(c)
    PROVE  StreamInv'
<1> USE ClientsAssumption DEF Entries
<1>1. CASE S!StreamTimeout(c)
  <2>1. sid[c] \in Entries
    BY <1>1 DEF S!StreamTimeout, StreamInv, S!TimersMatchEntries
  <2>2. S!Write(received, c, "error") \in [Clients -> Seq(S!Events)]
    BY WriteTyped DEF StreamInv, S!TypeOK, S!Events
  <2> QED BY <1>1, <2>1, <2>2, CloseKeepsStreams DEF S!StreamTimeout
<1>2. CASE S!OnClose(c)
  <2>1. S!TypeOK'
    BY <1>2 DEF S!OnClose, S!Cleanup, StreamInv, S!TypeOK
  <2>2. sid[c] \in Entries
    BY <1>2 DEF S!OnClose, StreamInv
  <2>3. S!TimersMatchEntries' /\ \A y \in Entries : S!IsActive(y)' => conn'[streams'[y]] \in {"open", "gone"}
    BY <1>2, <2>2 DEF S!OnClose, S!Cleanup, StreamInv, S!TypeOK, S!TimersMatchEntries, S!IsActive
  <2>4. \A d \in hooked' : sid'[d] \in Entries /\ conn'[d] # "idle"
    BY <1>2 DEF S!OnClose, StreamInv
  <2> QED BY <2>1, <2>3, <2>4 DEF StreamInv
<1>3. CASE S!Disconnect(c)
  BY <1>3 DEF S!Disconnect, StreamInv, S!TypeOK, S!TimersMatchEntries, S!IsActive
<1> QED BY <1>1, <1>2, <1>3

\* A replica that dies takes its entries, timers and handlers with it.
LEMMA CrashKeepsStreams ==
    ASSUME StreamInv, NEW r \in Replicas, CrashAll(r)
    PROVE  StreamInv'
<1> USE ClientsAssumption
<1> DEFINE lost == {c \in Clients : sid[c] # None /\ sid[c][1] = r}
<1>0. /\ streams' = [x \in Entries |-> IF x[1] = r THEN None ELSE streams[x]]
      /\ conn' = [c \in Clients |-> IF c \in lost /\ conn[c] = "open" THEN "gone" ELSE conn[c]]
      /\ armed' = armed \ lost /\ hooked' = hooked \ lost
      /\ UNCHANGED <<sid, received>>
  BY DEF CrashAll, Entries
<1>t. /\ streams \in [Entries -> Clients \cup {None}]
      /\ conn \in [Clients -> {"idle", "open", "ended", "gone"}]
      /\ armed \subseteq Clients /\ hooked \subseteq Clients
      /\ sid \in [Clients -> Entries \cup {None}]
      /\ None \notin Clients /\ None \notin Entries
  BY DEF StreamInv, S!TypeOK, Entries
<1>m. /\ \A c \in armed : sid[c] \in Entries /\ streams[sid[c]] = c
      /\ \A x \in Entries : streams[x] # None =>
            streams[x] \in armed /\ sid[streams[x]] = x /\ conn[streams[x]] \in {"open", "gone"}
  BY DEF StreamInv, S!TimersMatchEntries, S!IsActive, Entries
<1>1. \A c \in armed : c \in lost <=> sid[c][1] = r
  BY <1>m, <1>t
<1> HIDE DEF lost
<1>2. S!TypeOK'
  <2>1. streams' \in [Entries -> Clients \cup {None}]
    BY <1>0, <1>t
  <2>2. conn' \in [Clients -> {"idle", "open", "ended", "gone"}]
    BY <1>0, <1>t
  <2> QED BY <1>0, <1>t, <2>1, <2>2 DEF StreamInv, S!TypeOK, Entries
<1>3. S!TimersMatchEntries' /\ \A x \in Entries : S!IsActive(x)' => conn'[streams'[x]] \in {"open", "gone"}
  <2>1. \A c \in armed' : sid'[c] \in Entries /\ streams'[sid'[c]] = c
    BY <1>0, <1>m, <1>1
  <2>2. ASSUME NEW x \in Entries, streams'[x] # None
        PROVE  streams'[x] \in armed' /\ sid'[streams'[x]] = x /\ conn'[streams'[x]] \in {"open", "gone"}
    <3>1. streams'[x] = streams[x] /\ x[1] # r /\ streams[x] # None
      BY <1>0, <2>2
    <3>2. streams[x] \in armed /\ sid[streams[x]] = x /\ streams[x] \in Clients
      BY <1>m, <1>t, <3>1
    <3>3. streams[x] \notin lost
      BY <1>1, <3>1, <3>2
    <3> QED BY <1>0, <1>m, <3>1, <3>2, <3>3
  <2> QED BY <2>1, <2>2 DEF S!TimersMatchEntries, S!IsActive, Entries
<1>4. \A c \in hooked' : sid'[c] \in Entries /\ conn'[c] # "idle"
  BY <1>0, <1>t DEF StreamInv
<1> QED BY <1>2, <1>3, <1>4 DEF StreamInv

\* What a run that ends tells its replica's entry.
LEMMA EmitIsWrite ==
    ASSUME StreamInv, NEW x \in Entries, NEW w \in {"job_done", "error"}
    PROVE  S!Emit(x, w) \in [Clients -> Seq(S!Events)]
<1>1. received \in [Clients -> Seq(S!Events)] /\ w \in S!Events
  BY DEF StreamInv, S!TypeOK, S!Events
<1>2. S!IsActive(x) => streams[x] \in Clients
  BY DEF StreamInv, S!TypeOK, S!IsActive, Entries
<1> QED BY <1>1, <1>2, WriteTyped DEF S!Emit

\* The entry of a run is one of the platform's.
LEMMA EntryIsOne ==
    ASSUME IInv, NEW s \in Slots, SlotStep(s)
    PROVE  Entry(s) \in Entries
BY SlotFrame, HomeAssumption DEF Entry, Entries

\* The maps of all replicas stay consistent.
LEMMA StreamsKept ==
    ASSUME IInv, StreamInv, [PlatformNext]_allVars
    PROVE  StreamInv'
<1>1. CASE UNCHANGED sseVars
  BY <1>1 DEF sseVars, StreamInv, S!TypeOK, S!TimersMatchEntries, S!IsActive
<1>2. ASSUME NEW s \in Slots, ReportDone(s)
      PROVE  StreamInv'
  <2>1. SlotStep(s)
    BY <1>2 DEF ReportDone, SlotStep
  <2> QED BY <1>2, <2>1, EntryIsOne, EmitIsWrite, CloseKeepsStreams DEF ReportDone
<1>3. ASSUME NEW s \in Slots, ReportFailed(s)
      PROVE  StreamInv'
  <2>1. SlotStep(s)
    BY <1>3 DEF ReportFailed, SlotStep
  <2> QED BY <1>1, <1>3, <2>1, EntryIsOne, EmitIsWrite, CloseKeepsStreams DEF ReportFailed
<1>4. ASSUME NEW r \in Replicas, NEW j \in Jobs,
             S!CancelStream(<<r, j>>) \/ \E c \in Clients : S!OpenStream(<<r, j>>, c)
      PROVE  StreamInv'
  <2>0. <<r, j>> \in Entries
    BY DEF Entries
  <2>1. CASE S!CancelStream(<<r, j>>)
    <3>1. streams[<<r, j>>] \in Clients /\ received \in [Clients -> Seq(S!Events)]
      BY <2>0, <2>1 DEF S!CancelStream, S!IsActive, StreamInv, S!TypeOK, Entries
    <3>2. S!Write(received, streams[<<r, j>>], "error") \in [Clients -> Seq(S!Events)]
      BY <3>1, WriteTyped DEF S!Events
    <3> QED BY <2>0, <2>1, <3>2, CloseKeepsStreams DEF S!CancelStream
  <2> QED BY <1>4, <2>0, <2>1, OpenKeepsStreams
<1>5. CASE SilentStep \/ AbandonedEmits \/ AbandonedEnds
  BY <1>1, <1>5 DEF SilentStep, AbandonedEmits, AbandonedEnds, SendToken
<1>6. ASSUME NEW s \in Slots,
             \/ EmitToken(s) \/ PipelineEnds(s)
             \/ \E j \in Jobs : Deliver(s, j) \/ FailStalled(s, j)
      PROVE  StreamInv'
  BY <1>1, <1>6 DEF EmitToken, SendToken, PipelineEnds, Deliver, FailStalled
<1>7. CASE StreamStep
  BY <1>4, <1>7 DEF StreamStep
<1>8. CASE ConnectionStep
  BY <1>8, ConnectionKeepsStreams DEF ConnectionStep
<1>9. CASE UNCHANGED allVars
  BY <1>1, <1>9 DEF allVars
<1> QED BY <1>2, <1>3, <1>5, <1>6, <1>7, <1>8, <1>9, CrashKeepsStreams DEF PlatformNext

\* What clients have been told of a job stays told.
LEMMA ToldStays ==
    ASSUME IInv, [Next]_vars, NEW j \in Jobs, HasTold(j)
    PROVE  HasTold(j)'
<1>1. \/ events' = events
      \/ \E s \in Slots : Report(s) \/ OnFailed(s)
  BY DEF Next, SlotStep, JobStep, ReplicaStep, SetRunning, LoadBrand, RunPipeline, SaveDone,
     Complete, DbFails, MoveToFailed, RejectCreate, SaveRow, Enqueue, EnqueueFails, Pick,
     StalledFail, StalledRequeue, Promote, Crash, Boot, CleanUp, Commit, DeactivateBrand,
     ReactivateBrand, vars
<1>2. events'[j] \in {events[j], Append(events[j], "job_done"), Append(events[j], "error")}
  <2>1. events \in [Jobs -> Seq({"job_done", "error"})]
    BY DEF IInv, TypeOK
  <2> QED BY <1>1, <2>1 DEF Report, OnFailed
<1>3. events[j] \in Seq({"job_done", "error"})
  BY DEF IInv, TypeOK
<1>4. \A w : \A i \in DOMAIN events[j] :
        i \in DOMAIN Append(events[j], w) /\ Append(events[j], w)[i] = events[j][i]
  BY <1>3
<1> QED BY <1>2, <1>4 DEF HasTold

\* close() after the outcome w of the entry x: its response has heard w and `done`.
LEMMA CloseSpeaks ==
    ASSUME StreamInv, WordInv, NEW x \in Entries, NEW w \in {"job_done", "error"}, NEW rcv,
           S!IsActive(x) => rcv = S!Write(received, streams[x], w),
           ~S!IsActive(x) => rcv = received,
           S!Close(x, rcv), UNCHANGED sid,
           \A j \in Jobs : HasTold(j) => HasTold(j)',
           w = "job_done" => HasTold(x[2])'
    PROVE  WordInv'
<1> SUFFICES ASSUME NEW c \in Clients
             PROVE  WordOf(c)'
  BY DEF WordInv
<1>t. /\ streams[x] \in Clients \cup {None} /\ None \notin Clients
      /\ conn \in [Clients -> {"idle", "open", "ended", "gone"}]
      /\ received \in [Clients -> Seq(S!Events)]
      /\ S!IsActive(x) <=> streams[x] # None
      /\ S!IsActive(x) => sid[streams[x]] = x /\ conn[streams[x]] \in {"open", "gone"}
  BY ClientsAssumption DEF StreamInv, S!TypeOK, S!TimersMatchEntries, S!IsActive, Entries
<1>w. WordOf(c)
  BY DEF WordInv
<1>1. ASSUME received'[c] = received[c], conn'[c] = conn[c]
      PROVE  WordOf(c)'
  <2>1. sid[c] \in Entries /\ HasTold(sid[c][2]) => HasTold(sid[c][2])'
    BY DEF Entries
  <2> QED BY <1>1, <1>w, <2>1 DEF WordOf, HasHeard
<1>2. CASE c # streams[x]
  <2>1. received'[c] = received[c]
    BY <1>2, <1>t DEF S!Close, S!Write
  <2>2. conn'[c] = conn[c]
    BY <1>2 DEF S!Close
  <2> QED BY <1>1, <2>1, <2>2
<1>3. CASE c = streams[x] /\ conn[c] = "gone"
  <2>1. received'[c] = received[c] /\ conn'[c] = conn[c]
    BY <1>3, <1>t DEF S!Close, S!Write
  <2> QED BY <1>1, <2>1
<1>4. CASE c = streams[x] /\ conn[c] = "open"
  <2>1. received[c] = <<>> /\ conn'[c] = "ended" /\ sid'[c] = x
    BY <1>4, <1>t, <1>w DEF S!Close, WordOf
  <2>2. received'[c] = Append(Append(received[c], w), "done")
    BY <1>4, <1>t DEF S!Close, S!Write
  <2>3. HasHeard(c, w)'
    BY <2>1, <2>2 DEF HasHeard
  <2>4. HasHeard(c, "job_done")' => w = "job_done"
    BY <2>3 DEF HasHeard
  <2>5. received'[c] # <<>>
    BY <2>3 DEF HasHeard
  <2> QED BY <2>1, <2>3, <2>4 DEF WordOf
<1> QED BY <1>2, <1>3, <1>4, <1>t

\* Every response is silent until its end, and then has heard one outcome.
LEMMA WordsKept ==
    ASSUME IInv, StreamInv, WordInv, [PlatformNext]_allVars
    PROVE  WordInv'
<1>0. \A j \in Jobs : HasTold(j) => HasTold(j)'
  BY JobsLiveOn, ToldStays
<1>e. \A x \in Entries : x[2] \in Jobs
  BY DEF Entries
<1>1. ASSUME received' = received,
             \A c \in Clients : conn'[c] \in {"idle", "open"} => conn[c] \in {"idle", "open"},
             \A c \in Clients : conn[c] # "idle" => sid'[c] = sid[c]
      PROVE  WordInv'
  <2>1. ASSUME NEW c \in Clients, HasHeard(c, "job_done")
        PROVE  sid'[c] \in Entries /\ HasTold(sid[c][2])'
    <3>1. received[c] # <<>>
      BY <2>1 DEF HasHeard
    <3>2. conn[c] # "idle" /\ sid[c] \in Entries /\ HasTold(sid[c][2])
      BY <2>1, <3>1 DEF WordInv, WordOf
    <3>3. sid'[c] = sid[c] /\ HasTold(sid[c][2])'
      BY <1>0, <1>1, <1>e, <3>2
    <3> QED BY <3>2, <3>3
  <2>2. \A c \in Clients : WordOf(c)'
    BY <1>1, <2>1 DEF WordInv, WordOf, HasHeard
  <2> QED BY <2>2 DEF WordInv
<1>2. CASE UNCHANGED sseVars
  BY <1>1, <1>2 DEF sseVars
<1>3. ASSUME NEW s \in Slots, ReportDone(s)
      PROVE  WordInv'
  <2>1. Entry(s) \in Entries /\ Entry(s)[2] = job[s]
    BY <1>3, EntryIsOne DEF ReportDone, SlotStep, Entry
  <2>2. HasTold(job[s])'
    <3>1. job' = job /\ job[s] \in Jobs /\ events'[job[s]] = Append(events[job[s]], "job_done")
      BY <1>3 DEF ReportDone, Report, IInv, TypeOK
    <3>2. events[job[s]] \in Seq({"job_done", "error"})
      BY <3>1 DEF IInv, TypeOK
    <3>3. \E i \in DOMAIN Append(events[job[s]], "job_done") :
             Append(events[job[s]], "job_done")[i] = "job_done"
      <4>1. Len(events[job[s]]) + 1 \in DOMAIN Append(events[job[s]], "job_done")
        BY <3>2
      <4> QED BY <3>2, <4>1
    <3> QED BY <3>1, <3>3 DEF HasTold
  <2>3. /\ S!IsActive(Entry(s)) => S!Emit(Entry(s), "job_done") = S!Write(received, streams[Entry(s)], "job_done")
        /\ ~S!IsActive(Entry(s)) => S!Emit(Entry(s), "job_done") = received
    BY DEF S!Emit
  <2>4. S!Close(Entry(s), S!Emit(Entry(s), "job_done")) /\ UNCHANGED sid
    BY <1>3 DEF ReportDone
  <2>5. job' = job
    BY <1>3 DEF ReportDone, Report
  <2> QED BY <1>0, <2>1, <2>2, <2>3, <2>4, <2>5, CloseSpeaks
<1>4. ASSUME NEW s \in Slots, ReportFailed(s)
      PROVE  WordInv'
  <2>1. CASE ~IsFinal(s)
    BY <1>2, <1>4, <2>1 DEF ReportFailed
  <2>2. CASE IsFinal(s)
    <3>1. Entry(s) \in Entries
      BY <1>4, EntryIsOne DEF ReportFailed, SlotStep
    <3>2. /\ S!IsActive(Entry(s)) => S!Emit(Entry(s), "error") = S!Write(received, streams[Entry(s)], "error")
          /\ ~S!IsActive(Entry(s)) => S!Emit(Entry(s), "error") = received
      BY DEF S!Emit
    <3>3. S!Close(Entry(s), S!Emit(Entry(s), "error")) /\ UNCHANGED sid
      BY <1>4, <2>2 DEF ReportFailed
    <3> QED BY <1>0, <3>1, <3>2, <3>3, CloseSpeaks
  <2> QED BY <2>1, <2>2
<1>5. ASSUME NEW r \in Replicas, NEW j \in Jobs, S!CancelStream(<<r, j>>)
      PROVE  WordInv'
  <2>1. <<r, j>> \in Entries
    BY DEF Entries
  <2> QED BY <1>0, <1>5, <2>1, CloseSpeaks DEF S!CancelStream
<1>6. ASSUME NEW c \in Clients, S!StreamTimeout(c)
      PROVE  WordInv'
  <2>1. sid[c] \in Entries /\ streams[sid[c]] = c
    BY <1>6 DEF S!StreamTimeout, StreamInv, S!TimersMatchEntries, Entries
  <2>2. S!IsActive(sid[c])
    BY <2>1, ClientsAssumption DEF S!IsActive
  <2>3. S!Close(sid[c], S!Write(received, c, "error")) /\ UNCHANGED sid
    BY <1>6 DEF S!StreamTimeout
  <2> QED BY <1>0, <2>1, <2>2, <2>3, CloseSpeaks
<1>7. ASSUME NEW c \in Clients, S!OnClose(c) \/ S!Disconnect(c) \/ \E x \in Entries : S!OpenStream(x, c)
      PROVE  WordInv'
  <2>1. conn \in [Clients -> {"idle", "open", "ended", "gone"}] /\ sid \in [Clients -> Entries \cup {None}]
    BY DEF StreamInv, S!TypeOK, Entries
  <2> QED BY <1>1, <1>7, <2>1 DEF S!OnClose, S!Disconnect, S!OpenStream
<1>8. ASSUME NEW r \in Replicas, CrashAll(r)
      PROVE  WordInv'
  <2>1. UNCHANGED <<sid, received>> /\ \A c \in Clients : conn'[c] \in {conn[c], "gone"}
    BY <1>8 DEF CrashAll
  <2> QED BY <1>1, <2>1
<1>9. CASE SilentStep \/ AbandonedEmits \/ AbandonedEnds
  BY <1>2, <1>9 DEF SilentStep, AbandonedEmits, AbandonedEnds, SendToken
<1>10. ASSUME NEW s \in Slots,
              \/ EmitToken(s) \/ PipelineEnds(s)
              \/ \E j \in Jobs : Deliver(s, j) \/ FailStalled(s, j)
       PROVE  WordInv'
  BY <1>2, <1>10 DEF EmitToken, SendToken, PipelineEnds, Deliver, FailStalled
<1>11. CASE StreamStep
  BY <1>5, <1>7, <1>11 DEF StreamStep, Entries
<1>12. CASE ConnectionStep
  BY <1>6, <1>7, <1>12 DEF ConnectionStep
<1>13. CASE UNCHANGED allVars
  BY <1>2, <1>13 DEF allVars
<1> QED BY <1>3, <1>4, <1>8, <1>9, <1>10, <1>11, <1>12, <1>13 DEF PlatformNext

PlatformInv == IInv /\ LockedWorker /\ EndInv /\ StreamInv /\ WordInv

\* The invariant of the platform holds: jobs, maps and clients together.
LEMMA PlatformInvHolds == PlatformSpec => []PlatformInv
<1>1. PlatformInit => PlatformInv
  <2> SUFFICES ASSUME PlatformInit PROVE PlatformInv
    OBVIOUS
  <2>1. IInv
    BY InitIInv DEF PlatformInit
  <2>2. LockedWorker
    BY DEF PlatformInit, Init, LockedWorker, Busy
  <2>3. EndInv
    BY DEF PlatformInit, Init, EndInv, EndOf, Finished, HasTold, Settling
  <2>4. StreamInv
    BY ClientsAssumption
    DEF PlatformInit, S!Init, StreamInv, S!TypeOK, S!TimersMatchEntries, S!IsActive, Entries
  <2>5. WordInv
    BY DEF PlatformInit, S!Init, WordInv, WordOf, HasHeard
  <2> QED BY <2>1, <2>2, <2>3, <2>4, <2>5 DEF PlatformInv
<1>2. PlatformInv /\ [PlatformNext]_allVars => PlatformInv'
  <2> SUFFICES ASSUME PlatformInv, [PlatformNext]_allVars PROVE PlatformInv'
    OBVIOUS
  <2>0. IInv /\ LockedWorker /\ EndInv /\ StreamInv /\ WordInv /\ [Next]_vars
    BY JobsLiveOn DEF PlatformInv
  <2>1. IInv'
    BY <2>0, NextIInv
  <2>2. LockedWorker' /\ EndInv'
    <3>1. CASE Next
      BY <2>0, <3>1, LockedKept, EndKept
    <3>2. CASE UNCHANGED vars
      BY <2>0, <3>2
      DEF vars, rowVars, queueVars, slotVars, envVars, LockedWorker, Steady, EndInv, EndOf, Finished,
          HasTold, Settling, Shown, IsFinal
    <3> QED BY <2>0, <3>1, <3>2
  <2>3. StreamInv' /\ WordInv'
    BY <2>0, StreamsKept, WordsKept
  <2> QED BY <2>1, <2>2, <2>3 DEF PlatformInv
<1> QED BY <1>1, <1>2, PTL DEF PlatformSpec

\* A client that process() has told job_done finds the saved result of its job, on
\* any number of replicas and through any crashes: the row is DONE unless BullMQ
\* delivered the job again, or a late RETRYING update overwrote it.
THEOREM ToldDoneIsSavedHolds == PlatformSpec => []ToldDoneIsSaved
<1>1. PlatformInv => ToldDoneIsSaved
  <2> SUFFICES ASSUME PlatformInv, NEW c \in Clients, NEW i \in DOMAIN received[c],
                      received[c][i] = "job_done"
               PROVE  LET j == sid[c][2]
                      IN  /\ result[j]
                          /\ \/ status[j] = "DONE"
                             \/ status[j] = "RETRYING" /\ LateWrites /\ attemptsMade[j] > 0
                             \/ stalls[j] > 0
    BY DEF ToldDoneIsSaved
  <2>1. received[c] \in Seq(S!Events) /\ WordOf(c)
    BY DEF PlatformInv, StreamInv, S!TypeOK, WordInv
  <2>2. i \in 1..Len(received[c]) /\ received[c] # <<>>
    BY <2>1
  <2>3. HasHeard(c, "job_done")
    BY <2>1, <2>2 DEF WordOf, HasHeard
  <2>4. sid[c][2] \in Jobs /\ Finished(sid[c][2])
    BY <2>1, <2>3 DEF WordOf, Finished, Entries
  <2>5. stalls[sid[c][2]] \in Nat
    BY <2>4 DEF PlatformInv, IInv, TypeOK
  <2>6. result[sid[c][2]] /\ (stalls[sid[c][2]] = 0 => Shown(sid[c][2]))
    BY <2>4, Zenon DEF PlatformInv, EndInv, EndOf
  <2>7. \/ status[sid[c][2]] = "DONE"
        \/ status[sid[c][2]] = "RETRYING" /\ LateWrites /\ attemptsMade[sid[c][2]] > 0
        \/ stalls[sid[c][2]] > 0
    BY <2>5, <2>6 DEF Shown
  <2> QED BY <2>6, <2>7, Zenon
<1> QED BY <1>1, PlatformInvHolds, PTL

\* Through retries, redeliveries, cancels, timeouts and crashes, a response is told
\* at most one outcome, and none while it is still open.
THEOREM OneOutcomePerClientHolds == PlatformSpec => []OneOutcomePerClient
<1>1. PlatformInv => OneOutcomePerClient
  <2> SUFFICES ASSUME PlatformInv, NEW c \in Clients
               PROVE  LET outcomes == {i \in DOMAIN received[c] : received[c][i] \in {"job_done", "error"}}
                      IN  Cardinality(outcomes) <= 1 /\ (conn[c] = "open" => outcomes = {})
    BY DEF OneOutcomePerClient
  <2> DEFINE outcomes == {i \in DOMAIN received[c] : received[c][i] \in {"job_done", "error"}}
  <2>1. received[c] \in Seq(S!Events) /\ WordOf(c)
    BY DEF PlatformInv, StreamInv, S!TypeOK, WordInv
  <2>2. DOMAIN received[c] = 1..Len(received[c])
    BY <2>1
  <2>3. CASE received[c] = <<>>
    <3>1. outcomes = {}
      BY <2>3
    <3> QED BY <3>1, FS_EmptySet
  <2>4. CASE HasHeard(c, "job_done") \/ HasHeard(c, "error")
    <3>1. outcomes = {1}
      BY <2>2, <2>4 DEF HasHeard
    <3>2. conn[c] # "open"
      BY <2>1, <2>4 DEF WordOf, HasHeard
    <3> QED BY <3>1, <3>2, FS_Singleton
  <2> QED BY <2>1, <2>3, <2>4 DEF WordOf
<1> QED BY <1>1, PlatformInvHolds, PTL
----------------------------------------------------------------------------
\* A client that has asked for a job stays with it.
LEMMA ClientsStay ==
    ASSUME StreamInv, [PlatformNext]_allVars, NEW c \in Clients, conn[c] # "idle"
    PROVE  conn'[c] # "idle" /\ sid'[c] = sid[c]
<1>t. conn \in [Clients -> {"idle", "open", "ended", "gone"}] /\ sid \in [Clients -> Entries \cup {None}]
  BY DEF StreamInv, S!TypeOK, Entries
<1>1. CASE UNCHANGED sseVars
  BY <1>1 DEF sseVars
<1>2. ASSUME NEW x, NEW rcv, S!Close(x, rcv), UNCHANGED sid
      PROVE  conn'[c] # "idle" /\ sid'[c] = sid[c]
  BY <1>2, <1>t DEF S!Close
<1>3. ASSUME NEW s \in Slots, ReportDone(s) \/ ReportFailed(s)
      PROVE  conn'[c] # "idle" /\ sid'[c] = sid[c]
  BY <1>1, <1>2, <1>3 DEF ReportDone, ReportFailed
<1>4. CASE StreamStep
  BY <1>2, <1>4, <1>t DEF StreamStep, S!CancelStream, S!OpenStream
<1>5. CASE ConnectionStep
  BY <1>2, <1>5, <1>t DEF ConnectionStep, S!StreamTimeout, S!OnClose, S!Disconnect
<1>6. CASE \E r \in Replicas : CrashAll(r)
  BY <1>6, <1>t DEF CrashAll
<1>7. CASE SilentStep \/ AbandonedEmits \/ AbandonedEnds
  BY <1>1, <1>7 DEF SilentStep, AbandonedEmits, AbandonedEnds, SendToken
<1>8. ASSUME NEW s \in Slots,
             \/ EmitToken(s) \/ PipelineEnds(s)
             \/ \E j \in Jobs : Deliver(s, j) \/ FailStalled(s, j)
      PROVE  conn'[c] # "idle" /\ sid'[c] = sid[c]
  BY <1>1, <1>8 DEF EmitToken, SendToken, PipelineEnds, Deliver, FailStalled
<1>9. CASE UNCHANGED allVars
  BY <1>1, <1>9 DEF allVars
<1> QED BY <1>3, <1>4, <1>5, <1>6, <1>7, <1>8, <1>9 DEF PlatformNext

\* A token goes to the response of its entry, at the end of what it has heard.
LEMMA SendAppends ==
    ASSUME StreamInv, TokenTypes, NEW x \in Entries, NEW n \in Nat, NEW live \in BOOLEAN,
           SendToken(x, n, live)
    PROVE  /\ TokenTypes'
           /\ \A c \in Clients :
                 \/ heard'[c] = heard[c]
                 \/ /\ sid[c] = x /\ conn[c] # "idle"
                    /\ heard'[c] = Append(heard[c], [run |-> n, live |-> live])
<1> DEFINE tok == [run |-> n, live |-> live]
<1>0. tok \in Token /\ heard \in [Clients -> Seq(Token)]
  BY DEF Token, TokenTypes
<1> HIDE DEF tok
<1>1. CASE heard' = heard
  BY <1>1 DEF SendToken, TokenTypes
<1>2. CASE heard' # heard
  <2>1. /\ streams[x] \in Clients /\ conn[streams[x]] \in {"open", "gone"} /\ sid[streams[x]] = x
        /\ heard' = [heard EXCEPT ![streams[x]] = Append(@, tok)]
    BY <1>2, ClientsAssumption
    DEF SendToken, S!IsActive, S!Write, StreamInv, S!TypeOK, S!TimersMatchEntries, Entries, tok
  <2>2. heard' \in [Clients -> Seq(Token)]
    BY <1>0, <2>1
  <2>3. TokenTypes'
    BY <2>2 DEF SendToken, TokenTypes, Token
  <2>4. \A c \in Clients : heard'[c] = heard[c] \/ (c = streams[x] /\ heard'[c] = Append(heard[c], tok))
    BY <1>0, <2>1
  <2> QED BY <2>1, <2>3, <2>4 DEF tok
<1> QED BY <1>1, <1>2

\* A run begins to speak only as the latest delivery of its job.
LEMMA SpeakersKept ==
    ASSUME IInv, TokenTypes, [PlatformNext]_allVars, NEW j \in Jobs
    PROVE  /\ runs'[j] \in Nat /\ runs[j] \in Nat /\ runs'[j] >= runs[j]
           /\ \A t \in Slots : pc'[t] \in Speaking /\ job'[t] = j =>
                 \/ pc[t] \in Speaking /\ job[t] = j /\ run'[t] = run[t]
                 \/ run'[t] = runs[j] + 1
<1>t. /\ runs \in [Jobs -> Nat] /\ run \in [Slots -> Nat]
      /\ pc \in [Slots -> Busy \cup {"idle"}] /\ job \in [Slots -> Jobs \cup {None}]
  BY DEF TokenTypes, IInv, TypeOK
<1>s. "idle" \notin Speaking /\ "onFailed" \notin Speaking
  BY DEF Speaking
<1>1. CASE UNCHANGED <<runs, run, pc, job>>
  BY <1>1, <1>t
<1>2. ASSUME NEW s \in Slots, SlotStep(s), UNCHANGED <<runs, run>>
      PROVE  /\ runs'[j] \in Nat /\ runs[j] \in Nat /\ runs'[j] >= runs[j]
             /\ \A t \in Slots : pc'[t] \in Speaking /\ job'[t] = j =>
                   \/ pc[t] \in Speaking /\ job[t] = j /\ run'[t] = run[t]
                   \/ run'[t] = runs[j] + 1
  <2>1. job' = job /\ \A t \in Slots \ {s} : pc'[t] = pc[t]
    BY <1>2, SlotFrame
  <2>2. pc'[s] \in Speaking => pc[s] \in Speaking
    BY <1>2, <1>t
    DEF SlotStep, SetRunning, LoadBrand, RunPipeline, SaveDone, Report, Complete, DbFails,
        MoveToFailed, OnFailed, Goto, Speaking
  <2> QED BY <1>2, <1>t, <2>1, <2>2
<1>3. ASSUME NEW s \in Slots, NEW k \in Jobs, Deliver(s, k)
      PROVE  /\ runs'[j] \in Nat /\ runs[j] \in Nat /\ runs'[j] >= runs[j]
             /\ \A t \in Slots : pc'[t] \in Speaking /\ job'[t] = j =>
                   \/ pc[t] \in Speaking /\ job[t] = j /\ run'[t] = run[t]
                   \/ run'[t] = runs[j] + 1
  <2>1. /\ runs'[j] \in {runs[j], runs[j] + 1}
        /\ job'[s] = k /\ run'[s] = runs[k] + 1
        /\ \A t \in Slots \ {s} : pc'[t] = pc[t] /\ job'[t] = job[t] /\ run'[t] = run[t]
    BY <1>3, <1>t DEF Deliver, Pick
  <2> QED BY <1>t, <2>1
<1>4. ASSUME NEW s \in Slots, NEW k \in Jobs, FailStalled(s, k)
      PROVE  /\ runs'[j] \in Nat /\ runs[j] \in Nat /\ runs'[j] >= runs[j]
             /\ \A t \in Slots : pc'[t] \in Speaking /\ job'[t] = j =>
                   \/ pc[t] \in Speaking /\ job[t] = j /\ run'[t] = run[t]
                   \/ run'[t] = runs[j] + 1
  <2>1. /\ runs' = runs /\ pc'[s] = "onFailed"
        /\ \A t \in Slots \ {s} : pc'[t] = pc[t] /\ job'[t] = job[t] /\ run'[t] = run[t]
    BY <1>4, <1>t DEF FailStalled, StalledFail
  <2> QED BY <1>t, <1>s, <2>1
<1>5. ASSUME NEW s \in Slots, EmitToken(s) \/ PipelineEnds(s) \/ ReportDone(s) \/ ReportFailed(s)
      PROVE  UNCHANGED <<runs, run, pc, job>> \/ (SlotStep(s) /\ UNCHANGED <<runs, run>>)
  BY <1>5 DEF EmitToken, SendToken, PipelineEnds, ReportDone, ReportFailed, SlotStep, runVars, vars,
     slotVars
<1>6. CASE AbandonedEmits \/ AbandonedEnds \/ StreamStep \/ ConnectionStep \/ UNCHANGED allVars
  BY <1>1, <1>6 DEF AbandonedEmits, AbandonedEnds, SendToken, StreamStep, ConnectionStep, runVars,
     vars, slotVars, allVars
<1>7. ASSUME NEW r \in Replicas, CrashAll(r)
      PROVE  /\ runs'[j] \in Nat /\ runs[j] \in Nat /\ runs'[j] >= runs[j]
             /\ \A t \in Slots : pc'[t] \in Speaking /\ job'[t] = j =>
                   \/ pc[t] \in Speaking /\ job[t] = j /\ run'[t] = run[t]
                   \/ run'[t] = runs[j] + 1
  <2>1. UNCHANGED <<runs, run, job>> /\ \A t \in Slots : pc'[t] \in {"idle", pc[t]}
    BY <1>7, <1>t DEF CrashAll, Crash
  <2> QED BY <1>t, <1>s, <2>1
<1>8. CASE SilentStep
  <2>1. UNCHANGED <<runs, run>>
    BY <1>8 DEF SilentStep, runVars
  <2>2. UNCHANGED <<pc, job>> \/ \E s \in Slots : SlotStep(s)
    BY <1>8 DEF SilentStep, SilentSlotStep, SlotStep, SaveRow, Enqueue, EnqueueFails, Promote,
       StalledRequeue, Boot, CleanUp, Commit, slotVars
  <2> QED BY <1>1, <1>2, <2>1, <2>2
<1> QED BY <1>1, <1>2, <1>3, <1>4, <1>5, <1>6, <1>7, <1>8 DEF PlatformNext

\* What is over stays over.
LEMMA PassedStays ==
    ASSUME IInv, TokenTypes, [PlatformNext]_allVars, NEW j \in Jobs, NEW n \in Nat, Passed(j, n)
    PROVE  Passed(j, n)'
<1>1. /\ runs'[j] \in Nat /\ runs[j] \in Nat /\ runs'[j] >= runs[j]
      /\ \A t \in Slots : pc'[t] \in Speaking /\ job'[t] = j =>
            \/ pc[t] \in Speaking /\ job[t] = j /\ run'[t] = run[t]
            \/ run'[t] = runs[j] + 1
  BY SpeakersKept
<1>2. n <= runs[j] /\ \A s \in Slots : pc[s] \in Speaking /\ job[s] = j => n < run[s]
  BY DEF Passed
<1> QED BY <1>1, <1>2 DEF Passed

\* The history of deliveries and tokens keeps its types.
LEMMA TokenTypesKept ==
    ASSUME IInv, StreamInv, TokenTypes, [PlatformNext]_allVars
    PROVE  TokenTypes'
<1>1. CASE UNCHANGED runVars
  BY <1>1 DEF runVars, TokenTypes
<1>2. ASSUME NEW s \in Slots, EmitToken(s)
      PROVE  TokenTypes'
  <2>1. Entry(s) \in Entries /\ run[s] \in Nat
    BY <1>2, HomeAssumption DEF EmitToken, Entry, Entries, IInv, TypeOK, TokenTypes
  <2> QED BY <1>2, <2>1, SendAppends DEF EmitToken
<1>3. CASE AbandonedEmits
  <2>1. PICK g \in abandoned : SendToken(<<g[1], g[2]>>, g[3], FALSE)
    BY <1>3 DEF AbandonedEmits
  <2>2. <<g[1], g[2]>> \in Entries /\ g[3] \in Nat
    BY DEF TokenTypes, Entries
  <2> QED BY <2>1, <2>2, SendAppends
<1>4. ASSUME NEW s \in Slots, NEW j \in Jobs, Deliver(s, j) \/ FailStalled(s, j)
      PROVE  TokenTypes'
  <2>1. UNCHANGED <<abandoned, tokens, heard>>
    BY <1>4 DEF Deliver, FailStalled
  <2>2. runs' \in [Jobs -> Nat]
    <3>1. runs \in [Jobs -> Nat]
      BY DEF TokenTypes
    <3>2. runs' = runs \/ runs' = [runs EXCEPT ![j] = @ + 1]
      BY <1>4 DEF Deliver, FailStalled
    <3> QED BY <3>1, <3>2
  <2>3. \E n \in Nat : run' = [run EXCEPT ![s] = n]
    BY <1>4 DEF Deliver, FailStalled, TokenTypes
  <2>4. run' \in [Slots -> Nat]
    BY <2>3 DEF TokenTypes
  <2> QED BY <2>1, <2>2, <2>4 DEF TokenTypes
<1>5. ASSUME NEW s \in Slots, PipelineEnds(s)
      PROVE  TokenTypes'
  <2>1. <<Home[s], job[s], run[s]>> \in Replicas \X Jobs \X Nat
    BY <1>5, HomeAssumption DEF PipelineEnds, RunPipeline, IInv, TypeOK, TokenTypes
  <2> QED BY <1>5, <2>1 DEF PipelineEnds, TokenTypes
<1>6. CASE AbandonedEnds \/ \E r \in Replicas : CrashAll(r)
  BY <1>6 DEF AbandonedEnds, CrashAll, TokenTypes
<1>7. CASE SilentStep \/ StreamStep \/ ConnectionStep \/ UNCHANGED allVars
  BY <1>1, <1>7 DEF SilentStep, StreamStep, ConnectionStep, allVars
<1>8. ASSUME NEW s \in Slots, ReportDone(s) \/ ReportFailed(s)
      PROVE  TokenTypes'
  BY <1>1, <1>8 DEF ReportDone, ReportFailed
<1> QED BY <1>2, <1>3, <1>4, <1>5, <1>6, <1>7, <1>8 DEF PlatformNext

\* A run at work is the latest delivery of its job.
LEMMA LatestRunsKept ==
    ASSUME IInv, LockedWorker, TokenTypes, LatestRuns, lapses = 0, [PlatformNext]_allVars
    PROVE  LatestRuns'
<1> DEFINE W == Busy \ {"onFailed"}
<1>t. /\ runs \in [Jobs -> Nat] /\ run \in [Slots -> Nat]
      /\ pc \in [Slots -> Busy \cup {"idle"}] /\ job \in [Slots -> Jobs \cup {None}]
      /\ \A t \in Slots : pc[t] # "idle" => job[t] \in Jobs
  BY DEF TokenTypes, IInv, TypeOK
<1>w. "idle" \notin W /\ "onFailed" \notin W
  BY DEF Busy
<1>i. \A t \in Slots : pc[t] \in W => run[t] = runs[job[t]]
  BY DEF LatestRuns
<1>q. \A t \in Slots : pc[t] \in W => qstate[job[t]] = "active"
  BY <1>t, <1>w DEF LockedWorker, Steady
<1>g. ASSUME \A t \in Slots : pc'[t] \in W => run'[t] = runs'[job'[t]]
      PROVE  LatestRuns'
  BY <1>g DEF LatestRuns
<1> HIDE DEF W
<1>1. ASSUME UNCHANGED <<runs, run, job>>, \A t \in Slots : pc'[t] \in W => pc[t] \in W
      PROVE  LatestRuns'
  BY <1>1, <1>g, <1>i
<1>2. ASSUME NEW s \in Slots, SlotStep(s), UNCHANGED <<runs, run>>
      PROVE  LatestRuns'
  <2>1. job' = job /\ \A t \in Slots \ {s} : pc'[t] = pc[t]
    BY <1>2, SlotFrame
  <2>2. pc'[s] \in W => pc[s] \in W
    <3>1. pc[s] \in W \/ pc[s] = "onFailed"
      BY <1>2, <1>t, SlotFrame DEF W
    <3>2. pc[s] = "onFailed" => pc'[s] = "idle"
      BY <1>2, <1>t, FaultAssumption
      DEF SlotStep, SetRunning, LoadBrand, RunPipeline, SaveDone, Report, Complete, DbFails,
          MoveToFailed, OnFailed, Goto
    <3> QED BY <1>w, <3>1, <3>2
  <2> QED BY <1>1, <1>2, <2>1, <2>2
<1>3. ASSUME NEW s \in Slots, NEW j \in Jobs, Deliver(s, j)
      PROVE  LatestRuns'
  <2>1. /\ qstate[j] = "waiting"
        /\ job'[s] = j /\ run'[s] = runs[j] + 1 /\ runs' = [runs EXCEPT ![j] = @ + 1]
        /\ \A t \in Slots \ {s} : pc'[t] = pc[t] /\ job'[t] = job[t] /\ run'[t] = run[t]
    BY <1>3, <1>t DEF Deliver, Pick
  <2>2. \A t \in Slots \ {s} : pc[t] \in W => job[t] # j /\ job[t] \in Jobs
    BY <1>q, <1>t, <1>w, <2>1
  <2>3. \A t \in Slots \ {s} : pc'[t] \in W => run'[t] = runs'[job'[t]]
    BY <1>i, <1>t, <2>1, <2>2
  <2>4. run'[s] = runs'[job'[s]]
    BY <1>t, <2>1
  <2> QED BY <1>g, <2>3, <2>4
<1>4. ASSUME NEW s \in Slots, NEW j \in Jobs, FailStalled(s, j)
      PROVE  LatestRuns'
  <2>1. /\ runs' = runs /\ pc'[s] = "onFailed"
        /\ \A t \in Slots \ {s} : pc'[t] = pc[t] /\ job'[t] = job[t] /\ run'[t] = run[t]
    BY <1>4, <1>t DEF FailStalled, StalledFail
  <2> QED BY <1>g, <1>i, <1>w, <2>1
<1>5. ASSUME NEW s \in Slots, EmitToken(s) \/ PipelineEnds(s) \/ ReportDone(s) \/ ReportFailed(s)
      PROVE  LatestRuns'
  <2>1. UNCHANGED <<runs, run, pc, job>> \/ (SlotStep(s) /\ UNCHANGED <<runs, run>>)
    BY <1>5 DEF EmitToken, SendToken, PipelineEnds, ReportDone, ReportFailed, SlotStep, runVars, vars,
       slotVars
  <2> QED BY <1>1, <1>2, <2>1
<1>6. CASE AbandonedEmits \/ AbandonedEnds \/ StreamStep \/ ConnectionStep \/ UNCHANGED allVars
  BY <1>1, <1>6 DEF AbandonedEmits, AbandonedEnds, SendToken, StreamStep, ConnectionStep, runVars,
     vars, slotVars, allVars
<1>7. ASSUME NEW r \in Replicas, CrashAll(r)
      PROVE  LatestRuns'
  <2>1. UNCHANGED <<runs, run, job>> /\ \A t \in Slots : pc'[t] \in {"idle", pc[t]}
    BY <1>7, <1>t DEF CrashAll, Crash
  <2> QED BY <1>1, <1>w, <2>1
<1>8. CASE SilentStep
  <2>1. UNCHANGED <<runs, run>>
    BY <1>8 DEF SilentStep, runVars
  <2>2. UNCHANGED <<pc, job>> \/ \E s \in Slots : SlotStep(s)
    BY <1>8 DEF SilentStep, SilentSlotStep, SlotStep, SaveRow, Enqueue, EnqueueFails, Promote,
       StalledRequeue, Boot, CleanUp, Commit, slotVars
  <2> QED BY <1>1, <1>2, <2>1, <2>2
<1> QED BY <1>3, <1>4, <1>5, <1>6, <1>7, <1>8 DEF PlatformNext

\* A Generator is abandoned only when its run is over, and with the lock held no
\* other run of the job is on its way.
LEMMA AbandonedKept ==
    ASSUME IInv, LockedWorker, TokenTypes, LatestRuns, AbandonedRuns, lapses = 0,
           [PlatformNext]_allVars
    PROVE  AbandonedRuns'
<1>0. \A g \in abandoned : g[2] \in Jobs /\ g[3] \in Nat
  BY DEF TokenTypes
<1>1. \A g \in abandoned : Passed(g[2], g[3])'
  BY <1>0, PassedStays DEF AbandonedRuns
<1>2. CASE abandoned' \subseteq abandoned
  BY <1>1, <1>2 DEF AbandonedRuns
<1>3. ASSUME NEW s \in Slots, PipelineEnds(s), pc'[s] = "failing",
             abandoned' = abandoned \cup {<<Home[s], job[s], run[s]>>}
      PROVE  AbandonedRuns'
  <2>1. /\ pc[s] = "run" /\ UNCHANGED <<job, run, runs>>
        /\ \A t \in Slots \ {s} : pc'[t] = pc[t]
    BY <1>3 DEF PipelineEnds, RunPipeline, Goto, IInv, TypeOK
  <2>2. job[s] \in Jobs /\ run[s] = runs[job[s]] /\ runs[job[s]] \in Nat
    BY <2>1 DEF IInv, TypeOK, LatestRuns, TokenTypes, Busy
  <2>3. \A t \in Slots \ {s} : ~(pc[t] \in Speaking /\ job[t] = job[s])
    BY <2>1, <2>2 DEF LockedWorker, Steady, Speaking, Busy
  <2>4. Passed(job[s], run[s])'
    BY <1>3, <2>1, <2>2, <2>3 DEF Passed, Speaking
  <2>5. ASSUME NEW g \in abandoned'
        PROVE  Passed(g[2], g[3])'
    BY <1>1, <1>3, <2>1, <2>4
  <2> QED BY <2>5 DEF AbandonedRuns
<1>4. \/ abandoned' \subseteq abandoned
      \/ \E s \in Slots : /\ PipelineEnds(s) /\ pc'[s] = "failing"
                          /\ abandoned' = abandoned \cup {<<Home[s], job[s], run[s]>>}
  BY DEF PlatformNext, EmitToken, SendToken, PipelineEnds, ReportDone, ReportFailed, Deliver,
     FailStalled, AbandonedEmits, AbandonedEnds, CrashAll, SilentStep, StreamStep, ConnectionStep,
     runVars, allVars
<1> QED BY <1>2, <1>3, <1>4

\* A live worker that lost its lock stays counted.
LEMMA LapsesGrow ==
    ASSUME IInv, [Next]_vars, lapses' = 0
    PROVE  lapses = 0
<1>1. \/ lapses' = lapses
      \/ \E j \in Jobs : StalledRequeue(j)
      \/ \E j \in Jobs, s \in Slots : StalledFail(s, j)
  BY DEF Next, SlotStep, JobStep, ReplicaStep, SetRunning, LoadBrand, RunPipeline, SaveDone, Report,
     Complete, DbFails, MoveToFailed, OnFailed, RejectCreate, SaveRow, Enqueue, EnqueueFails, Pick,
     Promote, Crash, Boot, CleanUp, Commit, DeactivateBrand, ReactivateBrand, envVars, vars
<1> QED BY <1>1 DEF StalledRequeue, StalledFail, LockExpired, IInv, TypeOK

\* The tokens a response has heard, in the order of their runs.
InOrder(c) ==
    \A i, k \in DOMAIN heard[c] :
        i < k => LET a == heard[c][i]
                     b == heard[c][k]
                 IN  b.live => IF a.live THEN a.run <= b.run ELSE a.run < b.run

\* Delivery n of job j is over after the step.
PassedThen(j, n) ==
    /\ n <= runs'[j]
    /\ \A s \in Slots : pc'[s] \in Speaking /\ job'[s] = j => n < run'[s]

\* What a response has heard remains true of its job.
LEMMA HeardStays ==
    ASSUME IInv, StreamInv, TokenTypes, [PlatformNext]_allVars,
           NEW c \in Clients, HeardBy(c), heard[c] # <<>>
    PROVE  /\ conn[c] # "idle" /\ conn'[c] # "idle" /\ sid'[c] = sid[c] /\ sid[c] \in Entries
           /\ sid[c][2] \in Jobs
           /\ \A i \in DOMAIN heard[c] :
                 /\ heard[c][i].run \in Nat /\ heard[c][i].live \in BOOLEAN
                 /\ heard[c][i].run <= runs'[sid[c][2]]
                 /\ ~heard[c][i].live => PassedThen(sid[c][2], heard[c][i].run)
<1>1. conn[c] # "idle" /\ sid[c] \in Entries
  BY DEF HeardBy
<1>2. conn'[c] # "idle" /\ sid'[c] = sid[c] /\ sid[c][2] \in Jobs
  BY <1>1, ClientsStay DEF Entries
<1>3. ASSUME NEW i \in DOMAIN heard[c]
      PROVE  /\ heard[c][i].run \in Nat /\ heard[c][i].live \in BOOLEAN
             /\ heard[c][i].run <= runs'[sid[c][2]]
             /\ ~heard[c][i].live => PassedThen(sid[c][2], heard[c][i].run)
  <2>1. heard[c][i] \in Token
    BY DEF TokenTypes
  <2>2. heard[c][i].run \in Nat /\ heard[c][i].live \in BOOLEAN
    BY <2>1 DEF Token
  <2>3. heard[c][i].run <= runs[sid[c][2]]
    BY DEF HeardBy
  <2>4. heard[c][i].run <= runs'[sid[c][2]]
    BY <1>2, <2>2, <2>3, SpeakersKept
  <2>5. ASSUME ~heard[c][i].live
        PROVE  PassedThen(sid[c][2], heard[c][i].run)
    <3>1. Passed(sid[c][2], heard[c][i].run)
      BY <2>5 DEF HeardBy
    <3> DEFINE n == heard[c][i].run
               j == sid[c][2]
    <3>2. n \in Nat /\ j \in Jobs /\ Passed(j, n)
      BY <1>2, <2>2, <3>1
    <3> HIDE DEF n, j
    <3>3. \A jj \in Jobs, nn \in Nat : Passed(jj, nn) => PassedThen(jj, nn)
      BY PassedStays DEF Passed, PassedThen
    <3>4. PassedThen(j, n)
      BY <3>2, <3>3
    <3> QED BY <3>4 DEF n, j
  <2> QED BY <2>2, <2>4, <2>5
<1> QED BY <1>1, <1>2, <1>3

\* One more token keeps what is known of those a response has heard.
LEMMA TokenKeepsOrder ==
    ASSUME IInv, StreamInv, TokenTypes, [PlatformNext]_allVars,
           NEW c \in Clients, HeardBy(c), InOrder(c),
           sid[c] \in Entries, conn[c] # "idle", NEW n \in Nat, NEW live \in BOOLEAN,
           heard'[c] = Append(heard[c], [run |-> n, live |-> live]),
           n <= runs'[sid[c][2]], ~live => PassedThen(sid[c][2], n),
           live => \A i \in DOMAIN heard[c] :
                      IF heard[c][i].live THEN heard[c][i].run <= n ELSE heard[c][i].run < n
    PROVE  HeardBy(c)' /\ InOrder(c)'
<1> DEFINE tok == [run |-> n, live |-> live]
           h == heard[c]
<1>0. /\ tok \in Token /\ h \in Seq(Token) /\ tok.run = n /\ tok.live = live
      /\ conn'[c] # "idle" /\ sid'[c] = sid[c] /\ heard'[c] = Append(h, tok)
  BY ClientsStay DEF TokenTypes, Token
<1>1. \A i \in DOMAIN h : /\ h[i].run <= runs'[sid[c][2]]
                          /\ ~h[i].live => PassedThen(sid[c][2], h[i].run)
  BY HeardStays
<1>a. /\ \A i \in DOMAIN h : h[i].live => h[i].run <= n \/ ~live
      /\ \A i \in DOMAIN h : ~h[i].live => h[i].run < n \/ ~live
  OBVIOUS
<1>o. \A i, k \in DOMAIN h : i < k /\ h[k].live =>
          IF h[i].live THEN h[i].run <= h[k].run ELSE h[i].run < h[k].run
  BY DEF InOrder
<1> HIDE DEF tok, h
<1>2. /\ DOMAIN Append(h, tok) = DOMAIN h \cup {Len(h) + 1} /\ Len(h) \in Nat
      /\ DOMAIN h = 1..Len(h)
      /\ \A i \in DOMAIN h : Append(h, tok)[i] = h[i]
      /\ Append(h, tok)[Len(h) + 1] = tok
  BY <1>0
<1>3. HeardBy(c)'
  <2>1. ASSUME NEW i \in DOMAIN heard'[c]
        PROVE  /\ heard'[c][i].run <= runs'[sid'[c][2]]
               /\ ~heard'[c][i].live => PassedThen(sid'[c][2], heard'[c][i].run)
    BY <1>0, <1>1, <1>2, <2>1
  <2> QED BY <1>0, <2>1 DEF HeardBy, Passed, PassedThen
<1>4. InOrder(c)'
  <2>1. ASSUME NEW i \in DOMAIN heard'[c], NEW k \in DOMAIN heard'[c], i < k, heard'[c][k].live
        PROVE  IF heard'[c][i].live THEN heard'[c][i].run <= heard'[c][k].run
                                    ELSE heard'[c][i].run < heard'[c][k].run
    <3>1. i \in DOMAIN h /\ heard'[c][i] = h[i]
      BY <1>0, <1>2, <2>1
    <3>2. CASE k \in DOMAIN h
      BY <1>0, <1>2, <1>o, <2>1, <3>1, <3>2
    <3>3. CASE k = Len(h) + 1
      BY <1>0, <1>2, <1>a, <2>1, <3>1, <3>3
    <3> QED BY <1>0, <1>2, <3>2, <3>3
  <2> QED BY <2>1 DEF InOrder
<1> QED BY <1>3, <1>4

\* With no lock lost, what every response has heard stays in order.
LEMMA HeardKept ==
    ASSUME IInv, StreamInv, TokenTypes, LatestRuns, AbandonedRuns,
           [PlatformNext]_allVars, NEW c \in Clients, HeardBy(c), InOrder(c)
    PROVE  HeardBy(c)' /\ InOrder(c)'
<1>1. CASE heard'[c] = heard[c]
  <2>1. InOrder(c)'
    BY <1>1 DEF InOrder
  <2>2. CASE heard[c] = <<>>
    BY <1>1, <2>1, <2>2 DEF HeardBy
  <2>3. CASE heard[c] # <<>>
    BY <1>1, <2>1, <2>3, HeardStays DEF HeardBy, Passed, PassedThen
  <2> QED BY <2>2, <2>3
<1>2. ASSUME NEW s \in Slots, EmitToken(s), heard'[c] # heard[c]
      PROVE  HeardBy(c)' /\ InOrder(c)'
  <2>1. Entry(s) \in Entries /\ run[s] \in Nat /\ job[s] \in Jobs /\ Entry(s)[2] = job[s]
    BY <1>2, HomeAssumption DEF EmitToken, Entry, Entries, IInv, TypeOK, TokenTypes
  <2>2. /\ sid[c] = Entry(s) /\ conn[c] # "idle"
        /\ heard'[c] = Append(heard[c], [run |-> run[s], live |-> TRUE])
    BY <1>2, <2>1, SendAppends DEF EmitToken
  <2>3. pc[s] = "run" /\ runs' = runs
    BY <1>2 DEF EmitToken, SendToken
  <2>4. run[s] = runs[job[s]]
    BY <2>3 DEF LatestRuns, Busy
  <2>5. ASSUME NEW i \in DOMAIN heard[c]
        PROVE  IF heard[c][i].live THEN heard[c][i].run <= run[s] ELSE heard[c][i].run < run[s]
    <3>1. heard[c] # <<>>
      BY <2>5
    <3>2. /\ heard[c][i].run <= runs[job[s]]
          /\ ~heard[c][i].live => Passed(job[s], heard[c][i].run)
      BY <2>1, <2>2, <3>1 DEF HeardBy
    <3> QED BY <2>1, <2>3, <2>4, <3>2 DEF Passed, Speaking
  <2>6. run[s] <= runs'[sid[c][2]]
    BY <2>1, <2>2, <2>3, <2>4
  <2> QED BY <2>1, <2>2, <2>5, <2>6, TokenKeepsOrder
<1>3. ASSUME NEW g \in abandoned, SendToken(<<g[1], g[2]>>, g[3], FALSE), heard'[c] # heard[c]
      PROVE  HeardBy(c)' /\ InOrder(c)'
  <2>1. <<g[1], g[2]>> \in Entries /\ g[3] \in Nat /\ g[2] \in Jobs
    BY DEF TokenTypes, Entries
  <2>2. /\ sid[c] = <<g[1], g[2]>> /\ conn[c] # "idle"
        /\ heard'[c] = Append(heard[c], [run |-> g[3], live |-> FALSE])
    BY <1>3, <2>1, SendAppends
  <2>3. UNCHANGED <<runs, run, pc, job>>
    BY <1>3 DEF SendToken, vars, slotVars
  <2>4. Passed(g[2], g[3])
    BY DEF AbandonedRuns
  <2>5. PassedThen(g[2], g[3]) /\ g[3] <= runs'[g[2]] /\ sid[c][2] = g[2]
    BY <2>2, <2>3, <2>4 DEF Passed, PassedThen
  <2> QED BY <2>1, <2>2, <2>5, TokenKeepsOrder
<1>4. \/ heard' = heard
      \/ \E s \in Slots : EmitToken(s)
      \/ \E g \in abandoned : SendToken(<<g[1], g[2]>>, g[3], FALSE)
  BY DEF PlatformNext, PipelineEnds, ReportDone, ReportFailed, Deliver,
     FailStalled, AbandonedEmits, AbandonedEnds, CrashAll, SilentStep, StreamStep, ConnectionStep,
     runVars, allVars
<1> QED BY <1>1, <1>2, <1>3, <1>4

\* The tokens of a job's runs reach a client run by run, whatever is retried,
\* crashes or goes on as an abandoned Generator, unless a live worker loses its lock.
THEOREM TokensInRunOrderHolds == PlatformSpec => []TokensInRunOrder
<1> DEFINE Ordered == TokenInv /\ TokensInRunOrder
<1>1. PlatformInit => Ordered
  <2> SUFFICES ASSUME PlatformInit PROVE TokenInv /\ TokensInRunOrder
    OBVIOUS
  <2>1. TokenTypes
    BY DEF PlatformInit, TokenTypes
  <2>2. LatestRuns /\ AbandonedRuns /\ \A c \in Clients : HeardBy(c)
    BY DEF PlatformInit, Init, LatestRuns, AbandonedRuns, HeardBy, Busy
  <2>3. TokensInRunOrder
    BY DEF PlatformInit, TokensInRunOrder
  <2> QED BY <2>1, <2>2, <2>3 DEF TokenInv
<1>2. PlatformInv /\ Ordered /\ [PlatformNext]_allVars => Ordered'
  <2> SUFFICES ASSUME PlatformInv, TokenInv, TokensInRunOrder, [PlatformNext]_allVars
               PROVE  TokenInv' /\ TokensInRunOrder'
    OBVIOUS
  <2>0. IInv /\ LockedWorker /\ StreamInv /\ TokenTypes /\ [Next]_vars
    BY JobsLiveOn DEF PlatformInv, TokenInv
  <2>1. TokenTypes'
    BY <2>0, TokenTypesKept
  <2>2. ASSUME lapses' = 0
        PROVE  LatestRuns' /\ AbandonedRuns' /\ \A c \in Clients : HeardBy(c)' /\ InOrder(c)'
    <3>1. lapses = 0
      BY <2>0, <2>2, LapsesGrow
    <3>2. LatestRuns /\ AbandonedRuns /\ \A c \in Clients : HeardBy(c) /\ InOrder(c)
      BY <3>1 DEF TokenInv, TokensInRunOrder, InOrder
    <3>3. LatestRuns' /\ AbandonedRuns'
      BY <2>0, <3>1, <3>2, LatestRunsKept, AbandonedKept
    <3>4. \A c \in Clients : HeardBy(c)' /\ InOrder(c)'
      BY <2>0, <3>2, HeardKept
    <3> QED BY <3>3, <3>4
  <2>3. TokenInv'
    BY <2>1, <2>2 DEF TokenInv
  <2>4. TokensInRunOrder'
    BY <2>2 DEF TokensInRunOrder, InOrder
  <2> QED BY <2>3, <2>4
<1> QED BY <1>1, <1>2, PlatformInvHolds, PTL DEF PlatformSpec
=============================================================================

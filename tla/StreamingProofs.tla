-------------------------- MODULE StreamingProofs --------------------------
(***************************************************************************)
(* Proofs about Streaming, for any sets of jobs and clients.               *)
(*                                                                         *)
(* TimersMatchEntries is inductive only with two more parts: a             *)
(* client that opens a stream must not be armed already, which holds since *)
(* an idle response is in no entry (LiveEntries), and a 'close' handler    *)
(* belongs to a response that asked for a job (HookedClients).             *)
(* LiveEntries also gives NoWriteAfterEnd: every write goes to a response  *)
(* of an entry.                                                            *)
(*                                                                         *)
(* EndedWithAnOutcome is about the last words: the step that ends a        *)
(* response has written the outcome before close() writes `done`           *)
(* (CloseTells), and afterwards nothing is written to it (EndedIsSilent).  *)
(***************************************************************************)
EXTENDS Streaming, TLAPS

LiveEntries == \A j \in Jobs : IsActive(j) => conn[streams[j]] \in {"open", "gone"}

HookedClients == \A c \in hooked : sid[c] \in Jobs /\ conn[c] # "idle"

IInv == TypeOK /\ TimersMatchEntries /\ LiveEntries /\ HookedClients

\* writeEvent keeps the written logs well typed.
LEMMA WriteType ==
    ASSUME TypeOK, NEW rcv \in [Clients -> Seq(Events)], NEW c \in Clients,
           NEW event \in Events
    PROVE  Write(rcv, c, event) \in [Clients -> Seq(Events)]
BY DEF Write, TypeOK

\* emit() keeps the written logs well typed.
LEMMA EmitType ==
    ASSUME TypeOK, NEW j \in Jobs, NEW event \in Events
    PROVE  Emit(j, event) \in [Clients -> Seq(Events)]
BY WriteType DEF Emit, IsActive, TypeOK

\* close() of a job's entry keeps the invariant, whatever it finds there.
LEMMA CloseKeepsIInv ==
    ASSUME IInv, NEW j \in Jobs, NEW rcv \in [Clients -> Seq(Events)],
           Close(j, rcv), UNCHANGED <<sid, hooked, beats>>,
           emitted' \in [Jobs -> Nat], runs' \in [Jobs -> Nat]
    PROVE  IInv'
<1> USE NoneAssumption DEF IsActive
<1>1. received' \in [Clients -> Seq(Events)]
  BY WriteType DEF Close, IInv, TypeOK, Events
<1>2. conn' \in [Clients -> {"idle", "open", "ended", "gone"}]
  BY DEF Close, IInv, TypeOK
<1>3. TypeOK'
  BY <1>1, <1>2 DEF Close, Cleanup, IInv, TypeOK
<1>4. TimersMatchEntries'
  BY DEF Close, Cleanup, IInv, TypeOK, TimersMatchEntries
<1>5. ASSUME NEW k \in Jobs, IsActive(k)'
      PROVE  conn[streams[k]]' \in {"open", "gone"}
  <2>1. k # j /\ streams'[k] = streams[k] /\ IsActive(k)
    BY <1>5 DEF Close, Cleanup, IInv, TypeOK
  <2>2. streams[k] # streams[j]
    BY <2>1 DEF IInv, TypeOK, TimersMatchEntries
  <2>3. conn'[streams[k]] = conn[streams[k]]
    BY <2>1, <2>2 DEF Close, IInv, TypeOK
  <2>4. QED
    BY <2>1, <2>3 DEF IInv, LiveEntries
<1>6. HookedClients'
  BY DEF Close, IInv, TypeOK, HookedClients
<1>7. QED
  BY <1>3, <1>4, <1>5, <1>6 DEF IInv, LiveEntries

\* The inductive step: one case per operation of the service.
LEMMA NextKeepsIInv == IInv /\ [Next]_vars => IInv'
<1> SUFFICES ASSUME IInv, [Next]_vars PROVE IInv'
  OBVIOUS
<1> USE NoneAssumption
<1>1. ASSUME NEW c \in Clients, NEW j \in Jobs, OpenStream(j, c) PROVE IInv'
  <2> USE <1>1
  <2>0. \A k \in Jobs : streams[k] # c
    BY DEF OpenStream, IInv, LiveEntries, IsActive
  <2>1. c \notin armed /\ \A k \in Jobs : streams[k] # c
    BY <2>0 DEF IInv, TimersMatchEntries
  <2>h. c \notin hooked
    BY DEF OpenStream, IInv, HookedClients
  <2>2. CASE IsActive(j)
    <3>1. TypeOK'
      BY <2>2 DEF OpenStream, IInv, TypeOK
    <3>2. TimersMatchEntries' /\ LiveEntries'
      BY <2>1, <2>2 DEF OpenStream, IInv, TypeOK, TimersMatchEntries, LiveEntries, IsActive
    <3>3. HookedClients'
      BY <2>h, <2>2 DEF OpenStream, IInv, TypeOK, HookedClients
    <3>4. QED
      BY <3>1, <3>2, <3>3 DEF IInv
  <2>3. CASE ~IsActive(j)
    <3>1. TypeOK'
      BY <2>3 DEF OpenStream, Register, IInv, TypeOK
    <3>2. TimersMatchEntries'
      BY <2>1, <2>3 DEF OpenStream, Register, IInv, TypeOK, TimersMatchEntries, IsActive
    <3>3. ASSUME NEW k \in Jobs, IsActive(k)' PROVE conn[streams[k]]' \in {"open", "gone"}
      <4>1. CASE k = j
        BY <2>3, <4>1 DEF OpenStream, Register, IInv, TypeOK
      <4>2. CASE k # j
        <5>1. streams'[k] = streams[k] /\ IsActive(k)
          BY <2>3, <3>3, <4>2 DEF OpenStream, Register, IInv, TypeOK, IsActive
        <5>2. conn'[streams[k]] = conn[streams[k]]
          BY <2>1 DEF OpenStream, IInv, TypeOK
        <5>3. QED
          BY <5>1, <5>2 DEF IInv, LiveEntries
      <4>3. QED
        BY <4>1, <4>2
    <3>4. HookedClients'
      BY <2>3 DEF OpenStream, Register, IInv, TypeOK, HookedClients
    <3>5. QED
      BY <3>1, <3>2, <3>3, <3>4 DEF IInv, LiveEntries
  <2>4. QED
    BY <2>2, <2>3
<1>2. ASSUME NEW c \in Clients, StreamTimeout(c) PROVE IInv'
  <2>1. sid[c] \in Jobs
    BY <1>2 DEF StreamTimeout, IInv, TimersMatchEntries
  <2>2. Write(received, c, "error") \in [Clients -> Seq(Events)]
    BY WriteType DEF IInv, TypeOK, Events
  <2>3. QED
    BY <1>2, <2>1, <2>2, CloseKeepsIInv DEF StreamTimeout, IInv, TypeOK
<1>3. ASSUME NEW c \in Clients, Heartbeat(c) PROVE IInv'
  <2>1. received' \in [Clients -> Seq(Events)]
    BY <1>3, WriteType DEF Heartbeat, IInv, TypeOK, Events
  <2>2. TypeOK'
    BY <1>3, <2>1 DEF Heartbeat, IInv, TypeOK
  <2>3. QED
    BY <1>3, <2>2 DEF Heartbeat, IInv, TimersMatchEntries, LiveEntries, IsActive, HookedClients
<1>4. ASSUME NEW c \in Clients, OnClose(c) PROVE IInv'
  <2>1. TypeOK'
    BY <1>4 DEF OnClose, Cleanup, IInv, TypeOK
  <2>2. sid[c] \in Jobs
    BY <1>4 DEF OnClose, IInv, HookedClients
  <2>3. TimersMatchEntries' /\ LiveEntries'
    BY <1>4, <2>2
    DEF OnClose, Cleanup, IInv, TypeOK, TimersMatchEntries, LiveEntries, IsActive
  <2>4. HookedClients'
    BY <1>4 DEF OnClose, IInv, HookedClients
  <2>5. QED
    BY <2>1, <2>3, <2>4 DEF IInv
<1>5. ASSUME NEW c \in Clients, Disconnect(c) PROVE IInv'
  BY <1>5 DEF Disconnect, IInv, TypeOK, TimersMatchEntries, LiveEntries, IsActive, HookedClients
<1>6. ASSUME NEW j \in Jobs, PipelineEmits(j) PROVE IInv'
  <2>1. received' \in [Clients -> Seq(Events)]
    BY <1>6, EmitType DEF PipelineEmits, IInv, Events
  <2>2. TypeOK'
    BY <1>6, <2>1 DEF PipelineEmits, IInv, TypeOK
  <2>3. QED
    BY <1>6, <2>2 DEF PipelineEmits, IInv, TimersMatchEntries, LiveEntries, IsActive, HookedClients
<1>7. ASSUME NEW j \in Jobs, RunEnds(j) PROVE IInv'
  <2>1. PICK last \in {"job_done", "error"} : Close(j, Emit(j, last))
    BY <1>7 DEF RunEnds
  <2>2. Emit(j, last) \in [Clients -> Seq(Events)]
    BY EmitType DEF IInv, Events
  <2>3. runs' \in [Jobs -> Nat] /\ emitted' \in [Jobs -> Nat]
    BY <1>7 DEF RunEnds, IInv, TypeOK
  <2>4. QED
    BY <1>7, <2>1, <2>2, <2>3, CloseKeepsIInv DEF RunEnds
<1>8. ASSUME NEW j \in Jobs, CancelStream(j) PROVE IInv'
  <2>1. Write(received, streams[j], "error") \in [Clients -> Seq(Events)]
    BY <1>8, WriteType DEF CancelStream, IsActive, IInv, TypeOK, Events
  <2>2. QED
    BY <1>8, <2>1, CloseKeepsIInv DEF CancelStream, IInv, TypeOK
<1>9. CASE UNCHANGED vars
  BY <1>9 DEF vars, IInv, TypeOK, TimersMatchEntries, LiveEntries, IsActive, HookedClients
<1>10. QED
  BY <1>1, <1>2, <1>3, <1>4, <1>5, <1>6, <1>7, <1>8, <1>9
  DEF Next, ClientStep, JobStep, Quiet

\* The invariant holds in every reachable state of the service.
LEMMA IInvHolds == Spec => []IInv
<1>1. Init => IInv
  BY NoneAssumption DEF Init, IInv, TypeOK, TimersMatchEntries, LiveEntries, IsActive, HookedClients
<1>2. QED
  BY <1>1, NextKeepsIInv, PTL DEF Spec

\* The state of StreamingService keeps its types.
THEOREM StreamTypes == Spec => []TypeOK
BY IInvHolds, PTL DEF IInv

\* No timer of register() leaks or outlives its entry in the map `streams`.
THEOREM TimersMatchEntriesHolds == Spec => []TimersMatchEntries
BY IInvHolds, PTL DEF IInv

\* Nothing is written to an ended response: every write goes to a response that
\* is in an entry or has its timers running.
LEMMA EndedIsSilent ==
    ASSUME IInv, Next, NEW c \in Clients, conn[c] = "ended"
    PROVE  received'[c] = received[c]
<1> USE NoneAssumption
<1>1. \A j \in Jobs : streams[j] # c
  BY DEF IInv, LiveEntries, IsActive
<1>2. c \notin armed
  BY <1>1 DEF IInv, TimersMatchEntries
<1>3. ASSUME NEW rcv \in [Clients -> Seq(Events)], NEW d \in Clients, d # c,
             NEW event \in Events
      PROVE  Write(rcv, d, event)[c] = rcv[c]
  BY <1>3 DEF Write
<1>4. ASSUME NEW j \in Jobs, NEW event \in Events
      PROVE  Emit(j, event)[c] = received[c]
  BY <1>1, <1>3 DEF Emit, IsActive, IInv, TypeOK
<1>5. ASSUME NEW j \in Jobs, NEW rcv \in [Clients -> Seq(Events)], Close(j, rcv),
             rcv[c] = received[c]
      PROVE  received'[c] = received[c]
  BY <1>1, <1>3, <1>5 DEF Close, IsActive, IInv, TypeOK, Events
<1>6. ASSUME NEW d \in Clients, d # c
      PROVE  /\ Write(received, d, "error") \in [Clients -> Seq(Events)]
             /\ Write(received, d, "error")[c] = received[c]
  BY <1>3, <1>6, WriteType DEF IInv, TypeOK, Events
<1>7. ASSUME NEW d \in Clients, StreamTimeout(d) PROVE received'[c] = received[c]
  BY <1>2, <1>5, <1>6, <1>7 DEF StreamTimeout, IInv, TimersMatchEntries
<1>8. ASSUME NEW d \in Clients, Heartbeat(d) PROVE received'[c] = received[c]
  BY <1>2, <1>3, <1>8 DEF Heartbeat, IInv, TypeOK, Events
<1>9. ASSUME NEW j \in Jobs, CancelStream(j) PROVE received'[c] = received[c]
  BY <1>1, <1>5, <1>6, <1>9 DEF CancelStream, IsActive, IInv, TypeOK
<1>10. ASSUME NEW j \in Jobs, RunEnds(j) PROVE received'[c] = received[c]
  <2>1. PICK last \in {"job_done", "error"} : Close(j, Emit(j, last))
    BY <1>10 DEF RunEnds
  <2>2. Emit(j, last) \in [Clients -> Seq(Events)] /\ Emit(j, last)[c] = received[c]
    BY <1>4, EmitType DEF IInv, Events
  <2>3. QED
    BY <1>5, <2>1, <2>2
<1>11. ASSUME NEW j \in Jobs, PipelineEmits(j) PROVE received'[c] = received[c]
  BY <1>4, <1>11 DEF PipelineEmits, Events
<1>12. QED
  BY <1>7, <1>8, <1>9, <1>10, <1>11
  DEF Next, ClientStep, JobStep, Quiet, OpenStream, OnClose, Disconnect, vars

\* No path of close(), cancel(), the timers or emit() writes to an ended response.
THEOREM NoWriteAfterEndHolds == Spec => NoWriteAfterEnd
<1> DEFINE Silent == \A c \in Clients : conn[c] = "ended" => received'[c] = received[c]
<1>1. IInv /\ [Next]_vars => [Silent]_vars
  BY EndedIsSilent
<1>2. QED
  BY IInvHolds, <1>1, PTL DEF Spec, NoWriteAfterEnd

\* A log whose last words tell how the stream ended.
Told(log) ==
    /\ Len(log) >= 2
    /\ log[Len(log)] = "done"
    /\ log[Len(log) - 1] \in {"job_done", "error"}

\* What close() ends has just been told the outcome.
LEMMA CloseTells ==
    ASSUME IInv, NEW j \in Jobs, NEW w \in {"job_done", "error"}, NEW rcv,
           NEW c \in Clients, conn[c] # "ended", conn'[c] = "ended", Close(j, rcv),
           c = streams[j] => rcv = Write(received, c, w)
    PROVE  Told(received'[c])
<1> USE NoneAssumption
<1>1. c = streams[j] /\ conn[c] = "open" /\ IsActive(j)
  BY DEF Close, IsActive
<1>2. rcv = [received EXCEPT ![c] = Append(@, w)]
  BY <1>1 DEF Write
<1>3. received' = [rcv EXCEPT ![c] = Append(@, "done")]
  BY <1>1 DEF Close, Write
<1>4. received'[c] = Append(Append(received[c], w), "done")
  BY <1>2, <1>3 DEF IInv, TypeOK
<1>5. received[c] \in Seq(Events) /\ w \in Events
  BY DEF IInv, TypeOK, Events
<1> DEFINE s == received[c]
<1> HIDE DEF s
<1>6. /\ Len(Append(Append(s, w), "done")) = Len(s) + 2 /\ Len(s) \in Nat
      /\ Append(Append(s, w), "done")[Len(s) + 2] = "done"
      /\ Append(Append(s, w), "done")[Len(s) + 1] = w
  <2>1. s \in Seq(Events) /\ "done" \in Events
    BY <1>5 DEF s, Events
  <2> QED BY <1>5, <2>1
<1> QED BY <1>4, <1>6 DEF Told, s

\* Every response the server ends, by job_done, a failed run, a cancel or a
\* timeout, has been told the outcome and `done`, and hears nothing after it.
THEOREM EndedHaveAnOutcome == Spec => []EndedWithAnOutcome
<1>1. Init => EndedWithAnOutcome
  BY DEF Init, EndedWithAnOutcome
<1>2. IInv /\ EndedWithAnOutcome /\ [Next]_vars => EndedWithAnOutcome'
  <2> SUFFICES ASSUME IInv, EndedWithAnOutcome, [Next]_vars, NEW c \in Clients, conn'[c] = "ended"
               PROVE  Told(received'[c])
    BY DEF EndedWithAnOutcome, Told
  <2>1. CASE conn[c] = "ended"
    <3>1. received'[c] = received[c]
      BY <2>1, EndedIsSilent DEF vars
    <3> QED BY <2>1, <3>1 DEF EndedWithAnOutcome, Told
  <2>2. CASE conn[c] # "ended"
    <3>1. ASSUME NEW d \in Clients, StreamTimeout(d)
          PROVE  Told(received'[c])
      <4>1. sid[d] \in Jobs /\ streams[sid[d]] = d /\ Close(sid[d], Write(received, d, "error"))
        BY <3>1 DEF StreamTimeout, IInv, TimersMatchEntries
      <4> QED BY <2>2, <4>1, CloseTells
    <3>2. ASSUME NEW j \in Jobs, CancelStream(j)
          PROVE  Told(received'[c])
      BY <2>2, <3>2, CloseTells DEF CancelStream
    <3>3. ASSUME NEW j \in Jobs, RunEnds(j)
          PROVE  Told(received'[c])
      <4>1. PICK last \in {"job_done", "error"} : Close(j, Emit(j, last))
        BY <3>3 DEF RunEnds
      <4>2. c = streams[j] => Emit(j, last) = Write(received, c, last)
        BY NoneAssumption DEF Emit, IsActive
      <4> QED BY <2>2, <4>1, <4>2, CloseTells
    <3>4. \A d \in Clients : ~(Heartbeat(d) \/ OnClose(d) \/ Disconnect(d)
                                \/ \E j \in Jobs : OpenStream(j, d))
      BY <2>2 DEF Heartbeat, OnClose, Disconnect, OpenStream, IInv, TypeOK
    <3>5. \A j \in Jobs : ~PipelineEmits(j)
      BY <2>2 DEF PipelineEmits
    <3>6. ~UNCHANGED vars
      BY <2>2 DEF vars
    <3> QED BY <3>1, <3>2, <3>3, <3>4, <3>5, <3>6 DEF Next, ClientStep, JobStep, Quiet
  <2> QED BY <2>1, <2>2
<1>3. QED
  BY IInvHolds, <1>1, <1>2, PTL DEF Spec
=============================================================================

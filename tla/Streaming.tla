----------------------------- MODULE Streaming -----------------------------
(***************************************************************************)
(* StreamingService and StreamingController (src/streaming/): the SSE      *)
(* streams of one server process.  A client is one GET /stream/:jobId,     *)
(* i.e. one response object; the map `streams` holds at most one entry per *)
(* job, with the response it was registered for.                           *)
(*                                                                         *)
(* A response emits 'close' some time after res.end() or after the client  *)
(* left; the handler that register() installed then cleans up whatever     *)
(* entry the job has at that moment.                                       *)
(*                                                                         *)
(* External: what the pipeline and the processor emit, and the clients.    *)
(***************************************************************************)
EXTENDS Integers, Sequences

CONSTANTS Jobs, Clients, None,
          MaxEvents,   \* bound: events the pipeline emits for a job
          MaxRuns,     \* bound: ends of runs of a job (a redelivery is one more)
          MaxBeats     \* bound: heartbeats written to a response

ASSUME NoneAssumption   == None \notin Jobs /\ None \notin Clients
ASSUME BoundsAssumption == {MaxEvents, MaxRuns, MaxBeats} \subseteq Nat

VARIABLES streams,   \* the entry of a job: the client whose response it holds
          conn,      \* "idle", "open", "ended" (res.end() was called), "gone"
          sid,       \* the job a client asked for
          armed,     \* the clients whose heartbeat and timeout timers run
          hooked,    \* the clients whose 'close' handler is still to run
          received,  \* what was written to each response
          beats,     \* heartbeats among it
          emitted,   \* events emitted so far for a job
          runs       \* runs of a job that have ended

vars == <<streams, conn, sid, armed, hooked, received, beats, emitted, runs>>

Events == {"event", "job_done", "error", "heartbeat", "done"}

TypeOK ==
    /\ streams \in [Jobs -> Clients \cup {None}]
    /\ conn \in [Clients -> {"idle", "open", "ended", "gone"}]
    /\ sid \in [Clients -> Jobs \cup {None}]
    /\ armed \subseteq Clients
    /\ hooked \subseteq Clients
    /\ received \in [Clients -> Seq(Events)]
    /\ beats \in [Clients -> Nat]
    /\ emitted \in [Jobs -> Nat]
    /\ runs \in [Jobs -> Nat]

Init ==
    /\ streams = [j \in Jobs |-> None]
    /\ conn = [c \in Clients |-> "idle"]
    /\ sid = [c \in Clients |-> None]
    /\ armed = {} /\ hooked = {}
    /\ received = [c \in Clients |-> <<>>]
    /\ beats = [c \in Clients |-> 0]
    /\ emitted = [j \in Jobs |-> 0]
    /\ runs = [j \in Jobs |-> 0]
----------------------------------------------------------------------------
IsActive(j) == streams[j] # None

\* writeEvent: what has been written once `event` is, too.  Nothing reaches a
\* client that has left.
Write(rcv, c, event) ==
    IF conn[c] = "gone" THEN rcv ELSE [rcv EXCEPT ![c] = Append(@, event)]

\* emit(): a job without an entry loses the event.
Emit(j, event) == IF IsActive(j) THEN Write(received, streams[j], event) ELSE received

\* Mutant of Cleanup: the timers go on.
Cleanup_KeepsTimers(j) ==
    /\ streams' = [streams EXCEPT ![j] = None]
    /\ armed' = armed

Cleanup(j) ==
    /\ streams' = [streams EXCEPT ![j] = None]
    /\ armed' = armed \ {streams[j]}

\* close(): the response of the job's entry, if any, gets `done` and is ended.
\* rcv is what has been written before.
Close(j, rcv) ==
    /\ received' = IF IsActive(j) THEN Write(rcv, streams[j], "done") ELSE rcv
    /\ conn' = [c \in Clients |->
                   IF c = streams[j] /\ conn[c] = "open" THEN "ended" ELSE conn[c]]
    /\ Cleanup(j)

Register(j, c) ==
    /\ streams' = [streams EXCEPT ![j] = c]
    /\ armed' = armed \cup {c}
    /\ hooked' = hooked \cup {c}

\* Mutant of OpenStream: the controller registers without asking isActive.
OpenStream_Always(j, c) ==
    /\ conn[c] = "idle"
    /\ conn' = [conn EXCEPT ![c] = "open"]
    /\ sid' = [sid EXCEPT ![c] = j]
    /\ Register(j, c)
    /\ UNCHANGED <<received, beats, emitted, runs>>

\* GET /stream/:jobId.  A client that finds an entry gets the headers only.
OpenStream(j, c) ==
    /\ conn[c] = "idle"
    /\ conn' = [conn EXCEPT ![c] = "open"]
    /\ sid' = [sid EXCEPT ![c] = j]
    /\ IF IsActive(j) THEN UNCHANGED <<streams, armed, hooked>> ELSE Register(j, c)
    /\ UNCHANGED <<received, beats, emitted, runs>>

\* DELETE /stream/:jobId (404 and no effect without an entry): subject.error.
CancelStream(j) ==
    /\ IsActive(j)
    /\ Close(j, Write(received, streams[j], "error"))
    /\ UNCHANGED <<sid, hooked, beats, emitted, runs>>

\* Mutant of StreamTimeout: the subscriber writes the error and stops there.
StreamTimeout_Silent(c) ==
    /\ c \in armed
    /\ received' = Write(received, c, "error")
    /\ armed' = armed \ {c}
    /\ UNCHANGED <<streams, conn, sid, hooked, beats, emitted, runs>>

\* The timer of c's registration fires: subject.error on its own subject, then
\* close() of the entry its job has.
StreamTimeout(c) ==
    /\ c \in armed
    /\ Close(sid[c], Write(received, c, "error"))
    /\ UNCHANGED <<sid, hooked, beats, emitted, runs>>

Heartbeat(c) ==
    /\ c \in armed
    /\ beats[c] < MaxBeats
    /\ beats' = [beats EXCEPT ![c] = @ + 1]
    /\ received' = Write(received, c, "heartbeat")
    /\ UNCHANGED <<streams, conn, sid, armed, hooked, emitted, runs>>

\* res.on('close') of a registered response.
OnClose(c) ==
    /\ c \in hooked
    /\ conn[c] \in {"ended", "gone"}
    /\ hooked' = hooked \ {c}
    /\ Cleanup(sid[c])
    /\ UNCHANGED <<conn, sid, received, beats, emitted, runs>>
----------------------------------------------------------------------------
\* The pipeline emits a token, agent_start or agent_done; an abandoned agent
\* may do so after its run has ended.
PipelineEmits(j) ==
    /\ emitted[j] < MaxEvents
    /\ emitted' = [emitted EXCEPT ![j] = @ + 1]
    /\ received' = Emit(j, "event")
    /\ UNCHANGED <<streams, conn, sid, armed, hooked, beats, runs>>

\* Mutant of RunEnds: the stream is closed before the last event.
RunEnds_CloseFirst(j) ==
    /\ runs[j] < MaxRuns
    /\ runs' = [runs EXCEPT ![j] = @ + 1]
    /\ Close(j, received)
    /\ UNCHANGED <<sid, hooked, beats, emitted>>

\* A run of the job ends: process() emits job_done, or onFailed for the last
\* attempt emits error; then close().
RunEnds(j) ==
    /\ runs[j] < MaxRuns
    /\ runs' = [runs EXCEPT ![j] = @ + 1]
    /\ \E last \in {"job_done", "error"} : Close(j, Emit(j, last))
    /\ UNCHANGED <<sid, hooked, beats, emitted>>

\* The client leaves.
Disconnect(c) ==
    /\ conn[c] = "open"
    /\ conn' = [conn EXCEPT ![c] = "gone"]
    /\ UNCHANGED <<streams, sid, armed, hooked, received, beats, emitted, runs>>

\* No client is left and the jobs are over.
Quiet ==
    /\ \A c \in Clients : conn[c] \in {"ended", "gone"} /\ c \notin hooked
    /\ \A j \in Jobs : runs[j] = MaxRuns
    /\ UNCHANGED vars

ClientStep(c) ==
    \/ \E j \in Jobs : OpenStream(j, c)
    \/ StreamTimeout(c) \/ Heartbeat(c) \/ OnClose(c) \/ Disconnect(c)

JobStep(j) == PipelineEmits(j) \/ RunEnds(j) \/ CancelStream(j)

Next == (\E c \in Clients : ClientStep(c)) \/ (\E j \in Jobs : JobStep(j)) \/ Quiet

Spec == Init /\ [][Next]_vars

\* setTimeout fires.
FairSpec == Spec /\ \A c \in Clients : WF_vars(StreamTimeout(c))
----------------------------------------------------------------------------
\* The timers of a response run exactly while it is in its job's entry: none
\* leaks when entries are replaced, cancelled, timed out or cleaned up by the
\* late 'close' of an earlier response, and no timeout closes another's stream.
TimersMatchEntries ==
    /\ \A c \in armed : sid[c] \in Jobs /\ streams[sid[c]] = c
    /\ \A j \in Jobs : IsActive(j) => streams[j] \in armed /\ sid[streams[j]] = j

\* Nothing is written to a response after res.end(): Node reports such a write
\* as an error event of the response, which nothing handles.
NoWriteAfterEnd == [][\A c \in Clients : conn[c] = "ended" => received'[c] = received[c]]_vars

\* A response the server has ended tells its client how the stream ended: the
\* last words are the job's outcome or an error, then `done`.
EndedWithAnOutcome ==
    \A c \in Clients : conn[c] = "ended" =>
        /\ Len(received[c]) >= 2
        /\ received[c][Len(received[c])] = "done"
        /\ received[c][Len(received[c]) - 1] \in {"job_done", "error"}

\* No entry stays for ever, even if its job was lost: streaming.maxDurationMs
\* after its registration at the latest it is gone.
EntriesExpire ==
    \A c \in Clients, j \in Jobs : streams[j] = c ~> streams[j] # c
=============================================================================

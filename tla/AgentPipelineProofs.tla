------------------------ MODULE AgentPipelineProofs ------------------------
(***************************************************************************)
(* Proofs about AgentPipeline: one run, every interleaving of its agents   *)
(* with the tasks that run() has stopped waiting for.                      *)
(*                                                                         *)
(* The properties speak of the result; what makes them inductive is an     *)
(* account of how the run got there.  A run without a degradation reason   *)
(* has taken no detour: every agent before the current one has ended well  *)
(* at its first call and none after it has been called (ProgressInv).      *)
(* Hence no abandoned task is left when QA starts, and the texts QA read   *)
(* are those of the context until the end (QaInv).  DoneInv carries both   *)
(* over to the result, which is a snapshot.                                *)
(*                                                                         *)
(* TraceNamesTheAuthor is inductive by itself: an Optimizer puts its text  *)
(* into the context and its step onto the trace without an await between.  *)
(***************************************************************************)
EXTENDS AgentPipeline, TLAPS

\* The texts each agent may have written.
Texts(role) == {Empty} \cup {<<role, n>> : n \in {1, 2}}

Context == [reasons : Seq(Reasons), steps : Seq(Tasks), queries : BOOLEAN,
            draft : Texts("GENERATOR"), optimized : Texts("OPTIMIZER"), final : Texts("QA")]

Types ==
    /\ pc \in {"init", "waiting", "done", "failed"}
    /\ cur \in 1..5 /\ try \in {1, 2}
    /\ stage \in [Tasks -> Running \cup {"none", "ok", "err"}]
    /\ ctx \in Context
    /\ reviewed \in [{1, 2} -> Tasks \cup {Empty}]
    /\ ragEnabled \in BOOLEAN /\ ragAlive \in BOOLEAN /\ late \in BOOLEAN
    /\ pc = "done" <=> result # NoResult

\* Only the Researcher waits for the memory and for RAG; run() waits for a task
\* that runs.
StageInv ==
    /\ \A t \in Tasks : stage[t] \in {"memory", "rag"} => t[1] = "RESEARCHER"
    /\ pc = "init" => cur = 1 /\ \A t \in Tasks : stage[t] = "none"
    /\ pc = "waiting" => stage[<<Pipeline[cur], try>>] \in Running

\* The first i - 1 agents have ended well at their first try, the others have
\* not been called.
CleanUpto(i, st) ==
    \A j \in 1..5 :
        /\ j < i => st[<<Pipeline[j], 1>>] = "ok"
        /\ j > i => st[<<Pipeline[j], 1>>] = "none"
        /\ st[<<Pipeline[j], 2>>] = "none"

\* A run that waits with no reason in its context has taken no detour.
ProgressInv == pc = "waiting" /\ ~IsDegraded(ctx) => try = 1 /\ CleanUpto(cur, stage)

\* QA is called only where the others are all over, and reviews what they left.
QaInv ==
    \A n \in {1, 2} : stage[<<"QA", n>>] # "none" =>
        /\ cur = 5
        /\ \A r \in Roles \ {"QA"} : stage[<<r, 1>>] = "ok" /\ stage[<<r, 2>>] = "none"
        /\ reviewed[n] = Or(ctx.optimized, ctx.draft)

DoneInv ==
    pc = "done" /\ ~result.degraded =>
        /\ CleanUpto(6, stage)
        /\ ctx.steps # <<>> /\ ctx.steps[Len(ctx.steps)] = <<"QA", 1>>
        /\ result.optimized \in Texts("OPTIMIZER") \cup Texts("GENERATOR")

IInv == Types /\ StageInv /\ ProgressInv /\ QaInv /\ DoneInv
----------------------------------------------------------------------------
\* The pipeline's five agents are different; QA is the last, and the last two are optional.
LEMMA PipelineFacts ==
    /\ Roles = {"PLANNER", "RESEARCHER", "GENERATOR", "OPTIMIZER", "QA"}
    /\ \A i \in 1..5 : Pipeline[i] \in Roles
    /\ \A i \in 1..5 : Pipeline[i] = "QA" <=> i = 5
    /\ \A i, j \in 1..5 : Pipeline[i] = Pipeline[j] => i = j
    /\ \A i \in 1..5 : Pipeline[i] \in OptionalAgents <=> i \in {4, 5}
    /\ \A r \in Roles : \E i \in 1..5 : r = Pipeline[i]
<1>1. /\ Pipeline[1] = "PLANNER" /\ Pipeline[2] = "RESEARCHER" /\ Pipeline[3] = "GENERATOR"
      /\ Pipeline[4] = "OPTIMIZER" /\ Pipeline[5] = "QA"
  BY DEF Pipeline
<1>2. \A i \in 1..5 : i = 1 \/ i = 2 \/ i = 3 \/ i = 4 \/ i = 5
  OBVIOUS
<1>3. Roles = {"PLANNER", "RESEARCHER", "GENERATOR", "OPTIMIZER", "QA"}
  BY <1>1, <1>2 DEF Roles
<1> QED BY <1>1, <1>2, <1>3 DEF OptionalAgents

\* A task is an agent and the number of its call.
LEMMA TaskFacts ==
    /\ \A t \in Tasks : t[1] \in Roles /\ t[2] \in {1, 2} /\ t = <<t[1], t[2]>>
    /\ \A r \in Roles, n \in {1, 2} : <<r, n>> \in Tasks
BY DEF Tasks

\* A reason is added once and never taken back; nothing else changes.
LEMMA AddReasonFacts ==
    ASSUME NEW c \in Context, NEW reason \in Reasons
    PROVE  LET d == AddReason(c, reason)
           IN  /\ d \in Context /\ IsDegraded(d)
               /\ d.steps = c.steps /\ d.draft = c.draft /\ d.optimized = c.optimized
<1> DEFINE s == c.reasons
           s2 == IF Contains(s, reason) THEN s ELSE Append(s, reason)
<1>1. s \in Seq(Reasons)
  BY DEF Context
<1>2. s2 \in Seq(Reasons) /\ s2 # <<>>
  BY <1>1 DEF Contains
<1>3. AddReason(c, reason) = [c EXCEPT !.reasons = s2]
  BY DEF AddReason
<1> HIDE DEF s2
<1> QED BY <1>2, <1>3 DEF Context, IsDegraded
----------------------------------------------------------------------------
(* The orchestrator's loop *)

\* What the loop needs to find at position i.
ReadyFor(i, c, st) ==
    /\ i \in 1..6 /\ (i = 6 => cur = 5)
    /\ c \in Context
    /\ st \in [Tasks -> Running \cup {"none", "ok", "err"}]
    /\ \A t \in Tasks : st[t] \in {"memory", "rag"} => t[1] = "RESEARCHER"
    /\ ~IsDegraded(c) =>
          /\ \A j \in 1..5 :
                /\ j < i => st[<<Pipeline[j], 1>>] = "ok"
                /\ j >= i => st[<<Pipeline[j], 1>>] = "none"
                /\ st[<<Pipeline[j], 2>>] = "none"
          /\ i = 6 => c.steps # <<>> /\ c.steps[Len(c.steps)] = <<"QA", 1>>
    /\ \A n \in {1, 2} : st[<<"QA", n>>] # "none" =>
          /\ i = 6
          /\ \A r \in Roles \ {"QA"} : st[<<r, 1>>] = "ok" /\ st[<<r, 2>>] = "none"
          /\ reviewed[n] = Or(c.optimized, c.draft)

\* `optimizedContent ?? draft` is a text of the Optimizer or of the Generator.
LEMMA OrFacts ==
    ASSUME NEW c \in Context
    PROVE  /\ Or(c.optimized, c.draft) \in Texts("OPTIMIZER") \cup Texts("GENERATOR")
           /\ Or(c.optimized, c.draft) \in Tasks \cup {Empty}
<1>1. c.optimized \in Texts("OPTIMIZER") /\ c.draft \in Texts("GENERATOR")
  BY DEF Context
<1>2. \A r \in Roles : Texts(r) \subseteq Tasks \cup {Empty}
  BY TaskFacts DEF Texts
<1>3. "OPTIMIZER" \in Roles /\ "GENERATOR" \in Roles
  BY PipelineFacts
<1> QED BY <1>1, <1>2, <1>3 DEF Or

\* Calling an agent.
LEMMA LaunchKeeps ==
    ASSUME IInv, NEW i \in 1..5, NEW n \in {1, 2}, NEW c \in Context,
           NEW st \in [Tasks -> Running \cup {"none", "ok", "err"}], NEW ev,
           \A t \in Tasks : st[t] \in {"memory", "rag"} => t[1] = "RESEARCHER",
           pc # "done", cur' = i, Launch(Pipeline[i], n, c, st, ev),
           UNCHANGED ragEnabled, ragAlive' \in BOOLEAN, UNCHANGED late,
           ~IsDegraded(c) => n = 1 /\ CleanUpto(i, st),
           \A m \in {1, 2} : st[<<"QA", m>>] # "none" =>
               /\ i = 5
               /\ reviewed[m] = Or(c.optimized, c.draft),
           i = 5 => \A r \in Roles \ {"QA"} : st[<<r, 1>>] = "ok" /\ st[<<r, 2>>] = "none"
    PROVE  IInv'
<1> DEFINE t0 == <<Pipeline[i], n>>
           r0 == IF Pipeline[i] = "QA" THEN Or(c.optimized, c.draft) ELSE reviewed[n]
<1>1. /\ pc' = "waiting" /\ try' = n /\ ctx' = c /\ result' = result
      /\ stage' = [st EXCEPT ![t0] = FirstStage(Pipeline[i])]
      /\ reviewed' = [reviewed EXCEPT ![n] = r0]
  BY DEF Launch
<1>2. t0 \in Tasks /\ Pipeline[i] \in Roles /\ t0[1] = Pipeline[i]
  BY PipelineFacts, TaskFacts
<1>3. FirstStage(Pipeline[i]) \in Running
      /\ (FirstStage(Pipeline[i]) \in {"memory", "rag"} => Pipeline[i] = "RESEARCHER")
  BY DEF FirstStage, Running
<1>4. r0 \in Tasks \cup {Empty}
  BY OrFacts DEF IInv, Types
<1>5. Types'
  BY <1>1, <1>2, <1>3, <1>4 DEF IInv, Types
<1>6. stage'[t0] \in Running /\ \A t \in Tasks \ {t0} : stage'[t] = st[t]
  BY <1>1, <1>2, <1>3
<1>7. StageInv'
  BY <1>1, <1>2, <1>3, <1>6 DEF StageInv
<1>8. ProgressInv'
  <2> SUFFICES ASSUME ~IsDegraded(c)
               PROVE  n = 1 /\ CleanUpto(i, stage')
    BY <1>1 DEF ProgressInv
  <2>1. n = 1 /\ CleanUpto(i, st)
    OBVIOUS
  <2>2. ASSUME NEW j \in 1..5
        PROVE  /\ j # i => stage'[<<Pipeline[j], 1>>] = st[<<Pipeline[j], 1>>]
               /\ stage'[<<Pipeline[j], 2>>] = st[<<Pipeline[j], 2>>]
    <3>1. <<Pipeline[j], 1>> \in Tasks /\ <<Pipeline[j], 2>> \in Tasks
      BY PipelineFacts, TaskFacts
    <3>2. (j # i => <<Pipeline[j], 1>> # t0) /\ <<Pipeline[j], 2>> # t0
      BY <2>1, PipelineFacts
    <3> QED BY <1>6, <3>1, <3>2
  <2> QED BY <2>1, <2>2 DEF CleanUpto
<1>9. QaInv'
  <2> SUFFICES ASSUME NEW m \in {1, 2}, stage'[<<"QA", m>>] # "none"
               PROVE  /\ i = 5
                      /\ \A r \in Roles \ {"QA"} :
                            stage'[<<r, 1>>] = "ok" /\ stage'[<<r, 2>>] = "none"
                      /\ reviewed'[m] = Or(c.optimized, c.draft)
    BY <1>1 DEF QaInv
  <2>1. <<"QA", m>> \in Tasks
    BY PipelineFacts, TaskFacts
  <2>2. i = 5
    BY <1>6, <2>1, PipelineFacts
  <2>3. ASSUME NEW r \in Roles \ {"QA"}, NEW k \in {1, 2}
        PROVE  stage'[<<r, k>>] = st[<<r, k>>]
    <3>1. <<r, k>> \in Tasks /\ <<r, k>> # t0
      BY <2>2, PipelineFacts, TaskFacts
    <3> QED BY <1>6, <3>1
  <2>4. reviewed'[m] = Or(c.optimized, c.draft)
    <3>1. CASE m = n
      BY <1>1, <2>2, <3>1, PipelineFacts DEF IInv, Types
    <3>2. CASE m # n
      <4>1. <<"QA", m>> # t0
        BY <3>2
      <4>2. st[<<"QA", m>>] # "none"
        BY <1>6, <2>1, <4>1
      <4> QED BY <1>1, <3>2, <4>2 DEF IInv, Types
    <3> QED BY <3>1, <3>2
  <2> QED BY <2>2, <2>3, <2>4
<1>10. DoneInv'
  BY <1>1 DEF DoneInv
<1> QED BY <1>5, <1>7, <1>8, <1>9, <1>10 DEF IInv

\* Going on with agent i keeps the invariant, whether run() calls it or ends.
LEMMA ResumeKeeps ==
    ASSUME IInv, NEW i, NEW c, NEW st, NEW ev, pc # "done", ReadyFor(i, c, st),
           Resume(i, c, st, ev),
           UNCHANGED ragEnabled, ragAlive' \in BOOLEAN, UNCHANGED late
    PROVE  IInv'
<1>a. /\ i \in 1..6 /\ (i = 6 => cur = 5) /\ c \in Context
      /\ st \in [Tasks -> Running \cup {"none", "ok", "err"}]
      /\ \A t \in Tasks : st[t] \in {"memory", "rag"} => t[1] = "RESEARCHER"
  BY Zenon DEF ReadyFor
<1>b. ~IsDegraded(c) =>
         \A j \in 1..5 :
             /\ j < i => st[<<Pipeline[j], 1>>] = "ok"
             /\ j >= i => st[<<Pipeline[j], 1>>] = "none"
             /\ st[<<Pipeline[j], 2>>] = "none"
  BY Zenon DEF ReadyFor
<1>c. ~IsDegraded(c) /\ i = 6 => c.steps # <<>> /\ c.steps[Len(c.steps)] = <<"QA", 1>>
  BY Zenon DEF ReadyFor
<1>d. \A n \in {1, 2} : st[<<"QA", n>>] # "none" =>
          /\ i = 6
          /\ \A r \in Roles \ {"QA"} : st[<<r, 1>>] = "ok" /\ st[<<r, 2>>] = "none"
          /\ reviewed[n] = Or(c.optimized, c.draft)
  BY Zenon DEF ReadyFor
<1>1. CASE i <= 5 /\ ~Skips(i, c)
  <2>1. i \in 1..5
    BY <1>1, <1>a
  <2>2. cur' = i /\ Launch(Pipeline[i], 1, c, st, Append(ev, <<"agent_start", Pipeline[i]>>))
    BY <1>1, <1>a DEF Resume
  <2>3. ~IsDegraded(c) => CleanUpto(i, st)
    BY <1>b, <2>1 DEF CleanUpto
  <2>4. i = 5 => \A r \in Roles \ {"QA"} : st[<<r, 1>>] = "ok" /\ st[<<r, 2>>] = "none"
    <3> SUFFICES ASSUME i = 5, NEW r \in Roles \ {"QA"}
                 PROVE  st[<<r, 1>>] = "ok" /\ st[<<r, 2>>] = "none"
      OBVIOUS
    <3>1. ~IsDegraded(c)
      BY <1>1, PipelineFacts DEF Skips, ShouldSkipOptional
    <3>2. PICK j \in 1..5 : r = Pipeline[j]
      BY PipelineFacts
    <3>3. j < 5
      BY <3>2, PipelineFacts
    <3> QED BY <1>b, <3>1, <3>2, <3>3
  <2>5. \A m \in {1, 2} : st[<<"QA", m>>] = "none"
    BY <1>d, <2>1
  <2> QED BY <1>a, <2>1, <2>2, <2>3, <2>4, <2>5, LaunchKeeps
<1>2. CASE i > 5 \/ Skips(i, c)
  <2> DEFINE d == AddReason(c, "optional_agent_skipped")
  <2>1. /\ ctx' = IF i > 5 THEN c ELSE d
        /\ result' = Assemble(ctx') /\ pc' = "done" /\ stage' = st
        /\ UNCHANGED <<cur, try, reviewed>>
    BY <1>2, <1>a DEF Resume, Skips
  <2>2. d \in Context /\ IsDegraded(d) /\ d.draft = c.draft /\ d.optimized = c.optimized
    BY <1>a, AddReasonFacts DEF Reasons
  <2> HIDE DEF d
  <2>3. ctx' \in Context /\ ctx'.draft = c.draft /\ ctx'.optimized = c.optimized
    BY <1>a, <2>1, <2>2
  <2>4. result' # NoResult
    <3>1. "raw" \in DOMAIN result'
      BY <2>1 DEF Assemble
    <3> QED BY <3>1 DEF NoResult
  <2>5. Types'
    BY <1>a, <2>1, <2>3, <2>4 DEF IInv, Types
  <2>6. StageInv'
    BY <1>a, <2>1 DEF StageInv
  <2>7. ProgressInv'
    BY <2>1 DEF ProgressInv
  <2>8. QaInv'
    BY <1>a, <1>d, <2>1, <2>3 DEF QaInv
  <2>9. DoneInv'
    <3> SUFFICES ASSUME ~result'.degraded
                 PROVE  /\ CleanUpto(6, st)
                        /\ ctx'.steps # <<>> /\ ctx'.steps[Len(ctx'.steps)] = <<"QA", 1>>
                        /\ result'.optimized \in Texts("OPTIMIZER") \cup Texts("GENERATOR")
      BY <2>1 DEF DoneInv
    <3>1. /\ result'.degraded = IsDegraded(ctx')
          /\ result'.optimized = Or(ctx'.optimized, ctx'.draft)
      BY <2>1 DEF Assemble
    <3>2. i = 6 /\ ctx' = c
      BY <1>a, <2>1, <2>2, <3>1
    <3>3. CleanUpto(6, st)
      BY <1>b, <3>1, <3>2 DEF CleanUpto
    <3> QED BY <1>c, <2>3, <3>1, <3>2, <3>3, OrFacts
  <2> QED BY <2>5, <2>6, <2>7, <2>8, <2>9 DEF IInv
<1> QED BY <1>1, <1>2 DEF Resume
----------------------------------------------------------------------------
(* What the agents and the timers do *)

\* With QA called, only QA tasks run; in a clean run only the awaited task does;
\* behind a clean result none does.
LEMMA WhoRuns ==
    ASSUME IInv, NEW t \in Tasks, stage[t] \in Running
    PROVE  /\ pc # "init"
           /\ pc = "waiting" /\ ~IsDegraded(ctx) => t = <<Pipeline[cur], 1>> /\ Awaited(t)
           /\ (\E n \in {1, 2} : stage[<<"QA", n>>] # "none") => t[1] = "QA" /\ cur = 5
           /\ ~(pc = "done" /\ ~result.degraded)
<1>1. t[1] \in Roles /\ t[2] \in {1, 2} /\ t = <<t[1], t[2]>>
  BY TaskFacts
<1>2. PICK j \in 1..5 : t[1] = Pipeline[j]
  BY <1>1, PipelineFacts
<1>3. stage[t] \notin {"none", "ok", "err"}
  BY DEF Running
<1>4. pc # "init"
  BY <1>3 DEF IInv, StageInv
<1>5. ASSUME NEW i \in 1..6, CleanUpto(i, stage)
      PROVE  t = <<Pipeline[j], 1>> /\ j = i
  <2>1. t[2] = 1
    BY <1>1, <1>2, <1>3, <1>5 DEF CleanUpto
  <2>2. t = <<Pipeline[j], 1>>
    BY <1>1, <1>2, <2>1
  <2> QED BY <1>3, <1>5, <2>2 DEF CleanUpto
<1>6. pc = "waiting" /\ ~IsDegraded(ctx) => t = <<Pipeline[cur], 1>> /\ Awaited(t)
  <2>1. cur \in 1..6
    BY DEF IInv, Types
  <2> QED BY <1>5, <2>1 DEF IInv, ProgressInv, Awaited
<1>7. (\E n \in {1, 2} : stage[<<"QA", n>>] # "none") => t[1] = "QA" /\ cur = 5
  BY <1>1, <1>3 DEF IInv, QaInv
<1>8. ~(pc = "done" /\ ~result.degraded)
  <2>1. ~CleanUpto(6, stage)
    BY <1>5
  <2> QED BY <2>1 DEF IInv, DoneInv
<1> QED BY <1>4, <1>6, <1>7, <1>8

\* A task that goes on, with or without a reason noted in the context.
LEMMA NoteKeeps ==
    ASSUME IInv, NEW c \in Context, Note(c), IsDegraded(ctx) => IsDegraded(c),
           c.steps = ctx.steps, c.draft = ctx.draft, c.optimized = ctx.optimized,
           \/ UNCHANGED stage
           \/ \E t \in Tasks : \E s \in Running :
                 /\ stage[t] \in Running /\ (s \in {"memory", "rag"} => t[1] = "RESEARCHER")
                 /\ stage' = [stage EXCEPT ![t] = s]
    PROVE  IInv'
<1>1. ctx' = c /\ UNCHANGED <<pc, cur, try, reviewed, ragEnabled, ragAlive, late, result>>
  BY DEF Note
<1>2. /\ stage' \in [Tasks -> Running \cup {"none", "ok", "err"}]
      /\ \A t \in Tasks : stage'[t] = stage[t] \/ (stage[t] \in Running /\ stage'[t] \in Running)
      /\ \A t \in Tasks : stage'[t] \in {"memory", "rag"} => t[1] = "RESEARCHER"
  BY DEF IInv, Types, StageInv
<1>3. \A t \in Tasks :
         /\ stage[t] = "none" <=> stage'[t] = "none"
         /\ stage[t] = "ok" <=> stage'[t] = "ok"
         /\ stage[t] \in Running <=> stage'[t] \in Running
  BY <1>2 DEF Running
<1>4. \A r \in Roles, n \in {1, 2} : <<r, n>> \in Tasks
  BY TaskFacts
<1>5. \A j \in 1..5 : Pipeline[j] \in Roles
  BY PipelineFacts
<1>6. \A i \in Int : CleanUpto(i, stage) => CleanUpto(i, stage')
  BY <1>3, <1>4, <1>5 DEF CleanUpto
<1>7. Types'
  BY <1>1, <1>2 DEF IInv, Types
<1>8. StageInv'
  BY <1>1, <1>2, <1>3, <1>4, <1>5 DEF IInv, Types, StageInv
<1>9. ProgressInv'
  BY <1>1, <1>6 DEF IInv, Types, ProgressInv
<1>10. QaInv'
  <2>1. "QA" \in Roles
    BY PipelineFacts
  <2> QED BY <1>1, <1>3, <1>4, <2>1 DEF IInv, QaInv
<1>11. DoneInv'
  BY <1>1, <1>6 DEF IInv, DoneInv
<1> QED BY <1>7, <1>8, <1>9, <1>10, <1>11 DEF IInv

\* A task ends well.  QA's tasks write neither the draft nor the optimized text.
LEMMA TaskOkKeeps ==
    ASSUME IInv, NEW t \in Tasks, stage[t] \in Running, NEW c \in Context,
           IsDegraded(ctx) => IsDegraded(c),
           t[1] = "QA" => /\ c.steps = Append(ctx.steps, t)
                          /\ c.draft = ctx.draft /\ c.optimized = ctx.optimized,
           TaskOk(t, c), ragAlive' \in BOOLEAN
    PROVE  IInv'
<1> DEFINE st == [stage EXCEPT ![t] = "ok"]
<1>1. /\ st \in [Tasks -> Running \cup {"none", "ok", "err"}]
      /\ st[t] = "ok" /\ \A u \in Tasks \ {t} : st[u] = stage[u]
  BY DEF IInv, Types
<1> HIDE DEF st
<1>2. \A u \in Tasks : st[u] # "none" => stage[u] # "none"
  BY <1>1 DEF Running
<1>3. \A u \in Tasks : st[u] \in {"memory", "rag"} => u[1] = "RESEARCHER"
  BY <1>1 DEF IInv, StageInv
<1>4. "QA" \in Roles /\ (\A j \in 1..5 : Pipeline[j] \in Roles)
      /\ \A r \in Roles, n \in {1, 2} : <<r, n>> \in Tasks
  BY PipelineFacts, TaskFacts
<1>5. ASSUME NEW n \in {1, 2}, st[<<"QA", n>>] # "none"
      PROVE  /\ cur = 5
             /\ \A r \in Roles \ {"QA"} : st[<<r, 1>>] = "ok" /\ st[<<r, 2>>] = "none"
             /\ reviewed[n] = Or(c.optimized, c.draft)
  <2>1. stage[<<"QA", n>>] # "none"
    BY <1>2, <1>4, <1>5
  <2>2. t[1] = "QA" /\ cur = 5
    BY <2>1, WhoRuns
  <2>3. \A r \in Roles \ {"QA"}, k \in {1, 2} : <<r, k>> # t /\ <<r, k>> \in Tasks
    <3>1. \A r \in Roles \ {"QA"}, k \in {1, 2} : <<r, k>>[1] = r /\ <<r, k>> \in Tasks
      BY <1>4
    <3> QED BY <2>2, <3>1
  <2> QED BY <1>1, <2>1, <2>2, <2>3 DEF IInv, QaInv
<1>6. UNCHANGED ragEnabled /\ UNCHANGED late
  BY DEF TaskOk
<1>7. CASE Awaited(t)
  <2>1. pc = "waiting" /\ t = <<Pipeline[cur], try>> /\ cur \in 1..5
    BY <1>7 DEF Awaited, IInv, Types
  <2>2. Resume(cur + 1, c, st, Append(sse, <<"agent_done", Pipeline[cur]>>))
    BY <1>7 DEF TaskOk, AgentDone, st
  <2>3. ASSUME ~IsDegraded(c)
        PROVE  /\ \A j \in 1..5 :
                     /\ j < cur + 1 => st[<<Pipeline[j], 1>>] = "ok"
                     /\ j >= cur + 1 => st[<<Pipeline[j], 1>>] = "none"
                     /\ st[<<Pipeline[j], 2>>] = "none"
               /\ cur + 1 = 6 => c.steps # <<>> /\ c.steps[Len(c.steps)] = <<"QA", 1>>
    <3>1. try = 1 /\ CleanUpto(cur, stage)
      BY <2>1, <2>3 DEF IInv, ProgressInv
    <3>2. ASSUME NEW j \in 1..5
          PROVE  /\ j = cur => st[<<Pipeline[j], 1>>] = "ok"
                 /\ j # cur => st[<<Pipeline[j], 1>>] = stage[<<Pipeline[j], 1>>]
                 /\ st[<<Pipeline[j], 2>>] = stage[<<Pipeline[j], 2>>]
      <4>1. /\ <<Pipeline[j], 1>> \in Tasks /\ <<Pipeline[j], 2>> \in Tasks
            /\ <<Pipeline[j], 2>> # t
            /\ j # cur => <<Pipeline[j], 1>> # t
        <5>1. Pipeline[j] \in Roles /\ (j # cur => Pipeline[j] # Pipeline[cur])
          BY <2>1, PipelineFacts
        <5>2. t[1] = Pipeline[cur] /\ t[2] = 1
          BY <2>1, <3>1
        <5>3. /\ <<Pipeline[j], 1>> \in Tasks /\ <<Pipeline[j], 2>> \in Tasks
              /\ <<Pipeline[j], 1>>[1] = Pipeline[j] /\ <<Pipeline[j], 2>>[2] = 2
          BY <1>4, <5>1
        <5> QED BY <5>1, <5>2, <5>3
      <4> QED BY <1>1, <2>1, <3>1, <4>1
    <3>3. \A j \in 1..5 : /\ j < cur + 1 => st[<<Pipeline[j], 1>>] = "ok"
                          /\ j >= cur + 1 => st[<<Pipeline[j], 1>>] = "none"
                          /\ st[<<Pipeline[j], 2>>] = "none"
      BY <2>1, <3>1, <3>2 DEF CleanUpto
    <3>4. ASSUME cur + 1 = 6
          PROVE  c.steps # <<>> /\ c.steps[Len(c.steps)] = <<"QA", 1>>
      <4>1. t = <<"QA", 1>>
        BY <2>1, <3>1, <3>4, PipelineFacts
      <4>2. c.steps = Append(ctx.steps, t)
        BY <4>1
      <4>3. ctx.steps \in Seq(Tasks)
        BY DEF IInv, Types, Context
      <4> QED BY <4>1, <4>2, <4>3
    <3> QED BY <3>3, <3>4
  <2>4. ReadyFor(cur + 1, c, st)
    <3>1. cur + 1 \in 1..6 /\ (cur + 1 = 6 => cur = 5)
      BY <2>1
    <3>2. \A n \in {1, 2} : st[<<"QA", n>>] # "none" =>
             /\ cur + 1 = 6
             /\ \A r \in Roles \ {"QA"} : st[<<r, 1>>] = "ok" /\ st[<<r, 2>>] = "none"
             /\ reviewed[n] = Or(c.optimized, c.draft)
      BY <1>5
    <3> QED BY <1>1, <1>3, <2>3, <3>1, <3>2, Zenon DEF ReadyFor
  <2>5. pc # "done"
    BY <2>1
  <2> QED BY <1>6, <2>2, <2>4, <2>5, ResumeKeeps
<1>8. CASE ~Awaited(t)
  <2>1. /\ ctx' = c /\ stage' = st
        /\ UNCHANGED <<pc, cur, try, reviewed, sse, result>>
    BY <1>8 DEF TaskOk, st
  <2>2. ~(pc = "waiting" /\ ~IsDegraded(ctx)) /\ ~(pc = "done" /\ ~result.degraded) /\ pc # "init"
    BY <1>8, WhoRuns
  <2>3. Types'
    BY <1>1, <1>6, <2>1 DEF IInv, Types
  <2>4. StageInv'
    <3>1. pc = "waiting" => stage'[<<Pipeline[cur], try>>] \in Running
      <4> SUFFICES ASSUME pc = "waiting"
                   PROVE  stage'[<<Pipeline[cur], try>>] \in Running
        OBVIOUS
      <4>1. <<Pipeline[cur], try>> # t /\ <<Pipeline[cur], try>> \in Tasks
        BY <1>4, <1>8 DEF Awaited, IInv, Types
      <4> QED BY <1>1, <2>1, <4>1 DEF IInv, StageInv
    <3> QED BY <1>3, <2>1, <2>2, <3>1 DEF StageInv
  <2>5. ProgressInv'
    BY <2>1, <2>2 DEF ProgressInv
  <2>6. QaInv'
    BY <1>5, <2>1 DEF QaInv
  <2>7. DoneInv'
    BY <2>1, <2>2 DEF DoneInv
  <2> QED BY <2>3, <2>4, <2>5, <2>6, <2>7 DEF IInv
<1> QED BY <1>7, <1>8

\* The awaited task fails, or its timer fires and it goes on.
LEMMA OnErrorKeeps ==
    ASSUME IInv, pc = "waiting", NEW st, OnError(st),
           st = stage \/ st = [stage EXCEPT ![<<Pipeline[cur], try>>] = "err"],
           UNCHANGED <<ragEnabled, ragAlive, late>>
    PROVE  IInv'
<1> DEFINE t == <<Pipeline[cur], try>>
<1>0. cur \in 1..5 /\ try \in {1, 2} /\ ctx \in Context /\ ragAlive' \in BOOLEAN
  BY DEF IInv, Types
<1>1. t \in Tasks /\ stage[t] \in Running /\ t[1] = Pipeline[cur]
  BY <1>0, PipelineFacts, TaskFacts DEF IInv, StageInv
<1> HIDE DEF t
<1>2. /\ st \in [Tasks -> Running \cup {"none", "ok", "err"}]
      /\ st[t] \in Running \cup {"err"} /\ \A u \in Tasks \ {t} : st[u] = stage[u]
      /\ \A u \in Tasks : st[u] \in {"memory", "rag"} => u[1] = "RESEARCHER"
  BY <1>1 DEF IInv, Types, StageInv, t
<1>3. \A u \in Tasks : st[u] # "none" => stage[u] # "none"
  BY <1>1, <1>2 DEF Running
<1>4. "QA" \in Roles /\ \A r \in Roles, n \in {1, 2} : <<r, n>> \in Tasks /\ <<r, n>>[1] = r
  BY PipelineFacts, TaskFacts
<1>5. ASSUME NEW n \in {1, 2}, stage[<<"QA", n>>] # "none"
      PROVE  /\ cur = 5
             /\ \A r \in Roles \ {"QA"} : st[<<r, 1>>] = "ok" /\ st[<<r, 2>>] = "none"
             /\ reviewed[n] = Or(ctx.optimized, ctx.draft)
  <2>1. t[1] = "QA" /\ cur = 5
    BY <1>1, <1>5, WhoRuns
  <2>2. \A r \in Roles \ {"QA"}, k \in {1, 2} : <<r, k>> # t /\ <<r, k>> \in Tasks
    BY <1>4, <2>1
  <2> QED BY <1>2, <1>5, <2>1, <2>2 DEF IInv, QaInv
<1>6. CASE Pipeline[cur] \notin OptionalAgents
  <2>1. pc' = "failed" /\ stage' = st /\ UNCHANGED <<cur, try, ctx, reviewed, sse, result>>
    BY <1>6 DEF OnError
  <2>2. cur # 5
    BY <1>6, PipelineFacts
  <2>3. \A n \in {1, 2} : st[<<"QA", n>>] = "none"
    BY <1>3, <1>4, <1>5, <2>2
  <2>4. Types'
    BY <1>2, <2>1 DEF IInv, Types
  <2>5. StageInv' /\ ProgressInv' /\ QaInv' /\ DoneInv'
    BY <1>2, <2>1, <2>3 DEF StageInv, ProgressInv, QaInv, DoneInv
  <2> QED BY <2>4, <2>5 DEF IInv
<1>7. CASE Pipeline[cur] \in OptionalAgents /\ try = 1
  <2> DEFINE c == AddReason(ctx, "contract_retry")
  <2>1. Launch(Pipeline[cur], 2, c, st, sse) /\ cur' = cur
    BY <1>7 DEF OnError
  <2>2. c \in Context /\ IsDegraded(c) /\ c.draft = ctx.draft /\ c.optimized = ctx.optimized
    BY <1>0, AddReasonFacts DEF Reasons
  <2> HIDE DEF c
  <2>3. \A m \in {1, 2} : st[<<"QA", m>>] # "none" =>
           cur = 5 /\ reviewed[m] = Or(c.optimized, c.draft)
    BY <1>3, <1>4, <1>5, <2>2
  <2>4. ASSUME cur = 5
        PROVE  \A r \in Roles \ {"QA"} : st[<<r, 1>>] = "ok" /\ st[<<r, 2>>] = "none"
    <3>1. stage[<<"QA", 1>>] # "none"
      BY <1>1, <1>7, <2>4, PipelineFacts DEF Running, t
    <3> QED BY <1>5, <3>1
  <2> QED BY <1>0, <1>2, <2>1, <2>2, <2>3, <2>4, LaunchKeeps
<1>8. CASE Pipeline[cur] \in OptionalAgents /\ try # 1
  <2> DEFINE c == AddReason(ctx, "optional_agent_skipped")
             ev == Append(sse, <<"agent_done", Pipeline[cur]>>)
  <2>1. Resume(cur + 1, c, st, ev)
    BY <1>8 DEF OnError, AgentDone
  <2>2. c \in Context /\ IsDegraded(c) /\ c.draft = ctx.draft /\ c.optimized = ctx.optimized
    BY <1>0, AddReasonFacts DEF Reasons
  <2> HIDE DEF c, ev
  <2>3. \A n \in {1, 2} : st[<<"QA", n>>] # "none" =>
           /\ cur + 1 = 6
           /\ \A r \in Roles \ {"QA"} : st[<<r, 1>>] = "ok" /\ st[<<r, 2>>] = "none"
           /\ reviewed[n] = Or(c.optimized, c.draft)
    BY <1>3, <1>4, <1>5, <2>2
  <2>4. cur + 1 \in 1..6 /\ (cur + 1 = 6 => cur = 5)
    BY <1>0
  <2>5. ReadyFor(cur + 1, c, st)
    BY <1>2, <2>2, <2>3, <2>4, Zenon DEF ReadyFor
  <2>6. pc # "done"
    OBVIOUS
  <2> QED BY <1>0, <2>1, <2>5, <2>6, ResumeKeeps
<1> QED BY <1>6, <1>7, <1>8

\* The invariant holds before run() starts.
LEMMA InitIInv == Init => IInv
<1> SUFFICES ASSUME Init
             PROVE  IInv
  OBVIOUS
<1>1. ctx \in Context
  BY DEF Init, NewContext, Context, Texts
<1>2. ragEnabled \in BOOLEAN /\ ragAlive \in BOOLEAN /\ late \in BOOLEAN
  BY ConfigAssumption DEF Init
<1>3. Types
  BY <1>1, <1>2 DEF Init, Types
<1>4. "QA" \in Roles /\ \A r \in Roles, n \in {1, 2} : <<r, n>> \in Tasks
  BY PipelineFacts, TaskFacts
<1>5. StageInv /\ ProgressInv /\ QaInv /\ DoneInv
  BY <1>4 DEF Init, StageInv, ProgressInv, QaInv, DoneInv
<1> QED BY <1>3, <1>5 DEF IInv

\* The start of run() keeps the invariant.
LEMMA BeginKeeps ==
    ASSUME IInv, Begin
    PROVE  IInv'
<1>1. PICK o \in Overloaded :
         Resume(1, IF o THEN AddReason(ctx, "queue_overload") ELSE ctx, stage, sse)
  BY DEF Begin
<1> DEFINE c == IF o THEN AddReason(ctx, "queue_overload") ELSE ctx
<1>2. c \in Context
  BY AddReasonFacts DEF IInv, Types, Reasons
<1>3. /\ pc = "init" /\ ragAlive' \in BOOLEAN
      /\ UNCHANGED ragEnabled /\ UNCHANGED late
  BY DEF Begin, IInv, Types
<1>4. "QA" \in Roles /\ (\A j \in 1..5 : Pipeline[j] \in Roles)
      /\ \A r \in Roles, n \in {1, 2} : <<r, n>> \in Tasks
  BY PipelineFacts, TaskFacts
<1>5. /\ \A t \in Tasks : stage[t] = "none"
      /\ stage \in [Tasks -> Running \cup {"none", "ok", "err"}]
  BY <1>3 DEF IInv, StageInv, Types
<1>6. Resume(1, c, stage, sse)
  BY <1>1
<1> HIDE DEF c
<1>7. ReadyFor(1, c, stage)
  BY <1>2, <1>4, <1>5 DEF ReadyFor
<1>8. pc # "done"
  BY <1>3
<1> QED BY <1>3, <1>6, <1>7, <1>8, ResumeKeeps

\* recordStep appends one step and removes no reason.
LEMMA RecordFacts ==
    ASSUME NEW c \in Context, NEW t \in Tasks
    PROVE  LET d == RecordStep(c, t)
           IN  /\ d \in Context /\ (IsDegraded(c) => IsDegraded(d))
               /\ d.steps = Append(c.steps, t) /\ d.draft = c.draft /\ d.optimized = c.optimized
<1>1. Append(c.steps, t) \in Seq(Tasks)
  BY DEF Context
<1> QED BY <1>1 DEF RecordStep, Context, IsDegraded

\* An agent that only adds a reason keeps the invariant.
LEMMA ReasonNoted ==
    ASSUME IInv, NEW reason \in Reasons, Note(AddReason(ctx, reason)), UNCHANGED stage
    PROVE  IInv'
<1>1. ctx \in Context
  BY DEF IInv, Types
<1> QED BY <1>1, AddReasonFacts, NoteKeeps

\* Every step of an agent, awaited or abandoned, keeps the invariant.
LEMMA AgentKeeps ==
    ASSUME IInv, NEW t \in Tasks, AgentStep(t)
    PROVE  IInv'
<1>0. ctx \in Context /\ ragAlive \in BOOLEAN
  BY DEF IInv, Types
<1>1. CASE AgentFails(t)
  <2>1. stage[t] \in Running /\ UNCHANGED <<ragEnabled, ragAlive, late>>
    BY <1>1 DEF AgentFails, Running
  <2>2. CASE Awaited(t)
    <3>1. pc = "waiting" /\ t = <<Pipeline[cur], try>> /\ OnError([stage EXCEPT ![t] = "err"])
      BY <1>1, <2>2 DEF AgentFails, Awaited
    <3> QED BY <2>1, <3>1, OnErrorKeeps
  <2>3. CASE ~Awaited(t)
    <3>1. /\ stage' = [stage EXCEPT ![t] = "err"]
          /\ UNCHANGED <<pc, cur, try, ctx, reviewed, sse, result>>
      BY <1>1, <2>3 DEF AgentFails
    <3>2. ~(pc = "waiting" /\ ~IsDegraded(ctx)) /\ ~(pc = "done" /\ ~result.degraded) /\ pc # "init"
      BY <2>1, <2>3, WhoRuns
    <3>3. /\ stage' \in [Tasks -> Running \cup {"none", "ok", "err"}]
          /\ stage'[t] = "err" /\ \A u \in Tasks \ {t} : stage'[u] = stage[u]
      BY <3>1 DEF IInv, Types
    <3>4. "QA" \in Roles /\ \A r \in Roles, n \in {1, 2} : <<r, n>> \in Tasks /\ <<r, n>>[1] = r
      BY PipelineFacts, TaskFacts
    <3>5. Types'
      BY <2>1, <3>1, <3>3 DEF IInv, Types
    <3>6. StageInv'
      <4>1. ASSUME pc = "waiting"
            PROVE  stage'[<<Pipeline[cur], try>>] \in Running
        <5>1. <<Pipeline[cur], try>> \in Tasks /\ <<Pipeline[cur], try>> # t
          BY <2>3, <3>4, <4>1, PipelineFacts DEF Awaited, IInv, Types
        <5> QED BY <3>3, <4>1, <5>1 DEF IInv, StageInv
      <4>2. \A u \in Tasks : stage'[u] \in {"memory", "rag"} => u[1] = "RESEARCHER"
        BY <3>3 DEF IInv, StageInv
      <4> QED BY <3>1, <3>2, <4>1, <4>2 DEF StageInv
    <3>7. QaInv'
      <4> SUFFICES ASSUME NEW n \in {1, 2}, stage'[<<"QA", n>>] # "none"
                   PROVE  /\ cur = 5
                          /\ \A r \in Roles \ {"QA"} :
                                stage'[<<r, 1>>] = "ok" /\ stage'[<<r, 2>>] = "none"
                          /\ reviewed[n] = Or(ctx.optimized, ctx.draft)
        BY <3>1 DEF QaInv
      <4>1. stage[<<"QA", n>>] # "none"
        BY <2>1, <3>3, <3>4 DEF Running
      <4>2. t[1] = "QA"
        BY <2>1, <4>1, WhoRuns
      <4>3. \A r \in Roles \ {"QA"}, k \in {1, 2} : <<r, k>> # t /\ <<r, k>> \in Tasks
        BY <3>4, <4>2
      <4> QED BY <3>3, <4>1, <4>3 DEF IInv, QaInv
    <3>8. ProgressInv' /\ DoneInv'
      BY <3>1, <3>2 DEF ProgressInv, DoneInv
    <3> QED BY <3>5, <3>6, <3>7, <3>8 DEF IInv
  <2> QED BY <2>2, <2>3
<1>2. CASE Fallback(t)
  BY <1>2, ReasonNoted DEF Fallback, Reasons
<1>3. CASE ToolsDone(t)
  <2>1. Note(ctx) /\ stage[t] \in Running /\ stage' = [stage EXCEPT ![t] = "llm"]
        /\ "llm" \in Running
    BY <1>3 DEF ToolsDone, Running
  <2> QED BY <1>0, <2>1, NoteKeeps
<1>4. CASE PlannerOk(t)
  <2>1. PICK q \in BOOLEAN : TaskOk(t, RecordStep([ctx EXCEPT !.queries = q], t))
    BY <1>4 DEF PlannerOk
  <2>2. stage[t] \in Running /\ t[1] # "QA" /\ ragAlive' \in BOOLEAN
    BY <1>0, <1>4 DEF PlannerOk, Running
  <2> DEFINE c == [ctx EXCEPT !.queries = q]
  <2>3. c \in Context /\ (IsDegraded(ctx) => IsDegraded(c))
    BY <1>0 DEF Context, IsDegraded
  <2> HIDE DEF c
  <2>4. RecordStep(c, t) \in Context /\ (IsDegraded(ctx) => IsDegraded(RecordStep(c, t)))
    BY <2>3, RecordFacts
  <2> QED BY <2>1, <2>2, <2>4, TaskOkKeeps DEF c
<1>5. CASE MemoryDone(t)
  <2>1. PICK c \in {ctx, AddReason(ctx, "memory_timeout")} :
           IF ragEnabled /\ ctx.queries
           THEN stage' = [stage EXCEPT ![t] = "rag"] /\ Note(c)
           ELSE TaskOk(t, c) /\ UNCHANGED ragAlive
    BY <1>5 DEF MemoryDone
  <2>2. /\ c \in Context /\ (IsDegraded(ctx) => IsDegraded(c))
        /\ c.steps = ctx.steps /\ c.draft = ctx.draft /\ c.optimized = ctx.optimized
    BY <1>0, AddReasonFacts DEF Reasons
  <2>3. stage[t] \in Running /\ t[1] = "RESEARCHER" /\ "rag" \in Running
    BY <1>5 DEF MemoryDone, Running, IInv, StageInv
  <2>4. CASE ragEnabled /\ ctx.queries
    BY <2>1, <2>2, <2>3, <2>4, NoteKeeps
  <2>5. CASE ~(ragEnabled /\ ctx.queries)
    <3>1. TaskOk(t, c) /\ ragAlive' \in BOOLEAN /\ t[1] # "QA"
      BY <1>0, <2>1, <2>3, <2>5
    <3> QED BY <2>2, <2>3, <3>1, TaskOkKeeps
  <2> QED BY <2>4, <2>5
<1>6. CASE RagViolation(t)
  BY <1>6, ReasonNoted DEF RagViolation, Reasons
<1>7. CASE RagDone(t)
  <2>1. stage[t] \in Running /\ t[1] # "QA" /\ ragAlive' \in BOOLEAN
    BY <1>0, <1>7 DEF RagDone, Running, IInv, StageInv
  <2> QED BY <1>0, <1>7, <2>1, RecordFacts, TaskOkKeeps DEF RagDone
<1>8. CASE RagTimeout(t)
  <2>1. stage[t] \in Running /\ t[1] # "QA" /\ ragAlive' \in BOOLEAN
    BY <1>8 DEF RagTimeout, Running, IInv, StageInv
  <2> DEFINE c == AddReason(ctx, "rag_timeout")
  <2>2. c \in Context /\ IsDegraded(c)
    BY <1>0, AddReasonFacts DEF Reasons
  <2>3. TaskOk(t, RecordStep(c, t))
    BY <1>8 DEF RagTimeout
  <2> HIDE DEF c
  <2> QED BY <2>1, <2>2, <2>3, RecordFacts, TaskOkKeeps
<1>9. CASE GeneratorOk(t)
  <2>1. PICK text \in {Empty, t} : TaskOk(t, RecordStep([ctx EXCEPT !.draft = text], t))
    BY <1>9 DEF GeneratorOk
  <2>2. stage[t] \in Running /\ t[1] = "GENERATOR" /\ ragAlive' \in BOOLEAN
    BY <1>0, <1>9 DEF GeneratorOk, Running
  <2>3. text \in Texts("GENERATOR")
    BY <2>2, TaskFacts DEF Texts
  <2> DEFINE c == [ctx EXCEPT !.draft = text]
  <2>4. c \in Context /\ (IsDegraded(ctx) => IsDegraded(c))
    BY <1>0, <2>3 DEF Context, IsDegraded
  <2> HIDE DEF c
  <2>5. RecordStep(c, t) \in Context /\ (IsDegraded(ctx) => IsDegraded(RecordStep(c, t)))
    BY <2>4, RecordFacts
  <2> QED BY <2>1, <2>2, <2>5, TaskOkKeeps DEF c
<1>10. CASE OptimizerOk(t)
  <2>1. PICK text \in {Empty, t} : TaskOk(t, RecordStep([ctx EXCEPT !.optimized = text], t))
    BY <1>10 DEF OptimizerOk
  <2>2. stage[t] \in Running /\ t[1] = "OPTIMIZER" /\ ragAlive' \in BOOLEAN
    BY <1>0, <1>10 DEF OptimizerOk, Running
  <2>3. text \in Texts("OPTIMIZER")
    BY <2>2, TaskFacts DEF Texts
  <2> DEFINE c == [ctx EXCEPT !.optimized = text]
  <2>4. c \in Context /\ (IsDegraded(ctx) => IsDegraded(c))
    BY <1>0, <2>3 DEF Context, IsDegraded
  <2> HIDE DEF c
  <2>5. RecordStep(c, t) \in Context /\ (IsDegraded(ctx) => IsDegraded(RecordStep(c, t)))
    BY <2>4, RecordFacts
  <2> QED BY <2>1, <2>2, <2>5, TaskOkKeeps DEF c
<1>11. CASE QaOk(t)
  <2>1. PICK text \in {Empty, t} : TaskOk(t, RecordStep([ctx EXCEPT !.final = text], t))
    BY <1>11 DEF QaOk
  <2>2. stage[t] \in Running /\ t[1] = "QA" /\ ragAlive' \in BOOLEAN
    BY <1>0, <1>11 DEF QaOk, Running
  <2>3. text \in Texts("QA")
    BY <2>2, TaskFacts DEF Texts
  <2> DEFINE c == [ctx EXCEPT !.final = text]
  <2>4. /\ c \in Context /\ (IsDegraded(ctx) => IsDegraded(c))
        /\ c.steps = ctx.steps /\ c.draft = ctx.draft /\ c.optimized = ctx.optimized
    BY <1>0, <2>3 DEF Context, IsDegraded
  <2> HIDE DEF c
  <2>5. /\ RecordStep(c, t) \in Context /\ (IsDegraded(ctx) => IsDegraded(RecordStep(c, t)))
        /\ RecordStep(c, t).steps = Append(ctx.steps, t)
        /\ RecordStep(c, t).draft = ctx.draft /\ RecordStep(c, t).optimized = ctx.optimized
    BY <2>4, RecordFacts
  <2> QED BY <2>1, <2>2, <2>5, TaskOkKeeps DEF c
<1> QED
  BY <1>1, <1>2, <1>3, <1>4, <1>5, <1>6, <1>7, <1>8, <1>9, <1>10, <1>11 DEF AgentStep

\* Every step of the run keeps the invariant.
LEMMA NextKeeps == IInv /\ [Next]_vars => IInv'
<1> SUFFICES ASSUME IInv, [Next]_vars
             PROVE  IInv'
  OBVIOUS
<1>1. CASE Timeout
  BY <1>1, OnErrorKeeps DEF Timeout
<1>2. CASE LatencyBudgetExceeded
  <2>1. Types'
    BY <1>2 DEF IInv, Types, LatencyBudgetExceeded
  <2> QED BY <1>2, <2>1 DEF IInv, StageInv, ProgressInv, QaInv, DoneInv, LatencyBudgetExceeded
<1>3. CASE LateRagViolation
  BY <1>3, ReasonNoted DEF LateRagViolation, Reasons
<1>4. CASE UNCHANGED vars
  <2>1. Types'
    BY <1>4 DEF IInv, Types, vars
  <2> QED BY <1>4, <2>1 DEF IInv, StageInv, ProgressInv, QaInv, DoneInv, vars
<1> QED BY <1>1, <1>2, <1>3, <1>4, BeginKeeps, AgentKeeps DEF Next, Over

\* The invariant holds in every reachable state of a run.
LEMMA Invariance == Spec => []IInv
BY InitIInv, NextKeeps, PTL DEF Spec
----------------------------------------------------------------------------
\* run() and its agents stay in their types: the reasons are known ones, the
\* steps and the texts are the tasks', and a run is "done" with its result.
THEOREM PipelineTypes == Spec => []TypeOK
<1>1. ASSUME IInv
      PROVE  TypeOK
  <2>1. /\ ctx.reasons \in Seq(Reasons) /\ ctx.steps \in Seq(Tasks) /\ ctx.queries \in BOOLEAN
        /\ ctx.draft \in Texts("GENERATOR") /\ ctx.optimized \in Texts("OPTIMIZER")
        /\ ctx.final \in Texts("QA")
    BY <1>1 DEF IInv, Types, Context
  <2>2. \A r \in Roles : Texts(r) \subseteq Tasks \cup {Empty}
    BY TaskFacts DEF Texts
  <2>3. {ctx.draft, ctx.optimized, ctx.final} \subseteq Tasks \cup {Empty}
    BY <2>1, <2>2, PipelineFacts
  <2>4. Range(ctx.reasons) \subseteq Reasons /\ Range(ctx.steps) \subseteq Tasks
    BY <2>1 DEF Range
  <2>5. {ragEnabled, ragAlive, late, ctx.queries} \subseteq BOOLEAN
    BY <1>1, <2>1, Zenon DEF IInv, Types
  <2> QED BY <1>1, <2>3, <2>4, <2>5 DEF IInv, Types, TypeOK
<1> QED BY <1>1, Invariance, PTL

\* A result that does not call itself degraded went through all five agents at
\* their first try, and nothing of the run goes on behind it.
THEOREM CleanAreComplete == Spec => []CleanMeansComplete
<1>1. ASSUME IInv
      PROVE  CleanMeansComplete
  <2> SUFFICES ASSUME pc = "done", ~result.degraded, NEW r \in Roles
               PROVE  stage[<<r, 1>>] = "ok" /\ stage[<<r, 2>>] = "none"
    BY DEF CleanMeansComplete
  <2>1. PICK j \in 1..5 : r = Pipeline[j]
    BY PipelineFacts
  <2>2. CleanUpto(6, stage)
    BY <1>1 DEF IInv, DoneInv
  <2>3. j < 6
    OBVIOUS
  <2> QED BY <2>1, <2>2, <2>3 DEF CleanUpto
<1> QED BY <1>1, Invariance, PTL

\* Although withTimeout abandons agents that go on writing, QA never reviews a
\* text that an Optimizer may still replace.
THEOREM QaReviewsTheDelivered == Spec => []QaReviewsDeliveredText
<1>1. ASSUME IInv
      PROVE  QaReviewsDeliveredText
  <2>1. "OPTIMIZER" \in Roles \ {"QA"}
    BY PipelineFacts
  <2> QED BY <1>1, <2>1 DEF IInv, QaInv, QaReviewsDeliveredText, Running
<1> QED BY <1>1, Invariance, PTL

\* The evaluation of a clean result is attributed to QA's step, which is never
\* the author of the evaluated text.
THEOREM CleanIsAttributedToQa == Spec => []CleanAttribution
<1>1. ASSUME IInv
      PROVE  CleanAttribution
  <2> SUFFICES ASSUME pc = "done", ~result.degraded
               PROVE  EvaluatedStep = <<"QA", 1>> /\ result.optimized # EvaluatedStep
    BY DEF CleanAttribution
  <2>1. EvaluatedStep = <<"QA", 1>>
    BY <1>1 DEF IInv, DoneInv, EvaluatedStep, Last
  <2>2. <<"QA", 1>> \notin Texts("OPTIMIZER") \cup Texts("GENERATOR")
    BY DEF Texts, Empty
  <2> QED BY <1>1, <2>1, <2>2 DEF IInv, DoneInv
<1> QED BY <1>1, Invariance, PTL

\* The last Optimizer step of context c names its text.
Authored(c) ==
    c.optimized # Empty =>
        \E i \in DOMAIN c.steps :
            /\ c.steps[i] = c.optimized
            /\ \A k \in DOMAIN c.steps : k > i => c.steps[k][1] # "OPTIMIZER"

\* The loop of run() changes neither the trace nor the text it was given.
LEMMA ResumeKeepsTrace ==
    ASSUME NEW i, NEW c \in Context, NEW st, NEW ev, Resume(i, c, st, ev), Authored(c)
    PROVE  Authored(ctx')
<1>1. ctx' = c \/ ctx' = AddReason(c, "optional_agent_skipped")
  BY DEF Resume, Launch
<1>2. ctx'.steps = c.steps /\ ctx'.optimized = c.optimized
  BY <1>1, AddReasonFacts DEF Reasons
<1> QED BY <1>2 DEF Authored

\* An error or a timeout leaves the trace and the text alone.
LEMMA OnErrorKeepsTrace ==
    ASSUME ctx \in Context, NEW st, OnError(st), Authored(ctx)
    PROVE  Authored(ctx')
<1>1. \A reason \in Reasons :
         AddReason(ctx, reason) \in Context /\ Authored(AddReason(ctx, reason))
  BY AddReasonFacts DEF Authored
<1>2. CASE ctx' = ctx
  BY <1>2
<1>3. CASE ctx' = AddReason(ctx, "contract_retry")
  BY <1>1, <1>3 DEF Reasons
<1>4. CASE AgentDone(AddReason(ctx, "optional_agent_skipped"), st)
  <2>1. AddReason(ctx, "optional_agent_skipped") \in Context
        /\ Authored(AddReason(ctx, "optional_agent_skipped"))
    BY <1>1 DEF Reasons
  <2> QED BY <1>4, <2>1, ResumeKeepsTrace DEF AgentDone
<1> QED BY <1>2, <1>3, <1>4 DEF OnError, Launch

\* The end of a task leaves the trace of the context it hands over.
LEMMA TaskOkKeepsTrace ==
    ASSUME NEW t, NEW c \in Context, TaskOk(t, c), Authored(c)
    PROVE  Authored(ctx')
<1>1. CASE ctx' = c
  BY <1>1
<1>2. CASE AgentDone(c, [stage EXCEPT ![t] = "ok"])
  BY <1>2, ResumeKeepsTrace DEF AgentDone
<1> QED BY <1>1, <1>2 DEF TaskOk

\* recordStep of another agent than the Optimizer keeps the author the last of them.
LEMMA RecordKeepsTrace ==
    ASSUME NEW c \in Context, Authored(c), NEW t \in Tasks, t[1] # "OPTIMIZER"
    PROVE  RecordStep(c, t) \in Context /\ Authored(RecordStep(c, t))
<1> DEFINE d == RecordStep(c, t)
           s == c.steps
<1>1. d \in Context /\ d.steps = Append(s, t) /\ d.optimized = c.optimized /\ s \in Seq(Tasks)
  BY RecordFacts DEF Context
<1> HIDE DEF d, s
<1>2. /\ DOMAIN Append(s, t) = DOMAIN s \cup {Len(s) + 1} /\ DOMAIN s = 1..Len(s) /\ Len(s) \in Nat
      /\ \A i \in DOMAIN s : Append(s, t)[i] = s[i]
      /\ Append(s, t)[Len(s) + 1] = t
  BY <1>1
<1>3. Authored(d)
  <2> SUFFICES ASSUME d.optimized # Empty
               PROVE  \E i \in DOMAIN d.steps :
                         /\ d.steps[i] = d.optimized
                         /\ \A k \in DOMAIN d.steps : k > i => d.steps[k][1] # "OPTIMIZER"
    BY DEF Authored
  <2>1. PICK i \in DOMAIN s : /\ s[i] = c.optimized
                              /\ \A k \in DOMAIN s : k > i => s[k][1] # "OPTIMIZER"
    BY <1>1 DEF Authored, s
  <2>2. i \in DOMAIN d.steps /\ d.steps[i] = d.optimized
    BY <1>1, <1>2, <2>1
  <2>3. \A k \in DOMAIN d.steps : k > i => d.steps[k][1] # "OPTIMIZER"
    BY <1>1, <1>2, <2>1
  <2> QED BY <2>2, <2>3
<1> QED BY <1>1, <1>3 DEF d

\* The Optimizer writes its text and its step in one go.
LEMMA OptimizerSigns ==
    ASSUME NEW c \in Context, NEW t \in Tasks, t[1] = "OPTIMIZER", NEW text \in {Empty, t}
    PROVE  LET d == RecordStep([c EXCEPT !.optimized = text], t)
           IN  d \in Context /\ Authored(d)
<1> DEFINE e == [c EXCEPT !.optimized = text]
           d == RecordStep(e, t)
           s == c.steps
<1>1. text \in Texts("OPTIMIZER")
  BY TaskFacts DEF Texts
<1>2. e \in Context /\ e.optimized = text /\ e.steps = s
  BY <1>1 DEF Context
<1>3. d \in Context /\ d.steps = Append(s, t) /\ d.optimized = text /\ s \in Seq(Tasks)
  BY <1>2, RecordFacts DEF Context
<1> HIDE DEF d, s, e
<1>4. /\ DOMAIN Append(s, t) = 1..(Len(s) + 1) /\ Len(s) \in Nat
      /\ Append(s, t)[Len(s) + 1] = t
  BY <1>3
<1>5. ASSUME text # Empty
      PROVE  \E i \in DOMAIN d.steps :
                 /\ d.steps[i] = d.optimized
                 /\ \A k \in DOMAIN d.steps : k > i => d.steps[k][1] # "OPTIMIZER"
  <2>1. Len(s) + 1 \in DOMAIN d.steps /\ d.steps[Len(s) + 1] = d.optimized
    BY <1>3, <1>4, <1>5
  <2>2. \A k \in DOMAIN d.steps : ~(k > Len(s) + 1)
    BY <1>3, <1>4
  <2> QED BY <2>1, <2>2
<1> QED BY <1>3, <1>5 DEF Authored, d, e

\* The delivered text is that of the last Optimizer step in the trace, although
\* withTimeout leaves earlier calls of the Optimizer running: a call writes the text
\* and records its step without an await in between.
THEOREM TraceNamesTheAuthorHolds == Spec => []TraceNamesTheAuthor
<1>1. Init => TraceNamesTheAuthor
  BY DEF Init, NewContext, TraceNamesTheAuthor
<1>2. IInv /\ TraceNamesTheAuthor /\ [Next]_vars => TraceNamesTheAuthor'
  <2> SUFFICES ASSUME IInv, Authored(ctx), [Next]_vars
               PROVE  Authored(ctx')
    BY DEF TraceNamesTheAuthor, Authored
  <2>0. ctx \in Context
    BY DEF IInv, Types
  <2>r. \A reason \in Reasons :
           AddReason(ctx, reason) \in Context /\ Authored(AddReason(ctx, reason))
    BY <2>0, AddReasonFacts DEF Authored
  <2>1. CASE Begin
    <3>1. PICK o \in Overloaded :
             Resume(1, IF o THEN AddReason(ctx, "queue_overload") ELSE ctx, stage, sse)
      BY <2>1 DEF Begin
    <3> DEFINE c == IF o THEN AddReason(ctx, "queue_overload") ELSE ctx
    <3>2. c \in Context /\ Authored(c)
      BY <2>0, <2>r DEF Reasons
    <3> QED BY <3>1, <3>2, ResumeKeepsTrace
  <2>2. CASE Timeout
    BY <2>0, <2>2, OnErrorKeepsTrace DEF Timeout
  <2>3. CASE LateRagViolation \/ LatencyBudgetExceeded \/ Over \/ UNCHANGED vars
    BY <2>3, <2>r DEF LateRagViolation, LatencyBudgetExceeded, Over, Note, vars, Reasons
  <2>4. ASSUME NEW t \in Tasks, AgentFails(t)
        PROVE  Authored(ctx')
    BY <2>0, <2>4, OnErrorKeepsTrace DEF AgentFails
  <2>5. ASSUME NEW t \in Tasks, Fallback(t) \/ ToolsDone(t) \/ RagViolation(t)
        PROVE  Authored(ctx')
    BY <2>5, <2>r DEF Fallback, ToolsDone, RagViolation, Note, Reasons
  <2>6. ASSUME NEW t \in Tasks, PlannerOk(t)
        PROVE  Authored(ctx')
    <3>1. PICK q \in BOOLEAN : TaskOk(t, RecordStep([ctx EXCEPT !.queries = q], t))
      BY <2>6 DEF PlannerOk
    <3>2. [ctx EXCEPT !.queries = q] \in Context /\ Authored([ctx EXCEPT !.queries = q])
      BY <2>0 DEF Context, Authored
    <3> QED BY <2>6, <3>1, <3>2, RecordKeepsTrace, TaskOkKeepsTrace DEF PlannerOk
  <2>7. ASSUME NEW t \in Tasks, MemoryDone(t)
        PROVE  Authored(ctx')
    <3>1. PICK c \in {ctx, AddReason(ctx, "memory_timeout")} : Note(c) \/ TaskOk(t, c)
      BY <2>7 DEF MemoryDone
    <3>2. c \in Context /\ Authored(c)
      BY <2>0, <2>r DEF Reasons
    <3> QED BY <3>1, <3>2, TaskOkKeepsTrace DEF Note
  <2>8. ASSUME NEW t \in Tasks, RagDone(t) \/ RagTimeout(t)
        PROVE  Authored(ctx')
    <3>1. t[1] # "OPTIMIZER"
      BY <2>8 DEF RagDone, RagTimeout, IInv, StageInv
    <3>2. PICK c \in {ctx, AddReason(ctx, "rag_timeout")} : TaskOk(t, RecordStep(c, t))
      BY <2>8 DEF RagDone, RagTimeout
    <3>3. c \in Context /\ Authored(c)
      BY <2>0, <2>r DEF Reasons
    <3> QED BY <3>1, <3>2, <3>3, RecordKeepsTrace, TaskOkKeepsTrace
  <2>9. ASSUME NEW t \in Tasks, GeneratorOk(t)
        PROVE  Authored(ctx')
    <3>1. PICK text \in {Empty, t} : TaskOk(t, RecordStep([ctx EXCEPT !.draft = text], t))
      BY <2>9 DEF GeneratorOk
    <3>2. text \in Texts("GENERATOR")
      BY <2>9, TaskFacts DEF GeneratorOk, Texts
    <3>3. [ctx EXCEPT !.draft = text] \in Context /\ Authored([ctx EXCEPT !.draft = text])
      BY <2>0, <3>2 DEF Context, Authored
    <3> QED BY <2>9, <3>1, <3>3, RecordKeepsTrace, TaskOkKeepsTrace DEF GeneratorOk
  <2>10. ASSUME NEW t \in Tasks, OptimizerOk(t)
         PROVE  Authored(ctx')
    <3>1. PICK text \in {Empty, t} : TaskOk(t, RecordStep([ctx EXCEPT !.optimized = text], t))
      BY <2>10 DEF OptimizerOk
    <3> QED BY <2>0, <2>10, <3>1, OptimizerSigns, TaskOkKeepsTrace DEF OptimizerOk
  <2>11. ASSUME NEW t \in Tasks, QaOk(t)
         PROVE  Authored(ctx')
    <3>1. PICK text \in {Empty, t} : TaskOk(t, RecordStep([ctx EXCEPT !.final = text], t))
      BY <2>11 DEF QaOk
    <3>2. text \in Texts("QA")
      BY <2>11, TaskFacts DEF QaOk, Texts
    <3>3. [ctx EXCEPT !.final = text] \in Context /\ Authored([ctx EXCEPT !.final = text])
      BY <2>0, <3>2 DEF Context, Authored
    <3> QED BY <2>11, <3>1, <3>3, RecordKeepsTrace, TaskOkKeepsTrace DEF QaOk
  <2> QED BY <2>1, <2>2, <2>3, <2>4, <2>5, <2>6, <2>7, <2>8, <2>9, <2>10, <2>11 DEF Next, AgentStep
<1> QED BY <1>1, <1>2, Invariance, PTL DEF Spec
=============================================================================

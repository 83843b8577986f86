--------------------------- MODULE AgentPipeline ---------------------------
(***************************************************************************)
(* One run of AgentOrchestratorService.run(ctx) and of the five agents it  *)
(* drives (agent-orchestrator.service.ts, agents/*.agent.ts), with the     *)
(* AgentContext they share and the reasons of DegradedExecutionContext.    *)
(*                                                                         *)
(* withTimeout races an agent against a timer and abandons the loser: an   *)
(* agent that timed out goes on, and writes into the context when it ends. *)
(* A task is <<role, n>>, the n-th call of the role's run(ctx).            *)
(*                                                                         *)
(* A text is named after the task that wrote it; Empty is ''.              *)
(***************************************************************************)
EXTENDS Integers, Sequences, SequencesExt

CONSTANTS RagEnabled,     \* values of brandConfig.ragEnabled
          Overloaded      \* values of isQueueOverloaded at the start

ASSUME ConfigAssumption == RagEnabled \subseteq BOOLEAN /\ Overloaded \subseteq BOOLEAN

Pipeline == <<"PLANNER", "RESEARCHER", "GENERATOR", "OPTIMIZER", "QA">>
OptionalAgents == {"OPTIMIZER", "QA"}
Roles == {Pipeline[i] : i \in 1..5}
Tasks == Roles \X {1, 2}
Running == {"memory", "rag", "tools", "llm"}   \* what a task awaits
Empty == <<>>
NoResult == <<>>

VARIABLES pc,        \* of run(): "init", "waiting", "done", "failed"
          cur, try,  \* the agent run() awaits: Pipeline[cur], its try
          stage,     \* of every task
          ctx,       \* AgentContext
          reviewed,  \* the text each QA task has read from the context
          ragEnabled,
          ragAlive,  \* RAG searches that outlived their timeout
          late,      \* the latency budget is exceeded
          sse,       \* agent_start and agent_done events
          result     \* what run() returned

vars == <<pc, cur, try, stage, ctx, reviewed, ragEnabled, ragAlive, late, sse, result>>

Reasons == {"rag_timeout", "llm_fallback", "queue_overload", "contract_retry",
            "optional_agent_skipped", "memory_timeout", "contract_violation"}
----------------------------------------------------------------------------
(* AgentContext and DegradedExecutionContext *)

\* append(): a reason appears at most once.
AddReason(c, reason) ==
    [c EXCEPT !.reasons = IF Contains(@, reason) THEN @ ELSE Append(@, reason)]

IsDegraded(c) == c.reasons # <<>>

RecordStep(c, t) == [c EXCEPT !.steps = Append(@, t)]

NewContext == [reasons |-> <<>>, steps |-> <<>>, queries |-> FALSE,
               draft |-> Empty, optimized |-> Empty, final |-> Empty]

Or(a, b) == IF a # Empty THEN a ELSE b
----------------------------------------------------------------------------
TypeOK ==
    /\ pc \in {"init", "waiting", "done", "failed"}
    /\ cur \in 1..5 /\ try \in {1, 2}
    /\ stage \in [Tasks -> Running \cup {"none", "ok", "err"}]
    /\ Range(ctx.reasons) \subseteq Reasons
    /\ Range(ctx.steps) \subseteq Tasks
    /\ {ctx.draft, ctx.optimized, ctx.final} \subseteq Tasks \cup {Empty}
    /\ reviewed \in [{1, 2} -> Tasks \cup {Empty}]
    /\ {ragEnabled, ragAlive, late, ctx.queries} \subseteq BOOLEAN
    /\ pc = "done" <=> result # NoResult

Init ==
    /\ pc = "init" /\ cur = 1 /\ try = 1
    /\ stage = [t \in Tasks |-> "none"]
    /\ ctx = NewContext
    /\ reviewed = [n \in {1, 2} |-> Empty]
    /\ ragEnabled \in RagEnabled
    /\ ragAlive = FALSE /\ late = FALSE
    /\ sse = <<>> /\ result = NoResult
----------------------------------------------------------------------------
(* The orchestrator *)

Awaited(t) == pc = "waiting" /\ t = <<Pipeline[cur], try>>

FirstStage(role) ==
    CASE role = "RESEARCHER" -> "memory"
      [] role \in OptionalAgents -> "tools"
      [] OTHER -> "llm"

\* Mutant of ShouldSkipOptional: only the latency budget counts.
ShouldSkipOptional_Late(c) == late

ShouldSkipOptional(c) == IsDegraded(c) \/ late

Skips(i, c) == i <= 5 /\ Pipeline[i] \in OptionalAgents /\ ShouldSkipOptional(c)

Assemble(c) ==
    [raw       |-> c.draft,
     optimized |-> Or(c.optimized, c.draft),
     counted   |-> Or(c.final, Or(c.optimized, c.draft)),   \* for wordCount
     degraded  |-> IsDegraded(c),
     reasons   |-> c.reasons]

\* Try n of role is called: it runs to its first await.
Launch(role, n, c, st, ev) ==
    /\ pc' = "waiting"
    /\ try' = n
    /\ stage' = [st EXCEPT ![<<role, n>>] = FirstStage(role)]
    /\ reviewed' = [reviewed EXCEPT ![n] =
                       IF role = "QA" THEN Or(c.optimized, c.draft) ELSE @]
    /\ ctx' = c
    /\ sse' = ev
    /\ UNCHANGED result

\* The loop at position i with context c.  A skipped optional agent leaves the
\* context degraded, so the ones after it are skipped too.  The result contract
\* holds of every result assembled here.
Resume(i, c, st, ev) ==
    \/ /\ i <= 5
       /\ ~Skips(i, c)
       /\ cur' = i
       /\ Launch(Pipeline[i], 1, c, st, Append(ev, <<"agent_start", Pipeline[i]>>))
    \/ /\ i > 5 \/ Skips(i, c)
       /\ ctx' = IF i > 5 THEN c ELSE AddReason(c, "optional_agent_skipped")
       /\ result' = Assemble(ctx')
       /\ pc' = "done"
       /\ stage' = st
       /\ sse' = ev
       /\ UNCHANGED <<cur, try, reviewed>>

\* The agent run() awaits is done: agent_done, then the next one.
AgentDone(c, st) == Resume(cur + 1, c, st, Append(sse, <<"agent_done", Pipeline[cur]>>))

\* Task t has ended well, leaving context c.
TaskOk(t, c) ==
    /\ IF Awaited(t)
       THEN AgentDone(c, [stage EXCEPT ![t] = "ok"])
       ELSE /\ ctx' = c
            /\ stage' = [stage EXCEPT ![t] = "ok"]
            /\ UNCHANGED <<pc, cur, try, reviewed, sse, result>>
    /\ UNCHANGED <<ragEnabled, late>>

\* Mutant of OnError: the retry leaves no reason in the context.
OnError_SilentRetry(st) ==
    IF Pipeline[cur] \notin OptionalAgents
    THEN /\ pc' = "failed"
         /\ stage' = st
         /\ UNCHANGED <<cur, try, ctx, reviewed, sse, result>>
    ELSE IF try = 1
    THEN Launch(Pipeline[cur], 2, ctx, st, sse) /\ UNCHANGED cur
    ELSE AgentDone(AddReason(ctx, "optional_agent_skipped"), st)

\* Mutant of OnError: the error of a required agent is caught and forgotten.
OnError_Swallows(st) ==
    /\ stage' = st
    /\ UNCHANGED <<pc, cur, try, ctx, reviewed, sse, result>>

\* What the orchestrator does about an error or a timeout of the awaited task.
OnError(st) ==
    IF Pipeline[cur] \notin OptionalAgents
    THEN /\ pc' = "failed"
         /\ stage' = st
         /\ UNCHANGED <<cur, try, ctx, reviewed, sse, result>>
    ELSE IF try = 1
    THEN /\ Launch(Pipeline[cur], 2, AddReason(ctx, "contract_retry"), st, sse)
         /\ UNCHANGED cur
    ELSE AgentDone(AddReason(ctx, "optional_agent_skipped"), st)

\* run(ctx) is called; the processor has looked at the queue's depth before.
Begin ==
    /\ pc = "init"
    /\ \E o \in Overloaded :
          Resume(1, IF o THEN AddReason(ctx, "queue_overload") ELSE ctx, stage, sse)
    /\ UNCHANGED <<ragEnabled, ragAlive, late>>

\* The timer of withTimeout fires first; the task goes on by itself.
Timeout ==
    /\ pc = "waiting"
    /\ OnError(stage)
    /\ UNCHANGED <<ragEnabled, ragAlive, late>>

LatencyBudgetExceeded ==
    /\ ~late
    /\ late' = TRUE
    /\ UNCHANGED <<pc, cur, try, stage, ctx, reviewed, ragEnabled, ragAlive, sse, result>>
----------------------------------------------------------------------------
(* The agents *)

\* A tool or the router rejects.
AgentFails(t) ==
    /\ stage[t] \in {"tools", "llm"}
    /\ IF Awaited(t)
       THEN OnError([stage EXCEPT ![t] = "err"])
       ELSE /\ stage' = [stage EXCEPT ![t] = "err"]
            /\ UNCHANGED <<pc, cur, try, ctx, reviewed, sse, result>>
    /\ UNCHANGED <<ragEnabled, ragAlive, late>>

Note(c) ==
    /\ ctx' = c
    /\ UNCHANGED <<pc, cur, try, reviewed, ragEnabled, ragAlive, late, sse, result>>

\* onFallback of the router.
Fallback(t) ==
    /\ stage[t] = "llm"
    /\ Note(AddReason(ctx, "llm_fallback"))
    /\ UNCHANGED stage

\* The tools of Optimizer and QA have answered, with or without success.
ToolsDone(t) ==
    /\ stage[t] = "tools"
    /\ stage' = [stage EXCEPT ![t] = "llm"]
    /\ Note(ctx)

PlannerOk(t) ==
    /\ t[1] = "PLANNER" /\ stage[t] = "llm"
    /\ \E q \in BOOLEAN : TaskOk(t, RecordStep([ctx EXCEPT !.queries = q], t))
    /\ UNCHANGED ragAlive

\* Memory recall ends or takes more than 200 ms; then the RAG search, if any.
MemoryDone(t) ==
    /\ stage[t] = "memory"
    /\ \E c \in {ctx, AddReason(ctx, "memory_timeout")} :
          IF ragEnabled /\ ctx.queries
          THEN stage' = [stage EXCEPT ![t] = "rag"] /\ Note(c)
          ELSE TaskOk(t, c) /\ UNCHANGED ragAlive

\* search() dropped a chunk at the contract boundary.
RagViolation(t) ==
    /\ stage[t] = "rag"
    /\ Note(AddReason(ctx, "contract_violation"))
    /\ UNCHANGED stage

RagDone(t) ==
    /\ stage[t] = "rag"
    /\ TaskOk(t, RecordStep(ctx, t))
    /\ UNCHANGED ragAlive

RagTimeout(t) ==
    /\ stage[t] = "rag"
    /\ TaskOk(t, RecordStep(AddReason(ctx, "rag_timeout"), t))
    /\ ragAlive' = TRUE

\* A search that lost the race against its timeout drops a chunk.
LateRagViolation ==
    /\ ragAlive
    /\ Note(AddReason(ctx, "contract_violation"))
    /\ UNCHANGED stage

\* The stream ended, with or without any token.
GeneratorOk(t) ==
    /\ t[1] = "GENERATOR" /\ stage[t] = "llm"
    /\ \E text \in {Empty, t} : TaskOk(t, RecordStep([ctx EXCEPT !.draft = text], t))
    /\ UNCHANGED ragAlive

\* Mutant of OptimizerOk: the text is written, the step is not recorded.
OptimizerOk_Untraced(t) ==
    /\ t[1] = "OPTIMIZER" /\ stage[t] = "llm"
    /\ \E text \in {Empty, t} : TaskOk(t, [ctx EXCEPT !.optimized = text])
    /\ UNCHANGED ragAlive

OptimizerOk(t) ==
    /\ t[1] = "OPTIMIZER" /\ stage[t] = "llm"
    /\ \E text \in {Empty, t} : TaskOk(t, RecordStep([ctx EXCEPT !.optimized = text], t))
    /\ UNCHANGED ragAlive

QaOk(t) ==
    /\ t[1] = "QA" /\ stage[t] = "llm"
    /\ \E text \in {Empty, t} : TaskOk(t, RecordStep([ctx EXCEPT !.final = text], t))
    /\ UNCHANGED ragAlive

\* The step whose modelUsed evaluate() writes into its record, when the judges have
\* answered (mutant: the first step).
EvaluatedStep_First == Head(ctx.steps)

EvaluatedStep == Last(ctx.steps)

AgentStep(t) ==
    \/ AgentFails(t) \/ Fallback(t) \/ ToolsDone(t) \/ PlannerOk(t) \/ MemoryDone(t)
    \/ RagViolation(t) \/ RagDone(t) \/ RagTimeout(t) \/ GeneratorOk(t)
    \/ OptimizerOk(t) \/ QaOk(t)

\* run() is over and so is every task it started.
Over ==
    /\ pc \in {"done", "failed"}
    /\ \A t \in Tasks : stage[t] \notin Running
    /\ UNCHANGED vars

Next ==
    \/ Begin \/ Timeout \/ LatencyBudgetExceeded \/ LateRagViolation
    \/ \E t \in Tasks : AgentStep(t)
    \/ Over

Spec == Init /\ [][Next]_vars

\* run() is called, and the timers of withTimeout fire.
Fairness == WF_vars(Begin) /\ WF_vars(Timeout)

FairSpec == Spec /\ Fairness
----------------------------------------------------------------------------
\* A result without degradation went through all five agents at the first try:
\* nothing was skipped, retried, or left running behind it.
CleanMeansComplete ==
    pc = "done" /\ ~result.degraded =>
        \A r \in Roles : stage[<<r, 1>>] = "ok" /\ stage[<<r, 2>>] = "none"

\* QA never races an Optimizer that timed out: once QA starts, no Optimizer task
\* is left to overwrite the text, and QA reviews the text that is delivered.
QaReviewsDeliveredText ==
    \A n \in {1, 2} : stage[<<"QA", n>>] # "none" =>
        /\ \A m \in {1, 2} : stage[<<"OPTIMIZER", m>>] \notin Running
        /\ reviewed[n] = Or(ctx.optimized, ctx.draft)

\* The agent trace tells who wrote the delivered text: its last OPTIMIZER step
\* is the call whose text is in the context, though an earlier call that timed
\* out may have ended after a later one.
TraceNamesTheAuthor ==
    ctx.optimized # Empty =>
        \E i \in DOMAIN ctx.steps :
            /\ ctx.steps[i] = ctx.optimized
            /\ \A k \in DOMAIN ctx.steps : k > i => ctx.steps[k][1] # "OPTIMIZER"

\* Whatever the judges took and whichever task ended meanwhile, the evaluation of a
\* clean result is attributed to the same step: QA's, which wrote none of the text
\* that is evaluated (evaluation-record.entity.ts calls it the model "that produced
\* the final content").  Only degraded results name another.
CleanAttribution ==
    pc = "done" /\ ~result.degraded =>
        EvaluatedStep = <<"QA", 1>> /\ result.optimized # EvaluatedStep

\* run() ends, whatever the agents do: every agent is raced against a timer.
RunEnds == pc = "waiting" ~> pc \in {"done", "failed"}
=============================================================================

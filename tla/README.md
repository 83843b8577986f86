# A formal model of ai-content-platform

The platform is a NestJS server (several replicas behind a load balancer) that
turns a topic into marketing content: a request creates a job row in Postgres and
a BullMQ entry in Redis, a worker runs five LLM agents over it, tokens and
progress go to the browser over SSE, documents of a brand are indexed in Qdrant
for retrieval, and results are scored and remembered.

Everything here is translated from the TypeScript under `src/src/`. Line numbers
in comments and in `PROJECT.json` are those of the repository.

## 1. Inventory

| Part | State it keeps | Operations | Talks to |
|---|---|---|---|
| Circuit breaker (`llm/circuit-breaker.ts`) | per provider: state, failureCount, openedAt | isOpen (moves OPEN to HALF_OPEN), recordSuccess, recordFailure | called by the router |
| LLM router (`llm/llm-router.service.ts`) | one breaker per registered provider; locals of every request in flight | complete, completeStructured, stream, embed | providers; agents, evaluators, RAG call it |
| Content jobs (`content/content.service.ts`) | `content_jobs` rows | createJob, onModuleInit cleanup | brands, queue |
| Queue (`queue/queue.service.ts`) and BullMQ | queue entries, locks, attempts, stalls | enqueue; delivery, backoff, stall check (external) | Redis |
| Processor (`queue/processors/content-pipeline.processor.ts`) | none of its own; rows, events | process, onFailed | rows, orchestrator, streaming, evaluation |
| Orchestrator and agents (`agents/`) | `AgentContext`: texts, steps, degradation reasons | run, runWithRetry, withTimeout, five agents | router, RAG, memory, streaming |
| Resilience (`resilience/`) | reasons, latency budget | append, isDegraded, isLatencyBudgetExceeded | orchestrator |
| Streaming (`streaming/`) | `streams` map, two timers per entry | openStream, cancel, emit, close, 'close' handler, timers | HTTP responses, processor, agents |
| RAG (`rag/`) | `documents` rows, one Qdrant collection per brand | ingest, processDocument, search, deleteDocument | Postgres, Qdrant, parser, router.embed |
| Brands (`brands/`) | brand rows with isActive and config | create, updateConfig, deactivate: read, change, save | jobs |
| LLM providers (`llm/providers/`) | none; locals of a call | complete, stream, embed over four vendors' SDKs | router, Generator |
| Evaluation, memory | evaluation records, episodic memories, Qdrant points | evaluate, store, recall | processor, researcher |
| Contracts, tools, metrics, tracing | none that steers control | validation, text statistics | all |

What is hard here:

* *one event loop, many requests*: code between two awaits is atomic, anything
  may happen across an await. Breaker, stream map and agent context are shared.
* *abandoned work*: `Promise.race` in the orchestrator and in the researcher drops
  the loser without stopping it; it writes into the shared context later.
* *two stores without a transaction*: Postgres rows and BullMQ entries, Postgres
  rows and Qdrant points; a replica may die between the two writes.
* *redelivery*: BullMQ runs a job again after a lost lock; `process` never looks
  at the row.
* *replicas*: each start cleans up RUNNING rows without knowing who runs them.
* *un-awaited promises*: the update in `onFailed`, `processDocument`, evaluation.
* *read, change, save*: brand updates hold a copy of the row across awaits.
* *four vendors, one interface*: the streams of OpenAI, DashScope, Claude and Gemini
  end, report usage and break off in different ways.

`PROJECT.json` lists these hazards line by line with the properties that cover
them.

## 2. Modules

| Module | Models | Checked by runs |
|---|---|---|
| `CircuitBreaker` | the three methods as operators on a record | (through `LLMRouter`) |
| `LLMRouter` | requests of all four methods over shared breakers | `router`, `router_v_stream` |
| `JobLifecycle` | createJob, enqueue, process, onFailed, start-up cleanup, BullMQ, replicas | `job` |
| `JobStatusMachine` | abstract: what a client may see of a job's status | refined by `JobLifecycle` in `job` |
| `Platform` | `JobLifecycle` composed with one `Streaming` map per replica; tokens of runs and abandoned Generators | `platform` |
| `AgentPipeline` | one orchestrator run, the five agents, the shared context | `pipeline` |
| `Streaming` | StreamingService and its controller in one process | `stream` |
| `RagIngestion` | ingestion and deletion of one brand's documents | `rag`, `rag_v_delete` |
| `EvaluationMemory` | evaluation of finished runs, memory indexing and recall of one brand | `evaluation` |
| `TextSplitter` | the recursive text splitter, as operators | `splitter` |
| `Brands` | create, updateConfig, deactivate of one brand, over TypeORM's save() | `brands` |
| `LLMProviders` | one call of one of the four adapters, and the Generator as its consumer | `providers` |
| `ChunkStream` | abstract: what a subscriber of `ILLMProvider.stream()` relies on | refined by `LLMProviders` in `providers` |
| `Filter` | `Array.prototype.filter`, used by `LLMRouter` and `LLMProviders` | |
| `MCLLMRouter`, `MCJobLifecycle`, `MCPlatform`, `MCEvaluationMemory`, `MCTextSplitter`, `MCBrands` | constants, symmetry and views of the instances | |
| `LLMRouterProofs`, `JobLifecycleProofs`, `AgentPipelineProofs`, `StreamingProofs`, `RagIngestionProofs`, `EvaluationMemoryProofs`, `BrandsProofs`, `LLMProvidersProofs` | theorems about the module of the name; `JobLifecycleProofs` also about `Platform` | |

A definition whose name has an underscore (`IsFinal_Late`) is a deliberately
wrong variant of the definition it names; the runs are known to notice it.
The specifications do not use these.

**LLMRouter.** `breaker` is `circuitBreakers`, `now` is `Date.now()`; `chain`,
`idx`, `attempt`, `tried` are the locals of the request of the same names. `pc`
says where a request is suspended: at a provider's answer or at the backoff
timer. The loop over the chain that skips open circuits has no await and is one
step (`Proceed`); it calls `isOpen`, so a question can move a circuit to HALF_OPEN.
Whether an error is retryable is a free choice per failure. embed has neither
retry nor breaker, as in the code.

**JobLifecycle.** `status`, `attempts`, `result`, `errorMessage` are the row's
columns (`result` and `errorMessage` as "is set"); `qstate`, `attemptsMade`,
`stalls`, `lock` are BullMQ's; a *slot* is one unit of a worker's concurrency with
the place `pc` in `process`; `writes` holds the updates `onFailed` started with
`void` and that have not been executed. A worker whose lock was lost goes on, but
BullMQ ignores its completion and its failure. `main.ts` installs no shutdown
hooks, so SIGTERM and a crash are one action, `Crash`; a restarted replica takes
jobs before its `onModuleInit` has run (`Boot`, then `CleanUp`). `ReactivateBrand` is
what `Brands` shows an overlapping updateConfig can do.

**JobStatusMachine.** QUEUED, RUNNING, RETRYING, DONE and FAILED as README.md draws
them, plus two disturbances that let a finished job move again: `Redo`, for a job the
queue has delivered again after a stall, and `Survive`, for a job that a server start
has called FAILED while somebody was working on it. The refinement mapping keeps the
row's status; `redelivered` are the jobs with stalls, `restarted` says that a replica
has started since.

**Platform.** `EXTENDS JobLifecycle` and instantiates `Streaming` with the entries
`<<replica, job>>`. Steps of both sides that are one piece of code are conjoined
(`ReportDone` is `Report` with `Emit` and `Close`). `runs` and `run` number the
deliveries; a token carries the number of its run. A pipeline that fails may leave its
Generator behind (`abandoned`), which goes on emitting into the entry of its job. A
crash takes the replica's stream map and connections with it. Heartbeats and brand
changes are left out: runs `stream` and `job` have them. `View` in `MCPlatform` hides what
is never read again.

**AgentPipeline.** A task `<<role, n>>` is the n-th call of an agent. `Timeout`
makes `run` stop waiting for its current task and leaves the task running. Texts
are named after their author, so "which text was reviewed / traced / delivered"
is visible without any text. The Generator's tokens are in `Platform` and
`LLMProviders`. `EvaluatedStep` is the step the evaluation of the result will name.

**Streaming.** A client is one response object. `armed` are the responses with
running timers, `hooked` those whose `'close'` handler has not run. Headers are
left out; `received` is what was written.

**RagIngestion.** The `pc` of `processDocument` and `deleteDocument` names the
call they await; every call may fail, or take effect and lose its answer
(`Answered`). `round` tells the two calls of `ensureCollection` apart (one
explicit, one inside `upsert`).

**EvaluationMemory.** An evaluation is one call of `evaluate()`, on any replica; its
`pc` names the call it awaits. The three judges answer in any order; a failed judge
gives the neutral 0.5. Scores are integers (percent, the composite in units of
0.0001), so that the comparison with the threshold is exact. `saved`, `events`,
`indexed` are the Postgres tables, `exists` and `points` the brand's memory
collection. A recall reads the collection between any two of these steps.

**TextSplitter.** A text is a sequence of characters whose letters are all
different, so that a property can say where each one went. `recursiveSplit`,
`mergeChunksWithOverlap` and `getOverlapText` are operators; `Split` calls them once.

**Brands.** A request's `pc` names the database call it awaits. `save()` is two calls,
as in TypeORM: a SELECT of the row, then an UPDATE of the columns in which the entity
differs from it (`Load`, `Stored`). The value of a field is the request that set it;
`before` is a history variable: the requests answered before this one began.

**LLMProviders.** A vendor's answer is the tokens 1, 2, 3...; chunks may have a token or
none, and finish_reason, usage, message_stop, the end of the iterator, a cut connection
and an exception come in every order the SDKs allow. `fullContent` and `usage` are the
Generator's `fullContent` and `finalUsage`. A conversation is a sequence of roles and
indices, put together as each adapter does it. The refinement mapping to `ChunkStream` is
the text, whether a chunk with `done` went through, and the subject's end.

## 3. Runs

Bounds stop growth only: the clock, the number of crashes, lost locks,
heartbeats, chunks. Model-checking explores every interleaving below them.

| Run | Instance | Properties | Shows |
|---|---|---|---|
| `router` | 2 requests, any method; chain of 3 providers, 2 registered; 2 tries; threshold 2; cooldown 1, clock to 2 | `CountMatchesState` `HalfOpenIsTested` `ExhaustedNamesAll` `FallbackIsReported` `HalfOpenFailureReopens` `CoolingProviderGetsNoNewRequest` `RequestsEnd` | breakers agree with their counters in every order of answers, a HALF_OPEN circuit always has a test under way, open circuits get no new request, fallback and exhaustion are reported, requests end |
| `job` | 1 job, 2 replicas with a slot each, 2 attempts, 2 crashes, 1 lock lost by a live worker, failing database calls | `CompletedIsDone` `NoForgottenRun` `AttemptsBounded` `OneOutcomePerDelivery` `ImplementsStatusMachine` `AcceptedJobsSettle` | the row implements `JobStatusMachine` through crashes and redeliveries, agrees with the queue and the cleanup, attempts and outcomes are bounded by the deliveries, an accepted job ends |
| `platform` | the same without lost locks and database faults, 1 client, 2 tokens, row updates as late as they like | `ToldDoneIsSaved` `TokensInRunOrder` `OneOutcomePerClient` | who hears job_done can fetch the result; live runs speak one after the other; a client hears one outcome, and is not cut off by an attempt that is retried |
| `pipeline` | RAG on/off, overloaded or not | `CleanMeansComplete` `QaReviewsDeliveredText` `TraceNamesTheAuthor` `CleanAttribution` `RunEnds` | abandoned agents do no harm to what is delivered, traced and reviewed; clean results are always attributed to the same step |
| `stream` | 1 job, 3 clients, 2 ends of runs | `TimersMatchEntries` `EndedWithAnOutcome` `NoWriteAfterEnd` `EntriesExpire` | timers and entries agree, no write after end, an ended response has its outcome, no entry stays |
| `rag` | 2 documents of 0 or 3 chunks, batches of 2, 1 delete, faults of every service, 1 crash | `ReadyIsSearchable` `DeletedAtRestIsGone` `DocumentsSettle` | READY means completely indexed; deleting a document at rest is complete; processing ends |
| `evaluation` | 2 evaluations, 1 recall, weights and threshold of `configuration.ts`, scores 0.5 and 0.7, faults of every service, 1 crash | `MarkedIsSearchable` `RecalledIsGood` `EvaluationsEnd` | a marked memory is searchable, a recalled one passed the quality gate and has its record, evaluations end whatever fails |
| `splitter` | all texts of up to 6 characters (letters, full stop, space, newline), chunkSize 2 and 3, overlap 0 to 2 | `NothingLost` `WordsIntact` `SizeBounded` | no letter is lost or moved, a word that fits into a chunk is not cut, and a chunk exceeds chunkSize by no more than the overlap and a space |
| `brands` | 4 interchangeable requests, 1 required and 1 optional field, failing database calls | `UpdatesSurvive` `DeactivatedStays` | an acknowledged change is undone only by a request that overlapped it |
| `providers` | each adapter and method, answers of up to 3 tokens, conversations of up to 3 messages, up to 5 texts in batches of 2 | `AnswerIsKept` `PromptArrives` `EmbeddingsAlign` `ImplementsChunkStream` | four vendors' streams look the same to the Generator; text, usage, conversation and vectors arrive whole and in order |

`TypeOK` of a module documents its variables; those of `JobLifecycle`, `AgentPipeline`,
`Streaming`, `RagIngestion`, `EvaluationMemory`, `Brands` and `LLMRouter` are proved.

Why the bounds are enough to meet the interesting cases: two requests and a
threshold of two let one request open a circuit under the other and both test it;
two slots on two replicas give a run a rival, a replica that starts under it and a
redelivery elsewhere; two crashes exceed BullMQ's `maxStalledCount` of 1; three clients of a job
give a late `'close'` of the first, a second that registers meanwhile and a third
that finds the entry taken; three chunks in batches of two need two rounds;
with scores of 0.5 and 0.7 the composite lies on both sides of the threshold and on
it; six characters hold two separators of two characters, and pieces that are
shorter than, equal to and longer than both chunk sizes; four requests are a create, two
that overlap and one before or after them; two tokens are one of each of two runs, in
either order; five texts in batches of two have a full, a last and a short slice; three
messages have a history of two. Jobs share nothing in `JobLifecycle` but the slots and
the cleanup, which treats each row by itself, so one job shows what there is.

### Disagreements between the code and what it says

The runs `router_v_stream` and `rag_v_delete` end in a counterexample, and `PROJECT.json`
quotes the line.

* `router_v_stream`: `stream` forwards the chunks of a provider that fails half-way,
  then those of the next one, "from the first provider that responds".
* `rag_v_delete`: deleting a document that is being processed leaves chunks in the
  index without a row.

Seen while modelling, visible in the models, without a run of their own:

* `content.service.ts:23`, "Any job left RUNNING when the server starts never finished":
  a starting replica marks FAILED the job another replica is running; that job then
  becomes DONE (`Survive` in `JobStatusMachine`: without it the refinement fails).
* `brands.controller.ts:51`, "Deactivate a brand": an updateConfig that read the brand
  before deactivate() and whose save() SELECTs after it finds `isActive` different and
  writes TRUE; of two overlapping updates the later save replaces the whole `config`
  (the exceptions in `DeactivatedStays` and `UpdatesSurvive`).
* README.md:514, "token usage by provider/model/type": OpenAI-style streams may send the
  usage in a chunk after the one with the finish_reason, at which
  `openai.provider.ts:111` and `alibaba.provider.ts:115` leave the loop; the step then
  has zero tokens (`ChatChunk`).
* A connection that ends early completes the stream of every adapter like a whole
  answer; Gemini even marks it done (`IteratorEnds`). Gemini drops messages with the role
  system, which the other adapters keep (`BuildChat`); no agent sends any.
* `evaluation-record.entity.ts:21`, "LLM model that produced the final content": a clean
  result is always attributed to QA, which wrote none of the text that is scored, so
  that `/evaluations/compare` (README.md:190) compares QA models (`CleanAttribution`).
  The Generator's step names CLAUDE also after a fallback (`generator.agent.ts:88`).
* `agent-orchestrator.service.ts:94` takes agent_done's duration from the last step: an
  agent that recorded none reports that of its predecessor.
* The stream map is local and nothing routes a client to the replica that runs its job
  (`.k8s/` has no session affinity): such a client hears nothing but heartbeats until the
  stream's timeout (`Platform`).
* A worker that lost its lock may write RUNNING after the redelivered run has completed
  the job; the row then stays RUNNING until some replica starts and calls it FAILED
  (`NoForgottenRun` and `CompletedIsDone` exclude it).
* `memory.service.ts:12` fixes 1536 dimensions; README.md:536 says to set
  `EMBEDDING_DIMENSION` to 1024 for DashScope, whose vectors the memory collection then
  refuses.

* `content.service.ts:24`, "BullMQ handles its own stalled-job re-queue; this keeps
  Postgres consistent": a job that stalls more than `maxStalledCount` times is failed
  by BullMQ with attempts left; `onFailed` (`content-pipeline.processor.ts:103`)
  compares attempts only and writes RETRYING, for ever (`StalledFail`).
* `streaming.controller.ts:27`, "they'll receive events once registered": the late
  `'close'` of an ended response (`streaming.service.ts:81`) removes the entry of a
  client that registered under its id since, which then hears nothing (`OnClose`).
* README.md:94, "if score >= 0.70 -> embed into episodic memory (Qdrant)": of two
  first evaluations of a brand that both find no collection, the one that creates it
  second fails (`memory.service.ts:160`) and its text is never indexed
  (`CreateCollection` in `EvaluationMemory`).
* `circuit-breaker.ts:7` and README.md:532, "one test request is allowed": in
  HALF_OPEN `isOpen` returns false to everybody.
* `circuit-breaker.ts:6`, "all calls are skipped immediately": a request already in
  its retry loop does not ask again and calls an OPEN provider.
* README.md:281-286 gives the result a `finalContent`; `Assemble` computes it for
  `wordCount` only, and the text QA corrected is in no field of the result.
* README.md:283, "Generator output -- always present": a stream without tokens
  gives an empty draft and the run succeeds.
* `streaming.controller.ts:27`: a second client of a job with an entry gets headers
  and then nothing (`OpenStream` without `Register`).

### Limits of the passing properties

* `AcceptedJobsSettle` excludes jobs that stall too often (above) and, like
  `CompletedIsDone` and `NoForgottenRun`, behaviours in which a live worker lost its lock.
  `job` lets the calls that load the brand and save the result fail, not the
  RUNNING update: if that fails in the last attempt and the process dies before
  `onFailed`'s update lands, the row stays RETRYING, which no cleanup looks for.
* `job` takes un-awaited updates to be faster than the 2 s backoff. With `LateWrites`
  (`platform`) they may overtake the retry: a job of which the client heard job_done may
  show RETRYING for ever (admitted by `ToldDoneIsSaved`).
* `TokensInRunOrder` speaks of runs that are alive: tokens of an abandoned Generator do
  appear between those of later runs.
* `UpdatesSurvive` and `DeactivatedStays` say nothing about requests that overlap.
* The usage part of `AnswerIsKept` holds for Claude and Gemini only.
* `DeletedAtRestIsGone` fails when listing collections may fail (`collectionExists`
  then answers false and the row alone is deleted), and for documents with more
  chunks than the search limit of 10000 (`DeleteLimit`).
* `DocumentsSettle` excludes crashes: nothing resumes a document after a restart.

## 4. Fairness

* `LLMRouter`: an outstanding provider call is answered or fails (the SDKs have
  timeouts) and `setTimeout` fires.
* `JobLifecycle`: `process` goes on (every agent is raced against a timer, see
  `RunEnds`); started updates land while the process lives; the supervisor
  restarts a dead replica; BullMQ delivers waiting jobs to idle workers, ends
  backoffs and checks for stalls. Crashes, lost locks and failures are never fair.
* `AgentPipeline`: only the orchestrator's own timers; agents may hang for ever.
* `Streaming`: only the duration timer of an entry.
* `Platform`, `Brands`, `LLMProviders`: none; their properties are safety.
* `RagIngestion`, `EvaluationMemory`: a call of `processDocument` or `evaluate` is
  answered or rejected.

## 5. Proofs

TLAPS checks them for all values of the constants under the named `ASSUME`s of the
component modules: any number of jobs, replicas, documents, requests or clients, any
bound. The invariants were checked with TLC on the runs' instances before they were
proved. In each module `IInv` is the inductive invariant; one lemma per action, or
per group of actions, shows that a step keeps it.

* `LLMRouterProofs`: `RouterTypes`, `CountMatchesStateHolds`, `HalfOpenIsTestedHolds`,
  `HalfOpenFailureReopensHolds` (for a positive cooldown; with 0 a provider that is
  twice in a chain is asked again in the step in which it failed),
  `CoolingProviderHolds`, `FallbacksAreReported` and `ExhaustedNamesAllHolds`. Invariant: `BreakerTypeOK /\
  CallTypeOK /\ CountMatchesState /\ HalfOpenIsTested`. The counter must be known to
  match the state in order to see that `recordFailure`, which never looks at the state,
  reopens a HALF_OPEN circuit. `ProceedKeeps` shows that the walk along the chain
  leaves a circuit HALF_OPEN only at the provider it then calls. `ReportInv`, for
  `FallbacksAreReported`, says of requests under way that the last provider they reported
  is the one they are at, or none at the head of the chain. `LogInv`, for
  `ExhaustedNamesAllHolds` and the rest of `RouterTypes`, says of them that their tried
  list is what the filter keeps of the chain they have passed; one step filters a further
  stretch of any length, and `KeepConcat` joins the two.
* `JobLifecycleProofs`: `JobTypes`, `RowBeforeQueueHolds`, `AttemptsBoundedHolds`.
  Invariant: these, `ApiInv` (a job is not in the queue before its request got past
  enqueue), `LockInv` (the holder of a lock works on an active job and knows its
  attempt number) and `LeftInv` (a job that may still be delivered has attempts
  left). Stalls repeat a delivery without counting it, which is why the bound on the
  row needs the bound on the worker's copy `made`.
  `OneOutcomePerDeliveryHolds` rests on an account (`OutcomeInv`): outcomes told,
  workers that may still tell one, and the delivery still to come are together at most
  `1 + stalls`; each step that adds to one term takes from another.
  `CompletedIsDoneHolds` and `NoForgottenRunHolds` rest on `CalmInv`: a job of which no
  live worker lost the lock has one worker with the lock, or one pending update and no
  worker, and the row shows accordingly. Hypothesis `~LateWrites`: the update of
  `onFailed` lands before the retry is delivered; otherwise RETRYING may overwrite the
  next attempt.
  `RowsFollowStatusMachine` is the refinement of `JobStatusMachine`: Init maps to Init,
  and every step to a step or a stutter. `TraceInv` says which status a row has for the
  job's place in queue and `process`, up to a restart and as long as it has not stalled.
  Hypotheses: `~LateWrites` (a late RETRYING would be followed by DONE) and
  `"update" \notin DbFaults` (if the RUNNING update fails a QUEUED row becomes RETRYING
  or FAILED at once). The run `job` has both.
* `JobLifecycleProofs`, about `Platform`: `ToldDoneIsSavedHolds`, `OneOutcomePerClientHolds`,
  `TokensInRunOrderHolds`, with late writes and database faults, without hypotheses.
  Every step of `Platform` is one of `JobLifecycle` or leaves the jobs alone
  (`JobsLiveOn`), so `IInv` holds there. `LockedWorker` adds that whoever runs `process` for
  a job of which no live worker lost the lock holds that lock. `EndInv` says what is true
  of row, queue and pending updates from the step before job_done on; `StreamInv` repeats
  the invariant of `StreamingProofs` for the maps of all replicas; `WordInv` says that a
  response is silent while it is open and has one outcome and `done` afterwards, job_done
  only of a job that told it. The first two theorems follow. For the third, `TokenInv` says
  that the run at work is the latest delivery and that a run is over (`Passed`) once its
  Generator is abandoned, and stays so for the tokens heard of it.
* `AgentPipelineProofs`: `PipelineTypes`, `CleanAreComplete`, `QaReviewsTheDelivered`,
  `CleanIsAttributedToQa`, `TraceNamesTheAuthorHolds`. A run without a reason in its context has taken no detour:
  the agents before the current one have ended at their first call, those after it
  have not been called (`ProgressInv`). So nobody is left to overwrite the text when QA
  starts (`QaInv`); `DoneInv` carries this to the result, a snapshot. The last theorem
  needs the types only: an Optimizer, abandoned or not, stores its text and adds its step
  without an await in between.
* `StreamingProofs`: `StreamTypes`, `TimersMatchEntriesHolds`, `NoWriteAfterEndHolds`,
  `EndedHaveAnOutcome`. Invariant: types, `TimersMatchEntries`, `LiveEntries` (no entry
  holds an ended response) and `HookedClients` (what a `'close'` handler still to run
  knows). The outcome is written in the step that ends the response and, since nothing
  is written afterwards, stays its last word.
* `RagIngestionProofs`: `RagTypes`, `ReadyAreSearchable`, `DeletedAtRestAreGone`.
  `DocInv` follows `processDocument`: from the upsert on every chunk is in the index
  unless a delete has removed some. `DelInv` says a delete holds points of its own
  document only. The last theorem needs that nobody adds points to a document at rest
  (`RestInv`), that listing collections does not fail, and that no document has more
  chunks than the search returns (10000 in the code); without either TLC finds a
  document whose points stay.
* `EvaluationMemoryProofs`: `EvaluationTypes`, `MarkedAreSearchable`, `RecalledAreGood`.
  A recall copies what it finds, so every point must be good (`PointInv`); points are
  written calls after the quality gate, so an evaluation on its way there must still
  have the score it was let through with (`PathInv`).
* `BrandsProofs`: `BrandTypes`, `UpdatesAreKept`, `DeactivationIsKept`. A request
  between findById and the UPDATE holds a copy which it will write over the row, so the
  invariant says of every copy what the property says of the row
  (`CopiesKeepUpdates`), and that a row which differs from the one save() SELECTed was
  changed by an overlapping request (`LoadedIsCurrent`).
* `LLMProvidersProofs`: `AnswersAreKept`, `EmbeddingsAreAligned`, `PromptsArrive`,
  `AdaptersStreamChunks` (the refinement of `ChunkStream`). `TextInv` follows the text from the first chunk on,
  `LoopInv` says where in an adapter's loop the chunk with `done` may have gone through,
  `BatchInv` is the loop invariant of embed(). `PromptsArrive` computes what the filters
  find in the three ways to lay out a conversation (`ConversationKept`); Gemini's
  history and last message are all turns because the last turn is the user's
  (`TurnsEnd`).

Two proofs need induction over sequences. The library's induction theorems take an
operator, which the provers cannot instantiate; `Induct`, derived from the well-foundedness
of `<`, takes a *set* of numbers instead, and each use of it is first-order. With it the
recursive function in `Keep` (`Filter`) is shown to have a solution, and one only, from
which follow its equations (`KeepEmpty`, `KeepAppend`) and, by induction on the length,
`KeepSeq`, `KeepConcat` and `KeepAll`. This is why `Keep` takes a set and not, like
`SelectSeq`, an operator. `LLMRouterProofs` and `LLMProvidersProofs` both have these lemmas.

The proof of `RagTypes` found a fault of the model: the `CASE` of `Crash` in
`RagIngestion` had overlapping guards, of which TLC took the intended one.

Only model-checked:

* all liveness: fairness and ENABLED are outside the prover;
* the three properties of `TextSplitter`: it is written with `RECURSIVE` operators, as
  the code is, and a module that declares one is closed to the SMT backend. Rewritten as
  recursive functions `SizeBounded` could be proved like the facts about `Keep`;
  `NothingLost` and `WordsIntact` compare positions across four nested recursions.

## 6. Not modelled

* Tools, parsers, prompts: text statistics, library calls and wording; their outcomes are
  choices.
* Contracts: the schemas decide shapes; where a verdict steers control (enqueue,
  structured output, RAG results) it is a choice.
* `ctx.cancel()` and `deleteCollection` have no caller. Metrics and traces steer
  nothing.
* `getByBrand`, `compareModels`, `getJob`, `listJobs`, `isAvailable`, `findAll`,
  `findBySlug` and the health checks only read.
* Bootstrap, configuration, manifests and scripts: wiring. What they decide is in the
  models as constants (attempts, thresholds, limits) or as the absence of shutdown hooks
  and session affinity.

## 7. Plan

The modules were written in the order of their weight: breaker and router, job
lifecycle, agent pipeline, streaming, RAG, evaluation and memory, splitter; then the
composition of jobs and streams, brands, and the adapters with the two abstract
specifications. The proofs came last: types and the first invariants of router, jobs and
streams, then the invariants of the other components and the two refinements, at last
those of `Platform` and the ones that need filters.

Every invariant and action property of the passing runs but those of `TextSplitter` is
proved. What is left: `SizeBounded` for texts of any length.

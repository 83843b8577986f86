-------------------------- MODULE EvaluationMemory --------------------------
(***************************************************************************)
(* What happens to the text of a finished run: EvaluationService.evaluate  *)
(* with its evaluators (src/evaluation/) and MemoryService (src/memory/).  *)
(*                                                                         *)
(* The processor starts evaluate() and does not wait for it, so the        *)
(* evaluations of a brand's jobs, on any replica, and the recalls of its   *)
(* next runs go on side by side.  They share the brand's rows in Postgres  *)
(* and its memory collection in Qdrant.  A step is what happens up to the  *)
(* next await; the pc names what is awaited.                               *)
(*                                                                         *)
(* Scores are percentages, the composite score is in units of 0.0001.      *)
(*                                                                         *)
(* External: Postgres, Qdrant and the LLM, each of which may reject a call *)
(* or take it and lose the answer.                                         *)
(***************************************************************************)
EXTENDS Integers, FiniteSets, FiniteSetsExt

CONSTANTS Evals,          \* calls of evaluate()
          Recalls,        \* calls of queryRelevant()
          Weights,        \* evaluation.compositeWeights
          Threshold,      \* evaluation.memoryIndexingThreshold
          Scores,         \* what the judges and the cosine similarity answer
          Readabilities,  \* values of result.readabilityScore
          RecallLimit,    \* limit of a recall
          None,
          Faults,         \* the services that may fail
          MaxCrashes      \* bound

Judges == {"relevance", "tone", "factuality"}
Dimensions == Judges \cup {"readability"}

ASSUME ScoresAssumption == Scores \subseteq 0..100 /\ Readabilities \subseteq 0..100
ASSUME WeightsAssumption == Weights \in [Dimensions -> 0..100] /\ Threshold \in 0..10000
ASSUME FaultsAssumption == Faults \subseteq {"db", "llm", "qdrant", "list"}
ASSUME BoundsAssumption == RecallLimit \in Nat /\ MaxCrashes \in Nat
ASSUME NoneAssumption == None \notin Int

VARIABLES pc,        \* of evaluate()
          score,     \* its scores, None until answered
          detected,  \* the tone judge has named a tone
          saved,     \* the composite score in its evaluation_records row, or None
          events,    \* the evaluations with a memory_events row
          indexed,   \* those whose row has qdrantIndexed
          exists,    \* the brand's memory collection exists
          points,    \* its points, one per event
          rpc, recalled,   \* of queryRelevant()
          crashes

evalVars == <<pc, score, detected>>
storeVars == <<saved, events, indexed, exists, points>>
recallVars == <<rpc, recalled>>
vars == <<evalVars, storeVars, recallVars, crashes>>

Indexing == {"exists", "create", "index", "embed", "find", "upsert", "mark"}

TypeOK ==
    /\ pc \in [Evals -> {"idle", "scoring", "save", "remember", "over"} \cup Indexing]
    /\ \A e \in Evals, d \in Dimensions : score[e][d] \in 0..100 \cup {None}
    /\ detected \in [Evals -> BOOLEAN]
    /\ \A e \in Evals : saved[e] \in 0..10000 \cup {None}
    /\ events \subseteq Evals /\ indexed \subseteq Evals /\ points \subseteq Evals
    /\ exists \in BOOLEAN
    /\ rpc \in [Recalls -> {"idle", "exists", "embed", "search", "over"}]
    /\ recalled \in [Recalls -> SUBSET Evals]
    /\ crashes \in 0..MaxCrashes

Init ==
    /\ pc = [e \in Evals |-> "idle"]
    /\ score = [e \in Evals |-> [d \in Dimensions |-> None]]
    /\ detected = [e \in Evals |-> TRUE]
    /\ saved = [e \in Evals |-> None]
    /\ events = {} /\ indexed = {} /\ points = {}
    /\ exists = FALSE
    /\ rpc = [q \in Recalls |-> "idle"]
    /\ recalled = [q \in Recalls |-> {}]
    /\ crashes = 0

Goto(e, l) == pc' = [pc EXCEPT ![e] = l]
----------------------------------------------------------------------------
(* Scoring *)

\* The score of an evaluator whose LLM call failed.
Neutral == 50

\* CompositeEvaluator.score: the weighted sum, clamped to [0, 1].
Composite(s) ==
    LET raw == s.relevance * Weights.relevance + s.tone * Weights.tone
               + s.factuality * Weights.factuality + s.readability * Weights.readability
    IN  Max({0, Min({10000, raw})})

\* EvaluationResultContractV1: scores in [0, 1] and a tone that is not ''.
Contract(s, tone) == tone /\ \A d \in Dimensions : s[d] \in 0..100

\* Where evaluate() goes with the scores it has: Promise.all waits for all three.
Scored(e, s, tone) ==
    /\ score' = [score EXCEPT ![e] = s]
    /\ detected' = [detected EXCEPT ![e] = tone]
    /\ Goto(e, IF \E d \in Judges : s[d] = None THEN "scoring"
               ELSE IF Contract(s, tone) THEN "save" ELSE "over")

\* evaluate() asks the three evaluators; without RAG context the factuality is
\* neutral and no judge is asked.
Evaluate(e) ==
    /\ pc[e] = "idle"
    /\ \E r \in Readabilities, f \in {None, Neutral} :
          Scored(e, [score[e] EXCEPT !.readability = r, !.factuality = f], TRUE)
    /\ UNCHANGED <<storeVars, recallVars, crashes>>

RelevanceScored(e) ==
    /\ pc[e] = "scoring" /\ score[e].relevance = None
    /\ \E v \in Scores \cup {Neutral} :
          Scored(e, [score[e] EXCEPT !.relevance = v], detected[e])
    /\ UNCHANGED <<storeVars, recallVars, crashes>>

\* The judge's schema admits an empty tone; a failed call gives 'UNKNOWN'.
ToneScored(e) ==
    /\ pc[e] = "scoring" /\ score[e].tone = None
    /\ \/ \E v \in Scores, tone \in BOOLEAN :
             Scored(e, [score[e] EXCEPT !.tone = v], tone)
       \/ Scored(e, [score[e] EXCEPT !.tone = Neutral], TRUE)
    /\ UNCHANGED <<storeVars, recallVars, crashes>>

FactualityScored(e) ==
    /\ pc[e] = "scoring" /\ score[e].factuality = None
    /\ \E v \in Scores \cup {Neutral} :
          Scored(e, [score[e] EXCEPT !.factuality = v], detected[e])
    /\ UNCHANGED <<storeVars, recallVars, crashes>>
----------------------------------------------------------------------------
(* Saving the record and the memory *)

\* Whom evaluate() awaits at l.
Service(l) ==
    CASE l \in {"save", "remember", "find", "mark"} -> "db"
      [] l \in {"create", "index", "upsert"} -> "qdrant"
      [] l = "embed" -> "llm"

\* The call e awaits has taken effect: evaluate() goes on at l or, if the answer
\* is lost, ends in its catch block.
Answered(e, l) ==
    \E next \in {l} \cup (IF Service(pc[e]) \in Faults THEN {"over"} ELSE {}) : Goto(e, next)

SaveRecord(e) ==
    /\ pc[e] = "save"
    /\ saved' = [saved EXCEPT ![e] = Composite(score[e])]
    /\ Answered(e, "remember")
    /\ UNCHANGED <<score, detected, events, indexed, exists, points, recallVars, crashes>>

\* compositeScore >= memoryIndexingThreshold (mutant: every memory is indexed).
Gate_Open(e) == TRUE

Gate(e) == Composite(score[e]) >= Threshold

\* MemoryService.record, then the quality gate.
Record(e) ==
    /\ pc[e] = "remember"
    /\ events' = events \cup {e}
    /\ Answered(e, IF Gate(e) THEN "exists" ELSE "over")
    /\ UNCHANGED <<score, detected, saved, indexed, exists, points, recallVars, crashes>>
----------------------------------------------------------------------------
(* MemoryService.embedAndIndex *)

\* Mutant of CheckCollection: wait until somebody has created the collection.
CheckCollection_Waits(e) ==
    /\ pc[e] = "exists"
    /\ IF exists THEN Goto(e, "embed") ELSE UNCHANGED pc
    /\ UNCHANGED <<score, detected, storeVars, recallVars, crashes>>

\* collectionExists: a failing list call counts as "no".
CheckCollection(e) ==
    /\ pc[e] = "exists"
    /\ \/ exists /\ Goto(e, "embed")
       \/ (~exists \/ "list" \in Faults) /\ Goto(e, "create")
    /\ UNCHANGED <<score, detected, storeVars, recallVars, crashes>>

\* Qdrant refuses to create a collection that is there: embedAndIndex throws.
CreateCollection(e) ==
    /\ pc[e] = "create"
    /\ exists' = TRUE
    /\ IF exists THEN Goto(e, "over") ELSE Answered(e, "index")
    /\ UNCHANGED <<score, detected, saved, events, indexed, points, recallVars, crashes>>

CreateIndexes(e) ==
    /\ pc[e] = "index"
    /\ Answered(e, "embed")
    /\ UNCHANGED <<score, detected, storeVars, recallVars, crashes>>

Embed(e) ==
    /\ pc[e] = "embed"
    /\ Answered(e, "find")
    /\ UNCHANGED <<score, detected, storeVars, recallVars, crashes>>

FindEvent(e) ==
    /\ pc[e] = "find"
    /\ Answered(e, IF e \in events THEN "upsert" ELSE "over")
    /\ UNCHANGED <<score, detected, storeVars, recallVars, crashes>>

\* Mutant of Upsert: without wait the point may not be there yet, or ever.
Upsert_NoWait(e) ==
    /\ pc[e] = "upsert"
    /\ Goto(e, "mark")
    /\ UNCHANGED <<score, detected, storeVars, recallVars, crashes>>

Upsert(e) ==
    /\ pc[e] = "upsert"
    /\ points' = points \cup {e}
    /\ Answered(e, "mark")
    /\ UNCHANGED <<score, detected, saved, events, indexed, exists, recallVars, crashes>>

MarkIndexed(e) ==
    /\ pc[e] = "mark"
    /\ indexed' = indexed \cup {e}
    /\ Goto(e, "over")
    /\ UNCHANGED <<score, detected, saved, events, exists, points, recallVars, crashes>>

\* A call is rejected without effect: evaluate() logs and ends.
StepFails(e) ==
    /\ pc[e] \in {"save", "remember"} \cup (Indexing \ {"exists"})
    /\ Service(pc[e]) \in Faults
    /\ Goto(e, "over")
    /\ UNCHANGED <<score, detected, storeVars, recallVars, crashes>>
----------------------------------------------------------------------------
(* MemoryService.queryRelevant *)

RecallGoto(q, l) == rpc' = [rpc EXCEPT ![q] = l]

QueryRelevant(q) ==
    /\ rpc[q] = "idle"
    /\ RecallGoto(q, "exists")
    /\ UNCHANGED <<evalVars, storeVars, recalled, crashes>>

RecallChecks(q) ==
    /\ rpc[q] = "exists"
    /\ \/ exists /\ RecallGoto(q, "embed")
       \/ (~exists \/ "list" \in Faults) /\ RecallGoto(q, "over")
    /\ UNCHANGED <<evalVars, storeVars, recalled, crashes>>

RecallEmbeds(q) ==
    /\ rpc[q] = "embed"
    /\ \E l \in {"search"} \cup (IF "llm" \in Faults THEN {"over"} ELSE {}) : RecallGoto(q, l)
    /\ UNCHANGED <<evalVars, storeVars, recalled, crashes>>

\* The nearest RecallLimit points, or [] when the search fails.
RecallSearches(q) ==
    /\ rpc[q] = "search"
    /\ RecallGoto(q, "over")
    /\ \/ \E S \in SUBSET points :
             /\ Cardinality(S) = Min({RecallLimit, Cardinality(points)})
             /\ recalled' = [recalled EXCEPT ![q] = S]
       \/ "qdrant" \in Faults /\ UNCHANGED recalled
    /\ UNCHANGED <<evalVars, storeVars, crashes>>
----------------------------------------------------------------------------
\* A replica dies with the evaluations it runs; nothing resumes them.
Crash ==
    /\ crashes < MaxCrashes
    /\ crashes' = crashes + 1
    /\ \E E \in SUBSET {e \in Evals : pc[e] \notin {"idle", "over"}} :
          pc' = [e \in Evals |-> IF e \in E THEN "over" ELSE pc[e]]
    /\ UNCHANGED <<score, detected, storeVars, recallVars>>

EvalStep(e) ==
    \/ Evaluate(e) \/ RelevanceScored(e) \/ ToneScored(e) \/ FactualityScored(e)
    \/ SaveRecord(e) \/ Record(e) \/ CheckCollection(e) \/ CreateCollection(e)
    \/ CreateIndexes(e) \/ Embed(e) \/ FindEvent(e) \/ Upsert(e) \/ MarkIndexed(e)
    \/ StepFails(e)

RecallStep(q) == QueryRelevant(q) \/ RecallChecks(q) \/ RecallEmbeds(q) \/ RecallSearches(q)

Over ==
    /\ \A e \in Evals : pc[e] = "over"
    /\ \A q \in Recalls : rpc[q] = "over"
    /\ UNCHANGED vars

Next ==
    \/ \E e \in Evals : EvalStep(e)
    \/ \E q \in Recalls : RecallStep(q)
    \/ Crash \/ Over

Spec == Init /\ [][Next]_vars

\* Every call is answered or rejected in the end.
FairSpec == Spec /\ \A e \in Evals : WF_vars(EvalStep(e))
----------------------------------------------------------------------------
\* memory-event.entity.ts:46 says of qdrantIndexed "Set after embedAndIndex()
\* succeeds": a marked event is in the collection, has its row and its record.
MarkedIsSearchable == indexed \subseteq points /\ points \subseteq events

\* README.md:412, "Memory quality gate": what a recall brings back to a later run
\* has a saved evaluation that reached the threshold, whichever evaluations
\* failed or died half-way.
RecalledIsGood ==
    \A q \in Recalls : \A e \in recalled[q] :
        e \in events /\ saved[e] # None /\ saved[e] >= Threshold

\* Every evaluation ends, whatever fails: evaluate() catches everything and
\* waits for nobody.
EvaluationsEnd == \A e \in Evals : pc[e] = "scoring" ~> pc[e] = "over"
=============================================================================

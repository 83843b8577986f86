----------------------- MODULE EvaluationMemoryProofs -----------------------
(***************************************************************************)
(* Proofs about EvaluationMemory, for any number of evaluations, recalls   *)
(* and crashes, any weights and any failing services.                      *)
(*                                                                         *)
(* RecalledIsGood speaks of a recall and of a row another task wrote long  *)
(* before.  It is not inductive: a recall copies what it finds, so every   *)
(* point must be good (PointInv); a point is written three calls after the *)
(* quality gate, so an evaluation between the gate and its upsert must     *)
(* still be one whose saved score passes (PathInv); and the gate compares  *)
(* the score just saved only because nothing writes the scores of an       *)
(* evaluation that has left Promise.all (PathInv again).                   *)
(***************************************************************************)
EXTENDS EvaluationMemory, TLAPS

\* Where evaluate() has its record saved.
Past == {"remember"} \cup Indexing

\* TypeOK, with score and saved as the functions they are.
Types ==
    /\ pc \in [Evals -> {"idle", "scoring", "save", "remember", "over"} \cup Indexing]
    /\ score \in [Evals -> [Dimensions -> 0..100 \cup {None}]]
    /\ detected \in [Evals -> BOOLEAN]
    /\ saved \in [Evals -> 0..10000 \cup {None}]
    /\ events \subseteq Evals /\ indexed \subseteq Evals /\ points \subseteq Evals
    /\ exists \in BOOLEAN
    /\ rpc \in [Recalls -> {"idle", "exists", "embed", "search", "over"}]
    /\ recalled \in [Recalls -> SUBSET Evals]
    /\ crashes \in 0..MaxCrashes

\* Its record is saved with the scores it still has, and these pass the gate.
Good(e) == e \in events /\ saved[e] = Composite(score[e]) /\ Gate(e)

PathInv ==
    \A e \in Evals :
        /\ pc[e] \in {"save"} \cup Past => \A d \in Dimensions : score[e][d] \in 0..100
        /\ pc[e] \in Past => saved[e] = Composite(score[e])
        /\ pc[e] \in Indexing => Good(e)
        /\ pc[e] = "mark" => e \in points

PointInv ==
    \A e \in points :
        /\ pc[e] \in {"upsert", "mark", "over"}
        /\ Good(e)
        /\ \A d \in Dimensions : score[e][d] \in 0..100

RecallInv ==
    /\ indexed \subseteq points
    /\ \A q \in Recalls : recalled[q] \subseteq points

IInv == Types /\ PathInv /\ PointInv /\ RecallInv
----------------------------------------------------------------------------
\* CompositeEvaluator.score stays in [0, 1], whatever the weights.
LEMMA CompositeBounds ==
    ASSUME NEW s, \A d \in Dimensions : s[d] \in 0..100
    PROVE  Composite(s) \in 0..10000
<1> DEFINE raw == s.relevance * Weights.relevance + s.tone * Weights.tone
                  + s.factuality * Weights.factuality + s.readability * Weights.readability
<1>1. raw \in Int
  <2>1. /\ s.relevance \in Int /\ s.tone \in Int /\ s.factuality \in Int /\ s.readability \in Int
    BY DEF Dimensions, Judges
  <2>2. /\ Weights.relevance \in Int /\ Weights.tone \in Int
        /\ Weights.factuality \in Int /\ Weights.readability \in Int
    BY WeightsAssumption DEF Dimensions, Judges
  <2> QED BY <2>1, <2>2
<1>2. Composite(s) = Max({0, Min({10000, raw})})
  BY DEF Composite
<1> HIDE DEF raw
<1>3. Min({10000, raw}) \in Int
  <2>1. \E x \in {10000, raw} : \A y \in {10000, raw} : x <= y  BY <1>1
  <2> QED BY <2>1, <1>1 DEF Min
<1>4. Min({10000, raw}) <= 10000
  <2>1. \E x \in {10000, raw} : \A y \in {10000, raw} : x <= y  BY <1>1
  <2> QED BY <2>1, <1>1 DEF Min
<1> DEFINE m == Min({10000, raw})
<1> HIDE DEF m
<1>5. Max({0, m}) \in 0..10000
  <2>1. m \in Int /\ m <= 10000  BY <1>3, <1>4 DEF m
  <2>2. \E x \in {0, m} : \A y \in {0, m} : x >= y  BY <2>1
  <2> QED BY <2>1, <2>2 DEF Max
<1> QED BY <1>2, <1>5 DEF m

\* The invariant holds before the first evaluation.
LEMMA InitIInv == Init => IInv
<1> SUFFICES ASSUME Init
             PROVE  IInv
  OBVIOUS
<1>1. Types
  <2>1. score \in [Evals -> [Dimensions -> 0..100 \cup {None}]]
    BY DEF Init
  <2>2. crashes \in 0..MaxCrashes
    BY BoundsAssumption DEF Init
  <2>3. saved \in [Evals -> 0..10000 \cup {None}]
    BY DEF Init
  <2>4. pc \in [Evals -> {"idle", "scoring", "save", "remember", "over"} \cup Indexing]
    BY DEF Init
  <2>5. recalled \in [Recalls -> SUBSET Evals]
    BY DEF Init
  <2>6. exists \in BOOLEAN /\ detected \in [Evals -> BOOLEAN]
    BY DEF Init
  <2>7. /\ events \subseteq Evals /\ indexed \subseteq Evals /\ points \subseteq Evals
        /\ rpc \in [Recalls -> {"idle", "exists", "embed", "search", "over"}]
    BY DEF Init
  <2> QED BY <2>1, <2>2, <2>3, <2>4, <2>5, <2>6, <2>7 DEF Types
<1>2. PathInv
  BY DEF Init, PathInv, Past, Indexing
<1>3. PointInv /\ RecallInv
  BY DEF Init, PointInv, RecallInv
<1> QED BY <1>1, <1>2, <1>3 DEF IInv

\* Setting the scores of an evaluation that has not been saved.
LEMMA ScoredKeeps ==
    ASSUME IInv, NEW e \in Evals, pc[e] \in {"idle", "scoring"},
           NEW s \in [Dimensions -> 0..100 \cup {None}], NEW tone \in BOOLEAN,
           Scored(e, s, tone), UNCHANGED <<storeVars, recallVars, crashes>>
    PROVE  IInv'
<1> USE DEF IInv, storeVars, recallVars
<1>0. e \notin points
  BY DEF PointInv
<1>1. Types'
  BY DEF Types, Scored, Goto
<1>2. \A f \in Evals : f # e => pc'[f] = pc[f] /\ score'[f] = score[f]
  BY DEF Scored, Goto, Types
<1>3. score'[e] = s /\ pc'[e] \in {"scoring", "save", "over"}
      /\ (pc'[e] = "save" => \A d \in Dimensions : s[d] \in 0..100)
  BY DEF Scored, Goto, Types, Contract
<1>4. PathInv'
  BY <1>0, <1>2, <1>3 DEF PathInv, Good, Gate, Past, Indexing
<1>5. PointInv'
  BY <1>0, <1>2, <1>3 DEF PointInv, Good, Gate, Types
<1>6. RecallInv'
  BY DEF RecallInv
<1> QED BY <1>1, <1>4, <1>5, <1>6

\* Any other step of evaluate(): it moves, and may write its own rows and point.
LEMMA EvalKeeps ==
    ASSUME IInv, NEW e \in Evals, EvalStep(e)
    PROVE  IInv'
<1>1. CASE Evaluate(e)
  <2>1. PICK r \in Readabilities, f \in {None, Neutral} :
           Scored(e, [score[e] EXCEPT !.readability = r, !.factuality = f], TRUE)
    BY <1>1 DEF Evaluate
  <2> DEFINE V == 0..100 \cup {None}
             s == [score[e] EXCEPT !.readability = r]
  <2>a. r \in V /\ f \in V
    BY ScoresAssumption DEF Neutral
  <2>b. score[e] \in [Dimensions -> V]
    BY DEF IInv, Types
  <2> HIDE DEF V
  <2>c. s \in [Dimensions -> V]
    BY <2>a, <2>b
  <2>d. [s EXCEPT !.factuality = f] \in [Dimensions -> V]
    BY <2>a, <2>c
  <2>2. [score[e] EXCEPT !.readability = r, !.factuality = f]
           \in [Dimensions -> 0..100 \cup {None}]
    BY <2>d DEF V
  <2> QED BY <1>1, <2>1, <2>2, ScoredKeeps DEF Evaluate
<1>2. CASE RelevanceScored(e)
  <2>1. PICK v \in Scores \cup {Neutral} :
           Scored(e, [score[e] EXCEPT !.relevance = v], detected[e])
    BY <1>2 DEF RelevanceScored
  <2>2. [score[e] EXCEPT !.relevance = v] \in [Dimensions -> 0..100 \cup {None}]
        /\ detected[e] \in BOOLEAN
    BY ScoresAssumption DEF IInv, Types, Neutral
  <2> QED BY <1>2, <2>1, <2>2, ScoredKeeps DEF RelevanceScored
<1>3. CASE ToneScored(e)
  <2>1. PICK v \in Scores \cup {Neutral}, tone \in BOOLEAN :
           Scored(e, [score[e] EXCEPT !.tone = v], tone)
    BY <1>3 DEF ToneScored
  <2>2. [score[e] EXCEPT !.tone = v] \in [Dimensions -> 0..100 \cup {None}]
    BY ScoresAssumption DEF IInv, Types, Neutral
  <2> QED BY <1>3, <2>1, <2>2, ScoredKeeps DEF ToneScored
<1>4. CASE FactualityScored(e)
  <2>1. PICK v \in Scores \cup {Neutral} :
           Scored(e, [score[e] EXCEPT !.factuality = v], detected[e])
    BY <1>4 DEF FactualityScored
  <2>2. [score[e] EXCEPT !.factuality = v] \in [Dimensions -> 0..100 \cup {None}]
        /\ detected[e] \in BOOLEAN
    BY ScoresAssumption DEF IInv, Types, Neutral
  <2> QED BY <1>4, <2>1, <2>2, ScoredKeeps DEF FactualityScored
<1>5. CASE SaveRecord(e)
  <2>1. Composite(score[e]) \in 0..10000
    BY <1>5, CompositeBounds DEF IInv, PathInv, SaveRecord
  <2>a. saved' \in [Evals -> 0..10000 \cup {None}]
    <3> DEFINE c == Composite(score[e])
    <3>1. saved' = [saved EXCEPT ![e] = c]
      BY <1>5 DEF SaveRecord
    <3>2. c \in 0..10000
      BY <2>1
    <3> HIDE DEF c
    <3>3. saved \in [Evals -> 0..10000 \cup {None}]
      BY DEF IInv, Types
    <3> QED BY <3>1, <3>2, <3>3
  <2>b. pc' \in [Evals -> {"idle", "scoring", "save", "remember", "over"} \cup Indexing]
    <3>1. \E l \in {"remember", "over"} : pc' = [pc EXCEPT ![e] = l]
      BY <1>5 DEF SaveRecord, Answered, Goto
    <3> QED BY <3>1 DEF IInv, Types
  <2>c. UNCHANGED <<score, detected, events, indexed, exists, points, recallVars, crashes>>
    BY <1>5 DEF SaveRecord
  <2>2. Types'
    BY <2>a, <2>b, <2>c DEF IInv, Types, recallVars
  <2> USE <1>5 DEF IInv, SaveRecord, Answered, Goto
  <2>3. e \notin points
    BY DEF PointInv
  <2>4. PathInv'
    BY <2>3 DEF PathInv, Good, Gate, Past, Indexing, Types
  <2>5. PointInv'
    BY <2>3 DEF PointInv, Good, Gate, Types
  <2>6. RecallInv'
    BY DEF RecallInv, recallVars
  <2> QED BY <2>2, <2>4, <2>5, <2>6
<1>6. CASE Record(e)
  <2> USE <1>6 DEF IInv, Record, Answered, Goto
  <2>1. Types'
    BY DEF Types, Indexing, recallVars
  <2>2. PathInv'
    BY DEF PathInv, Good, Gate, Past, Indexing, Types
  <2>3. PointInv'
    BY DEF PointInv, Good, Gate, Types
  <2>4. RecallInv'
    BY DEF RecallInv, recallVars
  <2> QED BY <2>1, <2>2, <2>3, <2>4
<1>7. CASE CheckCollection(e) \/ CreateIndexes(e) \/ Embed(e) \/ FindEvent(e) \/ CreateCollection(e)
  <2> DEFINE Move == \E l \in (Indexing \ {"mark"}) \cup {"over"} : pc' = [pc EXCEPT ![e] = l]
  <2>0. /\ UNCHANGED <<score, detected, saved, events, indexed, points, recallVars, crashes>>
        /\ exists' = exists \/ exists' = TRUE
    BY <1>7 DEF CheckCollection, CreateIndexes, Embed, FindEvent, CreateCollection, storeVars
  <2>1. pc[e] \in Indexing \ {"upsert", "mark"} /\ Move
    <3> USE DEF Answered, Goto, Indexing
    <3>1. CASE CheckCollection(e)
      BY <3>1 DEF CheckCollection
    <3>2. CASE CreateIndexes(e)
      BY <3>2 DEF CreateIndexes
    <3>3. CASE Embed(e)
      BY <3>3 DEF Embed
    <3>4. CASE FindEvent(e)
      BY <3>4 DEF FindEvent
    <3>5. CASE CreateCollection(e)
      BY <3>5 DEF CreateCollection
    <3> QED BY <1>7, <3>1, <3>2, <3>3, <3>4, <3>5
  <2>2. PICK l \in (Indexing \ {"mark"}) \cup {"over"} : pc' = [pc EXCEPT ![e] = l]
    BY <2>1
  <2> USE DEF IInv, recallVars
  <2>3. Types'
    <3>1. pc' \in [Evals -> {"idle", "scoring", "save", "remember", "over"} \cup Indexing]
      BY <2>2 DEF Types
    <3>2. exists' \in BOOLEAN
      <4>1. exists \in BOOLEAN
        BY DEF Types
      <4> QED BY <2>0, <4>1, Zenon
    <3> QED BY <2>0, <3>1, <3>2 DEF Types
  <2>4. PathInv'
    BY <2>0, <2>1, <2>2 DEF PathInv, Good, Gate, Past, Indexing, Types
  <2>5. PointInv'
    BY <2>0, <2>1, <2>2 DEF PointInv, Good, Gate, Types, Indexing
  <2>6. RecallInv'
    BY <2>0 DEF RecallInv
  <2> QED BY <2>3, <2>4, <2>5, <2>6
<1>8. CASE Upsert(e)
  <2> USE <1>8 DEF IInv, Upsert, Answered, Goto
  <2>1. Types'
    BY DEF Types, Indexing, recallVars
  <2>2. PathInv'
    BY DEF PathInv, Good, Gate, Past, Indexing, Types
  <2>3. PointInv'
    BY DEF PointInv, PathInv, Past, Indexing, Good, Gate, Types
  <2>4. RecallInv'
    BY DEF RecallInv, recallVars
  <2> QED BY <2>1, <2>2, <2>3, <2>4
<1>9. CASE MarkIndexed(e)
  <2> USE <1>9 DEF IInv, MarkIndexed, Goto
  <2>1. Types'
    BY DEF Types, recallVars
  <2>2. PathInv'
    BY DEF PathInv, Good, Gate, Past, Indexing, Types
  <2>3. PointInv'
    BY DEF PointInv, Good, Gate, Types
  <2>4. RecallInv'
    BY DEF RecallInv, PathInv, recallVars
  <2> QED BY <2>1, <2>2, <2>3, <2>4
<1>10. CASE StepFails(e)
  <2> USE <1>10 DEF IInv, StepFails, Goto, storeVars, recallVars
  <2>1. Types'
    BY DEF Types
  <2>2. PathInv'
    BY DEF PathInv, Good, Gate, Past, Indexing, Types
  <2>3. PointInv'
    BY DEF PointInv, Good, Gate, Types
  <2>4. RecallInv'
    BY DEF RecallInv
  <2> QED BY <2>1, <2>2, <2>3, <2>4
<1> QED
  BY <1>1, <1>2, <1>3, <1>4, <1>5, <1>6, <1>7, <1>8, <1>9, <1>10 DEF EvalStep

\* A recall only reads the collection.
LEMMA RecallKeeps ==
    ASSUME IInv, NEW q \in Recalls, RecallStep(q)
    PROVE  IInv'
<1> USE DEF IInv, evalVars, storeVars
<1>1. UNCHANGED <<evalVars, storeVars, crashes>>
  BY DEF RecallStep, QueryRelevant, RecallChecks, RecallEmbeds, RecallSearches
<1>2. \E l \in {"exists", "embed", "search", "over"} : rpc' = [rpc EXCEPT ![q] = l]
  BY DEF RecallStep, QueryRelevant, RecallChecks, RecallEmbeds, RecallSearches, RecallGoto
<1>3. recalled' = recalled \/ \E S \in SUBSET points : recalled' = [recalled EXCEPT ![q] = S]
  BY DEF RecallStep, QueryRelevant, RecallChecks, RecallEmbeds, RecallSearches
<1>4. Types'
  <2>1. recalled' \in [Recalls -> SUBSET Evals]
    BY <1>3 DEF Types
  <2>2. rpc' \in [Recalls -> {"idle", "exists", "embed", "search", "over"}]
    BY <1>2 DEF Types
  <2> QED BY <1>1, <2>1, <2>2 DEF Types
<1>5. PathInv'
  BY <1>1 DEF PathInv, Good, Gate
<1>6. PointInv'
  BY <1>1 DEF PointInv, Good, Gate
<1>7. RecallInv'
  BY <1>1, <1>3 DEF RecallInv, Types
<1> QED BY <1>4, <1>5, <1>6, <1>7

\* A crash of a replica keeps the invariant.
LEMMA CrashKeeps ==
    ASSUME IInv, Crash
    PROVE  IInv'
<1> USE DEF IInv, Crash, storeVars, recallVars
<1>1. \A e \in Evals : pc'[e] = pc[e] \/ pc'[e] = "over"
  BY DEF Types
<1>2. Types'
  <2>1. crashes' \in 0..MaxCrashes
    BY BoundsAssumption DEF Types
  <2> QED BY <2>1 DEF Types
<1>3. PathInv'
  BY <1>1 DEF PathInv, Good, Gate, Past, Indexing
<1>4. PointInv'
  BY <1>1 DEF PointInv, Good, Gate, Types
<1>5. RecallInv'
  BY DEF RecallInv
<1> QED BY <1>2, <1>3, <1>4, <1>5

\* A step that changes nothing keeps the invariant.
LEMMA StutterKeeps ==
    ASSUME IInv, UNCHANGED vars
    PROVE  IInv'
BY DEF IInv, Types, PathInv, PointInv, RecallInv, Good, Gate,
       vars, evalVars, storeVars, recallVars

\* The invariant holds in every reachable state.
LEMMA Invariance == Spec => []IInv
<1>1. Init => IInv
  BY InitIInv
<1>2. IInv /\ [Next]_vars => IInv'
  BY EvalKeeps, RecallKeeps, CrashKeeps, StutterKeeps DEF Next, Over
<1> QED BY <1>1, <1>2, PTL DEF Spec
----------------------------------------------------------------------------
\* The states of evaluate() and of the stores stay in their types: every saved
\* composite score is in [0, 1].
THEOREM EvaluationTypes == Spec => []TypeOK
<1>1. IInv => TypeOK
  BY DEF IInv, Types, TypeOK
<1> QED BY <1>1, Invariance, PTL

\* Whatever fails, races or dies half-way, an event marked qdrantIndexed is in
\* the collection and every point of the collection has its memory_events row.
THEOREM MarkedAreSearchable == Spec => []MarkedIsSearchable
<1>1. IInv => MarkedIsSearchable
  BY DEF IInv, RecallInv, PointInv, Good, MarkedIsSearchable
<1> QED BY <1>1, Invariance, PTL

\* The quality gate of the memory: a recall only ever brings back texts whose
\* saved composite score reached the threshold.
THEOREM RecalledAreGood == Spec => []RecalledIsGood
<1>1. IInv => RecalledIsGood
  <2> SUFFICES ASSUME IInv, NEW q \in Recalls, NEW e \in recalled[q]
               PROVE  e \in events /\ saved[e] # None /\ saved[e] >= Threshold
    BY DEF RecalledIsGood
  <2>1. e \in points
    BY DEF IInv, RecallInv
  <2>2. Good(e) /\ Composite(score[e]) \in 0..10000
    BY <2>1, CompositeBounds DEF IInv, PointInv
  <2>3. \A i \in 0..10000 : i # None
    BY NoneAssumption
  <2>4. saved[e] \in 0..10000 /\ saved[e] >= Threshold /\ e \in events
    BY <2>2 DEF Good, Gate
  <2> QED BY <2>3, <2>4
<1> QED BY <1>1, Invariance, PTL
=============================================================================

------------------------- MODULE RagIngestionProofs -------------------------
(***************************************************************************)
(* Proofs about RagIngestion, for any number of documents, chunks, deletes *)
(* and crashes and any failing services.                                   *)
(*                                                                         *)
(* ReadyIsSearchable compares a row with the index that another service    *)
(* keeps.  Its invariant follows processDocument (DocInv): from the upsert *)
(* on, every chunk is in the index unless a delete has removed some        *)
(* (Removed), and READY is written by a task that is then at its end.      *)
(* DelInv says that a delete only holds points of its own document.        *)
(* DeletedAtRestIsGone needs RestInv as well: when nobody adds points any  *)
(* more, what the search found is everything.  That is so only if listing  *)
(* the collections cannot fail (collectionExists answers false to a        *)
(* failure) and no document has more chunks than the search returns.       *)
(***************************************************************************)
EXTENDS RagIngestion, FiniteSetTheorems, TLAPS

\* TypeOK, with every variable as the function or relation it is.
Types ==
    /\ status \in [Docs -> {"absent", "PENDING", "CHUNKING", "EMBEDDING", "READY", "FAILED"}]
    /\ pc \in [Docs -> Working \cup {"none", "over"}]
    /\ round \in [Docs -> {1, 2}]
    /\ chunks \in [Docs -> ChunkCounts \cup {0}]
    /\ embedded \in [Docs -> Nat]
    /\ \A d \in Docs : embedded[d] <= chunks[d]
    /\ exists \in BOOLEAN
    /\ points \subseteq Docs \X Nat
    /\ \A p \in points : p[2] \in 1..chunks[p[1]]
    /\ dpc \in [Deletes -> Deleting \cup {"idle", "done", "error", "halfDone"}]
    /\ target \in [Deletes -> Docs \cup {None}]
    /\ found \in [Deletes -> SUBSET (Docs \X Nat)]
    /\ \A x \in Deletes : \A p \in found[x] : p[2] \in 1..chunks[p[1]]
    /\ atRest \in [Deletes -> BOOLEAN]
    /\ crashes \in 0..MaxCrashes

\* Every chunk of d is in the index.
Full(d) == \A i \in 1..chunks[d] : <<d, i>> \in points

\* Where a delete may have removed chunks.
Emptied == {"deleteRow", "halfDone", "done"}
Removed(d) == \E x \in Deletes : target[x] = d /\ dpc[x] \in Emptied

DocInv(d) ==
    /\ pc[d] = "none" => status[d] = "absent"
    /\ pc[d] \in {"none", "markChunking", "parse"} => chunks[d] = 0 /\ embedded[d] = 0
    /\ pc[d] = "markEmbedding" => embedded[d] = 0
    /\ pc[d] \in {"exists", "create", "index", "upsert", "markReady"} => embedded[d] = chunks[d]
    /\ pc[d] \in {"index", "upsert", "markReady"} \/ round[d] = 2 => exists
    /\ status[d] = "READY" => pc[d] \in {"markFailed", "over"} /\ embedded[d] = chunks[d]
    /\ status[d] = "READY" \/ pc[d] = "markReady" => Full(d) \/ Removed(d)

DelInv(x) ==
    /\ dpc[x] = "idle" => found[x] = {} /\ ~atRest[x]
    /\ dpc[x] # "idle" => target[x] \in Docs /\ pc[target[x]] # "none"
    /\ \A p \in found[x] : p[1] = target[x]
    /\ dpc[x] = "done" => status[target[x]] = "absent"
    /\ atRest[x] => pc[target[x]] = "over"

IInv ==
    /\ Types
    /\ \A d \in Docs : DocInv(d)
    /\ \A x \in Deletes : DelInv(x)
    /\ points # {} => exists

RestInv ==
    \A x \in Deletes : atRest[x] =>
        /\ dpc[x] = "deleteChunks" => ChunksOf(target[x]) \subseteq found[x]
        /\ dpc[x] \in Emptied => ChunksOf(target[x]) = {}
----------------------------------------------------------------------------
\* The numbers of chunks and of embedded chunks are natural numbers.
LEMMA Counts ==
    ASSUME IInv, NEW d \in Docs
    PROVE  chunks[d] \in Nat /\ embedded[d] \in Nat
<1>1. chunks[d] \in ChunkCounts \cup {0} /\ embedded[d] \in Nat
  BY DEF IInv, Types
<1>2. ChunkCounts \subseteq Nat /\ 0 \in Nat
  BY CountsAssumption
<1> QED BY <1>1, <1>2

\* The invariant holds before the first upload.
LEMMA InitIInv == Init => IInv
<1> SUFFICES ASSUME Init
             PROVE  IInv
  OBVIOUS
<1>1. Types
  <2>1. /\ status \in [Docs -> {"absent", "PENDING", "CHUNKING", "EMBEDDING", "READY", "FAILED"}]
        /\ pc \in [Docs -> Working \cup {"none", "over"}]
        /\ round \in [Docs -> {1, 2}]
        /\ dpc \in [Deletes -> Deleting \cup {"idle", "done", "error", "halfDone"}]
        /\ target \in [Deletes -> Docs \cup {None}]
    BY DEF Init
  <2>2. /\ chunks \in [Docs -> ChunkCounts \cup {0}]
        /\ embedded \in [Docs -> Nat]
        /\ \A d \in Docs : embedded[d] <= chunks[d]
    BY DEF Init
  <2>3. exists \in BOOLEAN /\ atRest \in [Deletes -> BOOLEAN]
    BY DEF Init
  <2>4. /\ points \subseteq Docs \X Nat
        /\ \A p \in points : p[2] \in 1..chunks[p[1]]
    BY DEF Init
  <2>5. /\ found \in [Deletes -> SUBSET (Docs \X Nat)]
        /\ \A x \in Deletes : \A p \in found[x] : p[2] \in 1..chunks[p[1]]
    BY DEF Init
  <2>6. crashes \in 0..MaxCrashes
    BY CountsAssumption DEF Init
  <2> QED BY <2>1, <2>2, <2>3, <2>4, <2>5, <2>6 DEF Types
<1>2. \A d \in Docs : DocInv(d)
  BY DEF Init, DocInv
<1>3. \A x \in Deletes : DelInv(x)
  BY DEF Init, DelInv
<1> QED BY <1>1, <1>2, <1>3 DEF Init, IInv

\* What a step of processDocument(d) leaves alone keeps the invariant of the
\* other documents and of every delete.
LEMMA ProcessFrame ==
    ASSUME IInv, NEW d \in Docs, Types', DocInv(d)', UNCHANGED delVars,
           \A c \in Docs \ {d} :
               /\ status'[c] = status[c] /\ pc'[c] = pc[c] /\ round'[c] = round[c]
               /\ chunks'[c] = chunks[c] /\ embedded'[c] = embedded[c],
           exists => exists', points \subseteq points', points' # {} => exists',
           pc[d] # "over", pc'[d] # "none",
           status[d] = "absent" => status'[d] = "absent" \/ pc[d] = "none"
    PROVE  IInv'
<1> USE DEF delVars
<1>1. \A c \in Docs : Removed(c) => Removed(c)'
  BY DEF Removed
<1>2. \A c \in Docs \ {d} : Full(c) => Full(c)'
  BY DEF Full
<1>3. \A c \in Docs \ {d} : DocInv(c)'
  BY <1>1, <1>2 DEF IInv, DocInv
<1>4. ASSUME NEW x \in Deletes
      PROVE  DelInv(x)'
  <2>1. DelInv(x)
    BY DEF IInv
  <2>2. CASE target[x] = d
    BY <2>1, <2>2 DEF DelInv
  <2>3. CASE target[x] # d
    <3>1. CASE target[x] \in Docs
      BY <2>1, <2>3, <3>1 DEF DelInv
    <3>2. CASE target[x] \notin Docs
      BY <2>1, <3>2 DEF DelInv
    <3> QED BY <3>1, <3>2
  <2> QED BY <2>2, <2>3
<1> QED BY <1>3, <1>4 DEF IInv

\* The steps that write the row.
LEMMA StatusKeeps ==
    ASSUME IInv, NEW d \in Docs,
           Ingest(d) \/ MarkChunking(d) \/ MarkEmbedding(d) \/ MarkReady(d) \/ MarkFailed(d)
    PROVE  IInv'
<1>0. UNCHANGED <<round, chunks, embedded, exists, points, delVars, crashes>>
  BY DEF Ingest, MarkChunking, MarkEmbedding, MarkReady, MarkFailed
<1>a. \E l \in Working \cup {"over"} : pc' = [pc EXCEPT ![d] = l]
  <2> USE DEF Answered, Goto, Working
  <2>1. CASE Ingest(d)
    BY <2>1 DEF Ingest
  <2>2. CASE MarkChunking(d)
    BY <2>2 DEF MarkChunking
  <2>3. CASE MarkEmbedding(d)
    BY <2>3 DEF MarkEmbedding, NextBatch
  <2>4. CASE MarkReady(d)
    BY <2>4 DEF MarkReady
  <2>5. CASE MarkFailed(d)
    BY <2>5 DEF MarkFailed
  <2> QED BY <2>1, <2>2, <2>3, <2>4, <2>5
<1>b. \E s \in {"absent", "PENDING", "CHUNKING", "EMBEDDING", "READY", "FAILED"} :
         status' = [status EXCEPT ![d] = s]
  BY DEF Ingest, MarkChunking, MarkEmbedding, MarkReady, MarkFailed, UpdateStatus
<1>1. /\ UNCHANGED <<round, chunks, embedded, exists, points, delVars, crashes>>
      /\ \E l \in Working \cup {"over"} : pc' = [pc EXCEPT ![d] = l]
      /\ \E s \in {"absent", "PENDING", "CHUNKING", "EMBEDDING", "READY", "FAILED"} :
             status' = [status EXCEPT ![d] = s]
  BY <1>0, <1>a, <1>b
<1>2. Types'
  BY <1>1 DEF IInv, Types, delVars
<1>3. DocInv(d)'
  <2>0. DocInv(d) /\ Types
    BY DEF IInv
  <2>1. (Full(d) <=> Full(d)') /\ (Removed(d) <=> Removed(d)')
    BY <1>1 DEF Full, Removed, delVars
  <2>2. embedded[d] \in Nat /\ chunks[d] \in Nat
    BY Counts
  <2> HIDE DEF Full, Removed
  <2> USE DEF UpdateStatus, Answered, Goto, NextBatch
  <2>3. CASE Ingest(d)
    BY <1>1, <2>0, <2>1, <2>3 DEF Ingest, DocInv, Types
  <2>4. CASE MarkChunking(d)
    BY <1>1, <2>0, <2>1, <2>4 DEF MarkChunking, DocInv, Types
  <2>5. CASE MarkEmbedding(d)
    BY <1>1, <2>0, <2>1, <2>2, <2>5 DEF MarkEmbedding, DocInv, Types
  <2>6. CASE MarkReady(d)
    BY <1>1, <2>0, <2>1, <2>6 DEF MarkReady, DocInv, Types
  <2>7. CASE MarkFailed(d)
    BY <1>1, <2>0, <2>1, <2>7 DEF MarkFailed, DocInv, Types
  <2> QED BY <2>3, <2>4, <2>5, <2>6, <2>7
<1>4. pc[d] # "over"
  BY DEF Ingest, MarkChunking, MarkEmbedding, MarkReady, MarkFailed
<1>5. /\ pc'[d] # "none"
      /\ status[d] = "absent" => status'[d] = "absent" \/ pc[d] = "none"
      /\ \A c \in Docs \ {d} : status'[c] = status[c] /\ pc'[c] = pc[c]
  <2> USE DEF IInv, Types, UpdateStatus, Goto, Answered, Working, NextBatch
  <2>1. \A c \in Docs \ {d} : status'[c] = status[c] /\ pc'[c] = pc[c]
    BY <1>1
  <2>2. pc'[d] # "none"
    BY <1>1
  <2>3. status[d] = "absent" => status'[d] = "absent" \/ pc[d] = "none"
    BY DEF Ingest, MarkChunking, MarkEmbedding, MarkReady, MarkFailed
  <2> QED BY <2>1, <2>2, <2>3
<1>6. points' # {} => exists'
  BY <1>1 DEF IInv
<1> QED BY <1>1, <1>2, <1>3, <1>4, <1>5, <1>6, ProcessFrame

\* The text is split: the document has no point yet.
LEMMA ParsedKeeps ==
    ASSUME IInv, NEW d \in Docs, Parsed(d)
    PROVE  IInv'
<1>1. PICK n \in ChunkCounts : chunks' = [chunks EXCEPT ![d] = n]
  BY DEF Parsed
<1>2. /\ UNCHANGED <<status, round, embedded, exists, points, delVars, crashes>>
      /\ pc' = [pc EXCEPT ![d] = "markEmbedding"] /\ pc[d] = "parse"
  BY DEF Parsed, Goto
<1>3. chunks[d] = 0 /\ embedded[d] = 0 /\ n \in Nat
  BY <1>2, CountsAssumption DEF IInv, DocInv
<1>4. \A c \in Docs : chunks'[c] >= chunks[c] /\ chunks[c] \in Nat /\ chunks'[c] \in Nat
  <2>1. \A c \in Docs : chunks[c] \in Nat
    BY Counts
  <2>2. chunks'[d] = n /\ \A c \in Docs \ {d} : chunks'[c] = chunks[c]
    BY <1>1 DEF IInv, Types
  <2> QED BY <1>3, <2>1, <2>2
<1>5. Types'
  <2>1. \A p \in Docs \X Nat : p[2] \in 1..chunks[p[1]] => p[2] \in 1..chunks'[p[1]]
    BY <1>4
  <2>2. /\ \A p \in points : p[2] \in 1..chunks'[p[1]]
        /\ \A x \in Deletes : \A p \in found[x] : p[2] \in 1..chunks'[p[1]]
    BY <2>1 DEF IInv, Types
  <2>3. \A c \in Docs : embedded[c] <= chunks'[c]
    BY <1>4 DEF IInv, Types
  <2>4. chunks' \in [Docs -> ChunkCounts \cup {0}]
    BY <1>1 DEF IInv, Types
  <2>5. pc' \in [Docs -> Working \cup {"none", "over"}]
    BY <1>2 DEF IInv, Types, Working
  <2> QED BY <1>2, <2>2, <2>3, <2>4, <2>5 DEF IInv, Types, delVars
<1>6. DocInv(d)'
  <2>1. DocInv(d) /\ status[d] # "READY"
    BY <1>2 DEF IInv, DocInv
  <2> QED BY <1>2, <1>3, <2>1 DEF DocInv, IInv, Types
<1>7. \A c \in Docs \ {d} : chunks'[c] = chunks[c] /\ pc'[c] = pc[c]
  BY <1>1, <1>2 DEF IInv, Types
<1>8. pc'[d] # "none" /\ (points' # {} => exists')
  BY <1>2 DEF IInv, Types
<1> QED BY <1>2, <1>5, <1>6, <1>7, <1>8, ProcessFrame DEF IInv, Types

\* The head of the loop leaves it only when every chunk has its vector.
LEMMA EmbedKeeps ==
    ASSUME IInv, NEW d \in Docs, EmbedBatch(d)
    PROVE  IInv'
<1> DEFINE m == Min({embedded[d] + BatchSize, chunks[d]})
<1>1. /\ UNCHANGED <<status, round, chunks, exists, points, delVars, crashes>>
      /\ embedded' = [embedded EXCEPT ![d] = m]
      /\ pc' = [pc EXCEPT ![d] = NextBatch(embedded'[d], chunks[d])] /\ pc[d] = "embed"
  BY DEF EmbedBatch, Goto
<1>2. embedded[d] \in Nat /\ chunks[d] \in Nat
  BY Counts
<1>3. m \in Nat /\ m <= chunks[d]
  <2> DEFINE k == embedded[d] + BatchSize
  <2>1. k \in Nat
    BY <1>2, CountsAssumption
  <2> HIDE DEF k
  <2>2. \E u \in {k, chunks[d]} : \A v \in {k, chunks[d]} : u <= v
    BY <1>2, <2>1
  <2>3. Min({k, chunks[d]}) \in {k, chunks[d]} /\ Min({k, chunks[d]}) <= chunks[d]
    BY <1>2, <2>1, <2>2 DEF Min
  <2> QED BY <1>2, <2>1, <2>3 DEF k
<1> HIDE DEF m
<1>4. embedded'[d] = m /\ (pc'[d] = "embed" \/ (pc'[d] = "exists" /\ m = chunks[d]))
  <2>1. embedded'[d] = m
    BY <1>1 DEF IInv, Types
  <2>2. pc'[d] = NextBatch(m, chunks[d])
    BY <1>1, <2>1 DEF IInv, Types
  <2>3. m < chunks[d] \/ m = chunks[d]
    BY <1>2, <1>3
  <2> QED BY <1>2, <1>3, <2>1, <2>2, <2>3 DEF NextBatch
<1>5. \A c \in Docs \ {d} : embedded'[c] = embedded[c] /\ pc'[c] = pc[c]
  BY <1>1 DEF IInv, Types
<1>6. Types'
  <2>1. embedded' \in [Docs -> Nat]
    BY <1>1, <1>3 DEF IInv, Types
  <2>2. \A c \in Docs : embedded'[c] <= chunks[c]
    BY <1>3, <1>4, <1>5 DEF IInv, Types
  <2>3. pc' \in [Docs -> Working \cup {"none", "over"}]
    <3>1. NextBatch(embedded'[d], chunks[d]) \in Working
      BY DEF NextBatch, Working
    <3> QED BY <1>1, <3>1 DEF IInv, Types
  <2> QED BY <1>1, <2>1, <2>2, <2>3 DEF IInv, Types, delVars
<1>7. DocInv(d)'
  <2>1. DocInv(d) /\ status[d] # "READY"
    BY <1>1 DEF IInv, DocInv
  <2> QED BY <1>1, <1>3, <1>4, <2>1 DEF DocInv
<1>8. pc'[d] # "none" /\ (points' # {} => exists')
  BY <1>1, <1>4 DEF IInv
<1>9. pc[d] # "over" /\ (exists => exists') /\ points \subseteq points'
      /\ (status[d] = "absent" => status'[d] = "absent")
  BY <1>1
<1> QED BY <1>1, <1>5, <1>6, <1>7, <1>8, <1>9, ProcessFrame

\* ensureCollection, and every rejected call.
LEMMA CollectionKeeps ==
    ASSUME IInv, NEW d \in Docs,
           CheckCollection(d) \/ CreateCollection(d) \/ CreateIndexes(d) \/ StepFails(d)
    PROVE  IInv'
<1>1. /\ UNCHANGED <<status, chunks, embedded, points, delVars, crashes>>
      /\ exists' = exists \/ exists' = TRUE
  BY DEF CheckCollection, CreateCollection, CreateIndexes, StepFails
<1>2. /\ pc[d] \in Working
      /\ \E l \in {"exists", "create", "index", "upsert", "markFailed"} :
             /\ pc' = [pc EXCEPT ![d] = l]
             /\ \/ l = "markFailed" /\ round' = round
                \/ /\ pc[d] \in {"exists", "create", "index"}
                   /\ \/ l = "create" /\ round' = round
                      \/ l = "index" /\ round' = round /\ exists'
                      \/ l \in {"exists", "upsert"} /\ exists' /\ round' = [round EXCEPT ![d] = 2]
  <2>0. DocInv(d)
    BY DEF IInv
  <2>1. CASE CheckCollection(d)
    BY <2>1 DEF CheckCollection, AfterEnsure, Goto, Working
  <2>2. CASE CreateCollection(d)
    BY <2>2 DEF CreateCollection, Answered, Goto, Working
  <2>3. CASE CreateIndexes(d)
    BY <2>0, <2>3 DEF CreateIndexes, AfterEnsure, Goto, Working, DocInv
  <2>4. CASE StepFails(d)
    BY <2>4, FaultsAssumption DEF StepFails, Goto, Working, Service
  <2> QED BY <2>1, <2>2, <2>3, <2>4
<1>3. Types'
  <2>1. pc' \in [Docs -> Working \cup {"none", "over"}]
    BY <1>2 DEF IInv, Types, Working
  <2>2. round' \in [Docs -> {1, 2}]
    BY <1>2 DEF IInv, Types
  <2>3. exists' \in BOOLEAN
    <3>1. exists \in BOOLEAN
      BY DEF IInv, Types
    <3> QED BY <1>1, <3>1, Zenon
  <2> QED BY <1>1, <2>1, <2>2, <2>3 DEF IInv, Types, delVars
<1>4. exists => exists'
  BY <1>1
<1>5. DocInv(d)'
  <2>1. DocInv(d) /\ Types
    BY DEF IInv
  <2>2. status[d] # "READY" \/ pc[d] = "markFailed" \/ pc[d] = "over"
    BY <2>1 DEF DocInv
  <2>3. (Full(d) <=> Full(d)') /\ (Removed(d) <=> Removed(d)')
    BY <1>1 DEF Full, Removed, delVars
  <2> QED BY <1>1, <1>2, <1>4, <2>1, <2>2, <2>3 DEF DocInv, Types, Working
<1>6. \A c \in Docs \ {d} : round'[c] = round[c] /\ pc'[c] = pc[c]
  BY <1>2 DEF IInv, Types
<1>7. pc[d] # "over" /\ pc'[d] # "none"
  BY <1>2 DEF IInv, Types, Working
<1>8. points' # {} => exists'
  BY <1>1, <1>4 DEF IInv
<1> QED BY <1>1, <1>3, <1>4, <1>5, <1>6, <1>7, <1>8, ProcessFrame

\* Writing the points of a document keeps the invariant.
LEMMA UpsertKeeps ==
    ASSUME IInv, NEW d \in Docs, Upsert(d)
    PROVE  IInv'
<1>1. /\ UNCHANGED <<status, round, chunks, embedded, exists, delVars, crashes>>
      /\ points' = points \cup {<<d, i>> : i \in 1..chunks[d]}
      /\ \E l \in {"markReady", "markFailed"} : pc' = [pc EXCEPT ![d] = l]
      /\ pc[d] = "upsert"
  BY DEF Upsert, Answered, Goto
<1>2. chunks[d] \in Nat
  BY Counts
<1>3. Full(d)'
  BY <1>1 DEF Full
<1>4. Types'
  <2>1. pc' \in [Docs -> Working \cup {"none", "over"}]
    BY <1>1 DEF IInv, Types, Working
  <2>2. \A p \in points' : p \in Docs \X Nat /\ p[2] \in 1..chunks[p[1]]
    <3>1. \A p \in points : p \in Docs \X Nat /\ p[2] \in 1..chunks[p[1]]
      BY DEF IInv, Types
    <3>2. \A i \in 1..chunks[d] : i \in Nat /\ <<d, i>>[1] = d /\ <<d, i>>[2] = i
      BY <1>2
    <3> QED BY <1>1, <3>1, <3>2
  <2> QED BY <1>1, <2>1, <2>2 DEF IInv, Types, delVars
<1>5. DocInv(d)'
  <2>1. DocInv(d) /\ status[d] # "READY"
    BY <1>1 DEF IInv, DocInv
  <2> QED BY <1>1, <1>3, <2>1 DEF DocInv, IInv, Types
<1>6. \A c \in Docs \ {d} : pc'[c] = pc[c]
  BY <1>1 DEF IInv, Types
<1>7. exists /\ pc'[d] # "none"
  BY <1>1 DEF IInv, DocInv, Types
<1> QED BY <1>1, <1>4, <1>5, <1>6, <1>7, ProcessFrame
----------------------------------------------------------------------------
\* What a step of deleteDocument leaves alone keeps the invariant of the
\* documents and of the other deletes.
LEMMA DeleteFrame ==
    ASSUME IInv, NEW x \in Deletes, Types', DelInv(x)',
           UNCHANGED <<pc, round, chunks, embedded, exists>>,
           \A y \in Deletes \ {x} :
               /\ dpc'[y] = dpc[y] /\ target'[y] = target[y]
               /\ found'[y] = found[y] /\ atRest'[y] = atRest[y],
           dpc[x] \in Emptied => target'[x] = target[x] /\ dpc'[x] \in Emptied,
           points' \subseteq points,
           \A p \in points \ points' : p[1] = target'[x] /\ dpc'[x] \in Emptied,
           \A d \in Docs : status'[d] = status[d] \/ status'[d] = "absent"
    PROVE  IInv'
<1>1. \A d \in Docs : Removed(d) => Removed(d)'
  BY DEF Removed
<1>2. \A d \in Docs : Full(d) => Full(d)' \/ Removed(d)'
  <2> SUFFICES ASSUME NEW d \in Docs, Full(d), NEW i \in 1..chunks[d], <<d, i>> \notin points'
               PROVE  Removed(d)'
    BY DEF Full
  <2>1. <<d, i>> \in points \ points' /\ <<d, i>>[1] = d
    BY DEF Full
  <2> QED BY <2>1 DEF Removed
<1>3. ASSUME NEW d \in Docs
      PROVE  DocInv(d)'
  <2>1. DocInv(d)
    BY DEF IInv
  <2> QED BY <1>1, <1>2, <2>1 DEF DocInv
<1>4. ASSUME NEW y \in Deletes \ {x}
      PROVE  DelInv(y)'
  <2>1. DelInv(y)
    BY DEF IInv
  <2>2. dpc[y] = "done" => status'[target[y]] = "absent"
    BY <2>1 DEF DelInv
  <2> QED BY <2>1, <2>2 DEF DelInv
<1>5. points' # {} => exists'
  BY DEF IInv
<1> QED BY <1>3, <1>4, <1>5 DEF IInv

\* The start of deleteDocument keeps the invariant.
LEMMA DeleteBegins ==
    ASSUME IInv, NEW x \in Deletes, NEW d \in Docs, Delete(x, d)
    PROVE  IInv'
<1> DEFINE rest == pc[d] = "over"
<1>1. /\ UNCHANGED <<docVars, exists, points, found, crashes>>
      /\ target' = [target EXCEPT ![x] = d]
      /\ atRest' = [atRest EXCEPT ![x] = rest]
      /\ dpc' = [dpc EXCEPT ![x] = "exists"]
      /\ dpc[x] = "idle" /\ status[d] # "absent"
  BY DEF Delete, DelGoto
<1>2. rest \in BOOLEAN /\ (rest => pc[d] = "over")
  OBVIOUS
<1>3. pc[d] # "none"
  BY <1>1 DEF IInv, DocInv
<1> HIDE DEF rest
<1>4. Types'
  <2>1. /\ target' \in [Deletes -> Docs \cup {None}]
        /\ dpc' \in [Deletes -> Deleting \cup {"idle", "done", "error", "halfDone"}]
    BY <1>1 DEF IInv, Types, Deleting
  <2>2. atRest' \in [Deletes -> BOOLEAN]
    BY <1>1, <1>2 DEF IInv, Types
  <2> QED BY <1>1, <2>1, <2>2 DEF IInv, Types, docVars
<1>5. /\ dpc'[x] = "exists" /\ target'[x] = d /\ atRest'[x] = rest
      /\ \A y \in Deletes \ {x} :
            dpc'[y] = dpc[y] /\ target'[y] = target[y] /\ atRest'[y] = atRest[y]
  BY <1>1 DEF IInv, Types
<1>6. found[x] = {}
  BY <1>1 DEF IInv, DelInv
<1>7. DelInv(x)'
  BY <1>1, <1>2, <1>3, <1>5, <1>6 DEF DelInv, docVars
<1> QED BY <1>1, <1>4, <1>5, <1>7, DeleteFrame DEF docVars, Emptied

\* The steps before the search, and every rejected call: the request only moves.
LEMMA DeleteMoves ==
    ASSUME IInv, NEW x \in Deletes,
           DeleteChecks(x) \/ DeleteNone(x) \/ DeleteEmbeds(x) \/ DeleteFails(x)
    PROVE  IInv'
<1>1. UNCHANGED <<docVars, exists, points, target, found, atRest, crashes>>
  BY DEF DeleteChecks, DeleteNone, DeleteEmbeds, DeleteFails
<1>2. /\ dpc[x] \in Deleting
      /\ \E l \in {"deleteNone", "embed", "search", "deleteRow", "halfDone", "error"} :
            /\ dpc' = [dpc EXCEPT ![x] = l]
            /\ dpc[x] = "deleteRow" => l = "halfDone"
  <2> USE DEF DelGoto, Deleting
  <2>1. CASE DeleteChecks(x)
    BY <2>1 DEF DeleteChecks
  <2>2. CASE DeleteNone(x)
    BY <2>2 DEF DeleteNone
  <2>3. CASE DeleteEmbeds(x)
    BY <2>3 DEF DeleteEmbeds
  <2>4. CASE DeleteFails(x)
    BY <2>4, FaultsAssumption DEF DeleteFails, DelService
  <2> QED BY <2>1, <2>2, <2>3, <2>4
<1>3. Types'
  <2>1. dpc' \in [Deletes -> Deleting \cup {"idle", "done", "error", "halfDone"}]
    BY <1>2 DEF IInv, Types, Deleting
  <2> QED BY <1>1, <2>1 DEF IInv, Types, docVars
<1>4. /\ \A y \in Deletes \ {x} : dpc'[y] = dpc[y]
      /\ dpc'[x] \notin {"idle", "done"} /\ dpc[x] # "idle"
      /\ dpc[x] \in Emptied => dpc'[x] \in Emptied
  BY <1>2 DEF IInv, Types, Deleting, Emptied
<1>5. DelInv(x)'
  BY <1>1, <1>4 DEF IInv, DelInv, docVars
<1> QED BY <1>1, <1>3, <1>4, <1>5, DeleteFrame DEF docVars

\* The search for a document's points keeps the invariant.
LEMMA SearchKeeps ==
    ASSUME IInv, NEW x \in Deletes, DeleteSearches(x)
    PROVE  IInv'
<1>1. PICK S \in SUBSET ChunksOf(target[x]) : found' = [found EXCEPT ![x] = S]
  BY DEF DeleteSearches, Matches
<1>2. /\ UNCHANGED <<docVars, exists, points, target, atRest, crashes>>
      /\ dpc[x] = "search"
      /\ \E l \in {"deleteRow", "deleteChunks"} : dpc' = [dpc EXCEPT ![x] = l]
  BY DEF DeleteSearches, DelGoto
<1>3. \A p \in S : p \in points /\ p[1] = target[x]
  BY DEF ChunksOf
<1>4. /\ found'[x] = S /\ dpc'[x] \in {"deleteRow", "deleteChunks"}
      /\ \A y \in Deletes \ {x} : dpc'[y] = dpc[y] /\ found'[y] = found[y]
  BY <1>1, <1>2 DEF IInv, Types
<1>5. Types'
  <2>1. dpc' \in [Deletes -> Deleting \cup {"idle", "done", "error", "halfDone"}]
    BY <1>2 DEF IInv, Types, Deleting
  <2>2. found' \in [Deletes -> SUBSET (Docs \X Nat)]
    <3>1. S \in SUBSET (Docs \X Nat)
      BY <1>3 DEF IInv, Types
    <3> QED BY <1>1, <3>1 DEF IInv, Types
  <2>3. \A y \in Deletes : \A p \in found'[y] : p[2] \in 1..chunks[p[1]]
    BY <1>3, <1>4 DEF IInv, Types
  <2> QED BY <1>2, <2>1, <2>2, <2>3 DEF IInv, Types, docVars
<1>6. DelInv(x)'
  BY <1>2, <1>3, <1>4 DEF IInv, DelInv, docVars
<1> QED BY <1>2, <1>4, <1>5, <1>6, DeleteFrame DEF docVars, Emptied

\* Removing the points that were found keeps the invariant.
LEMMA ChunksKeeps ==
    ASSUME IInv, NEW x \in Deletes, DeleteChunks(x)
    PROVE  IInv'
<1>1. /\ UNCHANGED <<docVars, exists, target, found, atRest, crashes>>
      /\ points' = points \ found[x]
      /\ dpc[x] = "deleteChunks"
      /\ \E l \in {"deleteRow", "halfDone"} : dpc' = [dpc EXCEPT ![x] = l]
  BY DEF DeleteChunks, DelAnswered, DelGoto
<1>2. dpc'[x] \in {"deleteRow", "halfDone"} /\ \A y \in Deletes \ {x} : dpc'[y] = dpc[y]
  BY <1>1 DEF IInv, Types
<1>3. Types'
  <2>1. dpc' \in [Deletes -> Deleting \cup {"idle", "done", "error", "halfDone"}]
    BY <1>1 DEF IInv, Types, Deleting
  <2> QED BY <1>1, <2>1 DEF IInv, Types, docVars
<1>4. DelInv(x)'
  BY <1>1, <1>2 DEF IInv, DelInv, docVars
<1>5. \A p \in points \ points' : p[1] = target'[x]
  BY <1>1 DEF IInv, DelInv
<1> QED BY <1>1, <1>2, <1>3, <1>4, <1>5, DeleteFrame DEF docVars, Emptied

\* Removing the row keeps the invariant.
LEMMA RowKeeps ==
    ASSUME IInv, NEW x \in Deletes, DeleteRow(x)
    PROVE  IInv'
<1>1. /\ UNCHANGED <<pc, round, chunks, embedded, exists, points, target, found, atRest, crashes>>
      /\ status' = [status EXCEPT ![target[x]] = "absent"]
      /\ dpc[x] = "deleteRow"
      /\ \E l \in {"done", "halfDone"} : dpc' = [dpc EXCEPT ![x] = l]
  BY DEF DeleteRow, DelAnswered, DelGoto
<1>2. dpc'[x] \in {"done", "halfDone"} /\ \A y \in Deletes \ {x} : dpc'[y] = dpc[y]
  BY <1>1 DEF IInv, Types
<1>3. target[x] \in Docs
  BY <1>1 DEF IInv, DelInv
<1>4. /\ status'[target[x]] = "absent"
      /\ \A d \in Docs : status'[d] = status[d] \/ status'[d] = "absent"
  BY <1>1, <1>3 DEF IInv, Types
<1>5. Types'
  <2>1. /\ dpc' \in [Deletes -> Deleting \cup {"idle", "done", "error", "halfDone"}]
        /\ status' \in [Docs -> {"absent", "PENDING", "CHUNKING", "EMBEDDING", "READY", "FAILED"}]
    BY <1>1 DEF IInv, Types, Deleting
  <2> QED BY <1>1, <2>1 DEF IInv, Types
<1>6. DelInv(x)'
  BY <1>1, <1>2, <1>4 DEF IInv, DelInv
<1> QED BY <1>1, <1>2, <1>4, <1>5, <1>6, DeleteFrame DEF Emptied

\* The process dies: every task is over, what they wrote stays.
LEMMA CrashKeeps ==
    ASSUME IInv, Crash
    PROVE  IInv'
<1>1. UNCHANGED <<status, round, chunks, embedded, exists, points, target, found, atRest>>
  BY DEF Crash
<1>2. \A d \in Docs : pc'[d] = pc[d] \/ (pc[d] # "none" /\ pc'[d] = "over")
  BY DEF Crash, Working
<1>3. \A x \in Deletes :
         \/ dpc'[x] = dpc[x]
         \/ dpc[x] = "deleteRow" /\ dpc'[x] = "halfDone"
         \/ dpc[x] \notin Emptied \cup {"idle"} /\ dpc'[x] = "error"
  <2> SUFFICES ASSUME NEW x \in Deletes
               PROVE  \/ dpc'[x] = dpc[x]
                      \/ dpc[x] = "deleteRow" /\ dpc'[x] = "halfDone"
                      \/ dpc[x] \notin Emptied \cup {"idle"} /\ dpc'[x] = "error"
    OBVIOUS
  <2>1. dpc'[x] = CASE dpc[x] = "deleteRow" -> "halfDone"
                    [] dpc[x] \in Deleting \ {"deleteRow"} -> "error"
                    [] OTHER -> dpc[x]
    BY DEF Crash
  <2>2. CASE dpc[x] = "deleteRow"
    BY <2>1, <2>2 DEF Deleting
  <2>3. CASE dpc[x] # "deleteRow" /\ dpc[x] \in Deleting
    BY <2>1, <2>3 DEF Deleting, Emptied
  <2>4. CASE dpc[x] # "deleteRow" /\ dpc[x] \notin Deleting
    BY <2>1, <2>4
  <2> QED BY <2>2, <2>3, <2>4
<1>4. Types'
  <2>1. pc' \in [Docs -> Working \cup {"none", "over"}]
    BY DEF Crash, IInv, Types
  <2>2. dpc' \in [Deletes -> Deleting \cup {"idle", "done", "error", "halfDone"}]
    BY DEF Crash, IInv, Types
  <2>3. crashes' \in 0..MaxCrashes
    BY CountsAssumption DEF Crash, IInv, Types
  <2> QED BY <1>1, <2>1, <2>2, <2>3 DEF IInv, Types
<1>5. \A d \in Docs : (Full(d) => Full(d)') /\ (Removed(d) => Removed(d)')
  BY <1>1, <1>3 DEF Full, Removed, Emptied
<1>6. ASSUME NEW d \in Docs
      PROVE  DocInv(d)'
  <2>1. DocInv(d)
    BY DEF IInv
  <2> QED BY <1>1, <1>2, <1>5, <2>1 DEF DocInv
<1>7. ASSUME NEW x \in Deletes
      PROVE  DelInv(x)'
  <2>1. DelInv(x)
    BY DEF IInv
  <2>2. CASE dpc[x] = "idle"
    BY <1>1, <1>3, <2>1, <2>2 DEF DelInv, Emptied
  <2>3. CASE dpc[x] # "idle"
    BY <1>1, <1>2, <1>3, <2>1, <2>3 DEF DelInv, Emptied
  <2> QED BY <2>2, <2>3
<1> QED BY <1>1, <1>4, <1>6, <1>7 DEF IInv

\* A step that changes nothing keeps the invariant.
LEMMA StutterKeeps ==
    ASSUME IInv, UNCHANGED vars
    PROVE  IInv'
<1> USE DEF vars, docVars, delVars
<1>1. Types'
  BY DEF IInv, Types
<1>2. \A d \in Docs : DocInv(d)'
  BY DEF IInv, DocInv, Full, Removed
<1>3. \A x \in Deletes : DelInv(x)'
  BY DEF IInv, DelInv
<1> QED BY <1>1, <1>2, <1>3 DEF IInv

\* Every step keeps the invariant.
LEMMA NextKeeps == IInv /\ [Next]_vars => IInv'
<1> SUFFICES ASSUME IInv, [Next]_vars
             PROVE  IInv'
  OBVIOUS
<1>1. ASSUME NEW d \in Docs, Ingest(d) \/ Process(d)
      PROVE  IInv'
  BY <1>1, StatusKeeps, ParsedKeeps, EmbedKeeps, CollectionKeeps, UpsertKeeps DEF Process
<1>2. ASSUME NEW x \in Deletes, DeleteStep(x) \/ \E d \in Docs : Delete(x, d)
      PROVE  IInv'
  BY <1>2, DeleteBegins, DeleteMoves, SearchKeeps, ChunksKeeps, RowKeeps DEF DeleteStep
<1>3. CASE Crash
  BY <1>3, CrashKeeps
<1>4. CASE Resting \/ UNCHANGED vars
  BY <1>4, StutterKeeps DEF Resting
<1> QED BY <1>1, <1>2, <1>3, <1>4 DEF Next

\* The invariant holds in every reachable state.
LEMMA Invariance == Spec => []IInv
<1> QED BY InitIInv, NextKeeps, PTL DEF Spec
----------------------------------------------------------------------------
\* The points of d are at most its chunks, and a full index has them all.
LEMMA ChunkCount ==
    ASSUME IInv, NEW d \in Docs
    PROVE  /\ IsFiniteSet(ChunksOf(d)) /\ Cardinality(ChunksOf(d)) \in Nat
           /\ Cardinality(ChunksOf(d)) <= chunks[d]
           /\ Full(d) => Cardinality(ChunksOf(d)) = chunks[d]
<1> DEFINE I == 1..chunks[d]
           row == {<<d, i>> : i \in I}
           f == [i \in I |-> <<d, i>>]
<1>1. chunks[d] \in Nat
  BY Counts
<1>2. IsFiniteSet(I) /\ Cardinality(I) = chunks[d]
  BY <1>1, FS_Interval
<1>3. f \in Bijection(I, row)
  BY Zenon DEF Bijection, Injection, Surjection, IsInjective
<1>4. ExistsBijection(I, row)
  BY <1>3, Zenon DEF ExistsBijection
<1>5. IsFiniteSet(row) /\ Cardinality(row) = chunks[d]
  BY <1>2, <1>4, FS_Bijection
<1>6. ChunksOf(d) \subseteq row
  BY DEF ChunksOf, IInv, Types
<1>7. /\ IsFiniteSet(ChunksOf(d)) /\ Cardinality(ChunksOf(d)) <= Cardinality(row)
  BY <1>5, <1>6, FS_Subset
<1>8. ASSUME Full(d)
      PROVE  ChunksOf(d) = row
  BY <1>6, <1>8 DEF ChunksOf, Full
<1> QED BY <1>5, <1>7, <1>8, FS_CardinalityType

\* The rows, the index and the requests stay in their types; no point, found or
\* stored, is beyond the chunks of its document.
THEOREM RagTypes == Spec => []TypeOK
<1>1. ASSUME IInv
      PROVE  TypeOK
  <2>1. \A d \in Docs : embedded[d] \in 0..chunks[d]
    BY <1>1, Counts DEF IInv, Types
  <2>2. \A x \in Deletes : found[x] \subseteq UNION {{d} \X (1..chunks[d]) : d \in Docs}
    <3> SUFFICES ASSUME NEW x \in Deletes, NEW p \in found[x]
                 PROVE  \E d \in Docs : p \in {d} \X (1..chunks[d])
      OBVIOUS
    <3>1. p \in Docs \X Nat /\ p[2] \in 1..chunks[p[1]]
      BY <1>1 DEF IInv, Types
    <3> QED BY <3>1
  <2>3. \A p \in points : p[1] \in Docs /\ p[2] \in 1..chunks[p[1]]
    BY <1>1 DEF IInv, Types
  <2> QED BY <1>1, <2>1, <2>2, <2>3 DEF IInv, Types, TypeOK
<1> QED BY <1>1, Invariance, PTL

\* A READY document that no delete has emptied is in the index with every chunk,
\* whatever other uploads, failures, deletes and crashes do.
THEOREM ReadyAreSearchable == Spec => []ReadyIsSearchable
<1>1. ASSUME IInv
      PROVE  ReadyIsSearchable
  <2> SUFFICES ASSUME NEW d \in Docs, status[d] = "READY",
                      \A x \in Deletes : target[x] = d => dpc[x] \notin {"deleteRow", "halfDone"}
               PROVE  Cardinality(ChunksOf(d)) = chunks[d] /\ embedded[d] = chunks[d]
    BY DEF ReadyIsSearchable
  <2>1. DocInv(d) /\ \A x \in Deletes : DelInv(x)
    BY <1>1 DEF IInv
  <2>2. ~Removed(d)
    BY <2>1 DEF Removed, Emptied, DelInv
  <2>3. Full(d) /\ embedded[d] = chunks[d]
    BY <2>1, <2>2 DEF DocInv
  <2> QED BY <1>1, <2>3, ChunkCount
<1> QED BY <1>1, Invariance, PTL
----------------------------------------------------------------------------
(* Deleting at rest *)

\* What every step of processDocument(d) does to the requests and to the index.
LEMMA ProcessEffect ==
    ASSUME IInv, NEW d \in Docs, Ingest(d) \/ Process(d)
    PROVE  /\ pc[d] # "over"
           /\ UNCHANGED delVars
           /\ \A p \in points' : p \in points \/ p[1] = d
<1>1. CASE Upsert(d)
  BY <1>1 DEF Upsert
<1>2. CASE StepFails(d)
  BY <1>2, FaultsAssumption DEF StepFails, Service
<1>3. CASE ~Upsert(d) /\ ~StepFails(d)
  BY <1>3 DEF Process, Ingest, MarkChunking, Parsed, MarkEmbedding, EmbedBatch,
              CheckCollection, CreateCollection, CreateIndexes, MarkReady, MarkFailed
<1> QED BY <1>1, <1>2, <1>3

\* Below its limit the search of deleteDocument finds every chunk.
LEMMA SearchIsComplete ==
    ASSUME IInv, \A n \in ChunkCounts : n <= DeleteLimit,
           NEW d \in Docs, NEW S \in Matches(d)
    PROVE  S = ChunksOf(d)
<1> DEFINE c == Cardinality(ChunksOf(d))
<1>1. IsFiniteSet(ChunksOf(d)) /\ c \in Nat /\ c <= chunks[d]
  BY ChunkCount
<1>2. chunks[d] \in Nat /\ chunks[d] <= DeleteLimit /\ DeleteLimit \in Nat
  <2>1. chunks[d] \in ChunkCounts \cup {0}
    BY DEF IInv, Types
  <2> QED BY <2>1, Counts, CountsAssumption
<1>3. S \subseteq ChunksOf(d) /\ Cardinality(S) = Min({DeleteLimit, c})
  BY DEF Matches
<1> HIDE DEF c
<1>4. Min({DeleteLimit, c}) = c
  <2>1. c <= DeleteLimit
    BY <1>1, <1>2
  <2> QED BY <1>1, <1>2, <2>1 DEF Min
<1> QED BY <1>1, <1>3, <1>4, FS_Subset DEF c

\* Every step keeps what is known of a document deleted at rest.
LEMMA RestKeeps ==
    ASSUME "list" \notin Faults, \A n \in ChunkCounts : n <= DeleteLimit,
           IInv, RestInv, [Next]_vars
    PROVE  RestInv'
<1> SUFFICES ASSUME NEW x \in Deletes, atRest'[x]
             PROVE  /\ dpc'[x] = "deleteChunks" => ChunksOf(target[x])' \subseteq found'[x]
                    /\ dpc'[x] \in Emptied => ChunksOf(target[x])' = {}
  BY DEF RestInv
<1> DEFINE Same == dpc'[x] = dpc[x] /\ target'[x] = target[x] /\ found'[x] = found[x] /\ atRest[x]
           Fewer == ChunksOf(target[x])' \subseteq ChunksOf(target[x])
<1>0. Same /\ Fewer => /\ dpc'[x] = "deleteChunks" => ChunksOf(target[x])' \subseteq found'[x]
                       /\ dpc'[x] \in Emptied => ChunksOf(target[x])' = {}
  BY DEF RestInv
<1>1. ASSUME NEW d \in Docs, Ingest(d) \/ Process(d)
      PROVE  Same /\ Fewer
  <2>1. Same
    BY <1>1, ProcessEffect DEF delVars
  <2>2. target[x] # d
    BY <1>1, <2>1, ProcessEffect DEF IInv, DelInv
  <2>3. Fewer
    BY <1>1, <2>1, <2>2, ProcessEffect DEF ChunksOf
  <2> QED BY <2>1, <2>3
<1>2. ASSUME NEW y \in Deletes, y # x, DeleteStep(y) \/ \E d \in Docs : Delete(y, d)
      PROVE  Same /\ Fewer
  <2>1. points' \subseteq points
    BY <1>2 DEF DeleteStep, Delete, DeleteChecks, DeleteNone, DeleteEmbeds, DeleteSearches,
                DeleteChunks, DeleteRow, DeleteFails
  <2>2. Same
    <3> USE DEF IInv, Types, DelGoto, DelAnswered
    <3>1. CASE \E d \in Docs : Delete(y, d)
      BY <1>2, <3>1 DEF Delete
    <3>2. CASE DeleteChecks(y) \/ DeleteNone(y) \/ DeleteEmbeds(y) \/ DeleteFails(y)
      BY <1>2, <3>2 DEF DeleteChecks, DeleteNone, DeleteEmbeds, DeleteFails
    <3>3. CASE DeleteSearches(y)
      BY <1>2, <3>3 DEF DeleteSearches
    <3>4. CASE DeleteChunks(y) \/ DeleteRow(y)
      BY <1>2, <3>4 DEF DeleteChunks, DeleteRow
    <3> QED BY <1>2, <3>1, <3>2, <3>3, <3>4 DEF DeleteStep
  <2> QED BY <2>1, <2>2 DEF ChunksOf
<1>3. ASSUME NEW d \in Docs, Delete(x, d)
      PROVE  dpc'[x] = "exists"
  BY <1>3 DEF Delete, DelGoto, IInv, Types
<1>4. CASE DeleteChecks(x)
  <2>1. \/ dpc'[x] = "deleteNone"
        \/ dpc'[x] = "deleteRow" /\ points' = {}
    BY <1>4 DEF DeleteChecks, DelGoto, IInv, Types
  <2> QED BY <2>1 DEF ChunksOf, Emptied
<1>5. CASE DeleteNone(x) \/ DeleteEmbeds(x)
  <2>1. dpc'[x] \in {"embed", "search"}
    BY <1>5 DEF DeleteNone, DeleteEmbeds, DelGoto, IInv, Types
  <2> QED BY <2>1 DEF Emptied
<1>6. CASE DeleteFails(x)
  <2>1. /\ UNCHANGED <<points, target, atRest>>
        /\ dpc'[x] = "error" \/ (dpc'[x] = "halfDone" /\ dpc[x] = "deleteRow")
    BY <1>6 DEF DeleteFails, DelGoto, IInv, Types
  <2> QED BY <2>1 DEF Emptied, RestInv, ChunksOf
<1>7. CASE DeleteSearches(x)
  <2>1. UNCHANGED <<points, target, atRest>> /\ dpc[x] = "search"
    BY <1>7 DEF DeleteSearches
  <2>2. PICK S \in Matches(target[x]) : found' = [found EXCEPT ![x] = S]
    BY <1>7 DEF DeleteSearches
  <2>3. S = ChunksOf(target[x])
    BY <2>1, SearchIsComplete DEF IInv, DelInv
  <2>4. found'[x] = S /\ dpc'[x] = IF found'[x] = {} THEN "deleteRow" ELSE "deleteChunks"
    BY <1>7, <2>2 DEF DeleteSearches, DelGoto, IInv, Types
  <2>5. ChunksOf(target[x])' = S
    BY <2>1, <2>3 DEF ChunksOf
  <2> QED BY <2>4, <2>5 DEF Emptied
<1>8. CASE DeleteChunks(x)
  <2>1. /\ UNCHANGED <<target, found, atRest>> /\ dpc[x] = "deleteChunks"
        /\ points' = points \ found[x] /\ dpc'[x] # "deleteChunks"
    BY <1>8 DEF DeleteChunks, DelAnswered, DelGoto, IInv, Types
  <2>2. ChunksOf(target[x]) \subseteq found[x]
    BY <2>1 DEF RestInv
  <2>3. ChunksOf(target[x])' = {}
    BY <2>1, <2>2 DEF ChunksOf
  <2> QED BY <2>1, <2>3
<1>9. CASE DeleteRow(x)
  <2>1. /\ UNCHANGED <<target, points, atRest>> /\ dpc[x] = "deleteRow"
        /\ dpc'[x] # "deleteChunks"
    BY <1>9 DEF DeleteRow, DelAnswered, DelGoto, IInv, Types
  <2> QED BY <2>1 DEF RestInv, ChunksOf, Emptied
<1>10. CASE Crash
  <2>1. UNCHANGED <<points, target, found, atRest>>
    BY <1>10 DEF Crash
  <2>2. dpc'[x] = CASE dpc[x] = "deleteRow" -> "halfDone"
                    [] dpc[x] \in Deleting \ {"deleteRow"} -> "error"
                    [] OTHER -> dpc[x]
    BY <1>10 DEF Crash
  <2>3. dpc'[x] = dpc[x] \/ dpc'[x] = "error" \/ (dpc'[x] = "halfDone" /\ dpc[x] = "deleteRow")
    BY <2>2
  <2> QED BY <2>1, <2>3 DEF RestInv, ChunksOf, Emptied
<1>11. CASE Resting \/ UNCHANGED vars
  BY <1>0, <1>11 DEF Resting, vars, delVars, ChunksOf
<1>12. ASSUME DeleteStep(x)
       PROVE  /\ dpc'[x] = "deleteChunks" => ChunksOf(target[x])' \subseteq found'[x]
              /\ dpc'[x] \in Emptied => ChunksOf(target[x])' = {}
  BY <1>4, <1>5, <1>6, <1>7, <1>8, <1>9, <1>12 DEF DeleteStep
<1>13. CASE \E y \in Deletes : DeleteStep(y) \/ \E d \in Docs : Delete(y, d)
  <2>1. PICK y \in Deletes : DeleteStep(y) \/ \E d \in Docs : Delete(y, d)
    BY <1>13
  <2>2. CASE y # x
    BY <1>0, <1>2, <2>1, <2>2
  <2>3. CASE y = x
    BY <1>3, <1>12, <2>1, <2>3 DEF Emptied
  <2> QED BY <2>2, <2>3
<1> QED BY <1>0, <1>1, <1>10, <1>11, <1>13 DEF Next

\* A delete that begins when the document's processing is over removes all of
\* it, whatever runs beside it and fails, provided that the document has no more
\* chunks than the limit of the search (10000 in deleteDocument) and that
\* collectionExists() does not take a failing list call for a missing
\* collection.  Without either proviso TLC finds a state with orphaned chunks.
THEOREM DeletedAtRestAreGone ==
    ASSUME "list" \notin Faults, \A n \in ChunkCounts : n <= DeleteLimit
    PROVE  Spec => []DeletedAtRestIsGone
<1>1. Init => RestInv
  BY DEF Init, RestInv
<1>2. IInv /\ RestInv /\ [Next]_vars => RestInv'
  BY RestKeeps
<1>3. IInv /\ RestInv => DeletedAtRestIsGone
  BY DEF IInv, DelInv, RestInv, Emptied, DeletedAtRestIsGone
<1> QED BY <1>1, <1>2, <1>3, Invariance, PTL DEF Spec
=============================================================================

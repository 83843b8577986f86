---------------------------- MODULE RagIngestion ----------------------------
(***************************************************************************)
(* Ingestion and deletion of the documents of one brand: RAGService        *)
(* (src/rag/services/rag.service.ts) over QdrantVectorStore                *)
(* (src/rag/infrastructure/qdrant-vector-store.ts).  Brands have a         *)
(* collection each and share nothing.                                      *)
(*                                                                         *)
(* ingest() answers the request and lets processDocument() run behind it,  *)
(* so several documents are processed, and documents are deleted, in one   *)
(* process at the same time.  A step is what happens up to the next await; *)
(* the pc of a task names what it awaits.                                  *)
(*                                                                         *)
(* External: Postgres, Qdrant, the embedding provider and the parsers,     *)
(* each of which may reject a call.                                        *)
(***************************************************************************)
EXTENDS Integers, FiniteSets, FiniteSetsExt

CONSTANTS Docs,          \* uploads
          Deletes,       \* DELETE requests
          None,
          ChunkCounts,   \* numbers of chunks textSplitter.split may return
          BatchSize,     \* BATCH_SIZE
          DeleteLimit,   \* the limit of deleteDocument's search
          Faults,        \* the services that may fail
          MaxCrashes     \* bound

ASSUME FaultsAssumption == Faults \subseteq {"db", "parser", "llm", "qdrant", "list"}
ASSUME CountsAssumption ==
    ChunkCounts \subseteq Nat /\ BatchSize \in Nat \ {0} /\ DeleteLimit \in Nat /\ MaxCrashes \in Nat
ASSUME NoneAssumption == None \notin Docs

VARIABLES status,     \* of the document's row; "absent" without a row
          pc,         \* of processDocument(doc)
          round,      \* the call of ensureCollection it is in: 1, or 2 in upsert()
          chunks,     \* number of chunks
          embedded,   \* Len(allEmbeddings)
          exists,     \* the brand's collection exists
          points,     \* its points <<doc, chunkIndex>>
          dpc, target, found,   \* of deleteDocument(target)
          atRest,     \* it began when processDocument(target) was over
          crashes

docVars == <<status, pc, round, chunks, embedded>>
delVars == <<dpc, target, found, atRest>>
vars == <<docVars, exists, points, delVars, crashes>>

Working == {"markChunking", "parse", "markEmbedding", "embed", "exists", "create",
            "index", "upsert", "markReady", "markFailed"}
Deleting == {"exists", "deleteNone", "embed", "search", "deleteChunks", "deleteRow"}

TypeOK ==
    /\ status \in [Docs -> {"absent", "PENDING", "CHUNKING", "EMBEDDING", "READY", "FAILED"}]
    /\ pc \in [Docs -> Working \cup {"none", "over"}]
    /\ round \in [Docs -> {1, 2}]
    /\ chunks \in [Docs -> ChunkCounts \cup {0}]
    /\ \A d \in Docs : embedded[d] \in 0..chunks[d]
    /\ exists \in BOOLEAN
    /\ \A p \in points : p[1] \in Docs /\ p[2] \in 1..chunks[p[1]]
    /\ dpc \in [Deletes -> Deleting \cup {"idle", "done", "error", "halfDone"}]
    /\ target \in [Deletes -> Docs \cup {None}]
    /\ \A x \in Deletes : found[x] \subseteq UNION {{d} \X (1..chunks[d]) : d \in Docs}
    /\ atRest \in [Deletes -> BOOLEAN]
    /\ crashes \in 0..MaxCrashes

Init ==
    /\ status = [d \in Docs |-> "absent"]
    /\ pc = [d \in Docs |-> "none"]
    /\ round = [d \in Docs |-> 1]
    /\ chunks = [d \in Docs |-> 0]
    /\ embedded = [d \in Docs |-> 0]
    /\ exists = FALSE /\ points = {}
    /\ dpc = [x \in Deletes |-> "idle"]
    /\ target = [x \in Deletes |-> None]
    /\ found = [x \in Deletes |-> {}]
    /\ atRest = [x \in Deletes |-> FALSE]
    /\ crashes = 0

ChunksOf(d) == {p \in points : p[1] = d}
----------------------------------------------------------------------------
(* processDocument *)

Goto(d, label) == pc' = [pc EXCEPT ![d] = label]

\* A call of svc took effect; its answer may be lost, which the code sees as a
\* rejection and answers in the catch block.
Answered(d, label, svc) ==
    \E next \in {label} \cup (IF svc \in Faults THEN {"markFailed"} ELSE {}) : Goto(d, next)

\* docRepo.update(doc.id, { status }): without a row it changes nothing.
UpdateStatus(d, s) ==
    status' = [status EXCEPT ![d] = IF @ = "absent" THEN @ ELSE s]

Ingest(d) ==
    /\ pc[d] = "none"
    /\ status' = [status EXCEPT ![d] = "PENDING"]
    /\ Goto(d, "markChunking")
    /\ UNCHANGED <<round, chunks, embedded, exists, points, delVars, crashes>>

MarkChunking(d) ==
    /\ pc[d] = "markChunking"
    /\ UpdateStatus(d, "CHUNKING")
    /\ Answered(d, "parse", "db")
    /\ UNCHANGED <<round, chunks, embedded, exists, points, delVars, crashes>>

\* parse() returns; the text is split without a further await.
Parsed(d) ==
    /\ pc[d] = "parse"
    /\ \E n \in ChunkCounts : chunks' = [chunks EXCEPT ![d] = n]
    /\ Goto(d, "markEmbedding")
    /\ UNCHANGED <<status, round, embedded, exists, points, delVars, crashes>>

\* The head of the batch loop: the next await with m vectors of n chunks.
NextBatch(m, n) == IF m < n THEN "embed" ELSE "exists"

MarkEmbedding(d) ==
    /\ pc[d] = "markEmbedding"
    /\ UpdateStatus(d, "EMBEDDING")
    /\ Answered(d, NextBatch(0, chunks[d]), "db")
    /\ UNCHANGED <<round, chunks, embedded, exists, points, delVars, crashes>>

EmbedBatch(d) ==
    /\ pc[d] = "embed"
    /\ embedded' = [embedded EXCEPT ![d] = Min({@ + BatchSize, chunks[d]})]
    /\ Goto(d, NextBatch(embedded'[d], chunks[d]))
    /\ UNCHANGED <<status, round, chunks, exists, points, delVars, crashes>>

\* What follows ensureCollection in its two calls.
AfterEnsure(d, r) ==
    /\ Goto(d, IF r = 1 THEN "exists" ELSE "upsert")
    /\ round' = [round EXCEPT ![d] = 2]

\* ensureCollection: collectionExists answers FALSE when the list fails.
CheckCollection(d) ==
    /\ pc[d] = "exists"
    /\ \/ exists /\ AfterEnsure(d, round[d])
       \/ (~exists \/ "list" \in Faults) /\ Goto(d, "create") /\ UNCHANGED round
    /\ UNCHANGED <<status, chunks, embedded, exists, points, delVars, crashes>>

\* Qdrant refuses to create a collection that exists by now.
CreateCollection(d) ==
    /\ pc[d] = "create"
    /\ exists' = TRUE
    /\ Answered(d, IF exists THEN "markFailed" ELSE "index", "qdrant")
    /\ UNCHANGED <<status, round, chunks, embedded, points, delVars, crashes>>

\* Both createPayloadIndex calls.
CreateIndexes(d) ==
    /\ pc[d] = "index"
    /\ AfterEnsure(d, round[d])
    /\ UNCHANGED <<status, chunks, embedded, exists, points, delVars, crashes>>

\* Mutant of Upsert: the call is not awaited, READY is written before it.
Upsert_NotAwaited(d) ==
    /\ pc[d] = "upsert"
    /\ UpdateStatus(d, "READY")
    /\ Goto(d, "markReady")
    /\ UNCHANGED <<round, chunks, embedded, exists, points, delVars, crashes>>

Upsert(d) ==
    /\ pc[d] = "upsert"
    /\ points' = points \cup {<<d, i>> : i \in 1..chunks[d]}
    /\ Answered(d, "markReady", "qdrant")
    /\ UNCHANGED <<status, round, chunks, embedded, exists, delVars, crashes>>

MarkReady(d) ==
    /\ pc[d] = "markReady"
    /\ UpdateStatus(d, "READY")
    /\ Answered(d, "over", "db")
    /\ UNCHANGED <<round, chunks, embedded, exists, points, delVars, crashes>>

\* The service each step of processDocument depends on.
Service(label) ==
    CASE label \in {"markChunking", "markEmbedding", "markReady"} -> "db"
      [] label = "parse" -> "parser"
      [] label = "embed" -> "llm"
      [] label \in {"create", "index", "upsert"} -> "qdrant"
      [] OTHER -> "none"

\* A call rejects without effect: the catch block writes FAILED.
StepFails(d) ==
    /\ Service(pc[d]) \in Faults
    /\ Goto(d, "markFailed")
    /\ UNCHANGED <<status, round, chunks, embedded, exists, points, delVars, crashes>>

\* Mutant of MarkFailed: the catch block only logs.
MarkFailed_LogsOnly(d) ==
    /\ pc[d] = "markFailed"
    /\ Goto(d, "over")
    /\ UNCHANGED <<status, round, chunks, embedded, exists, points, delVars, crashes>>

MarkFailed(d) ==
    /\ pc[d] = "markFailed"
    /\ UpdateStatus(d, "FAILED")
    /\ Goto(d, "over")
    /\ UNCHANGED <<round, chunks, embedded, exists, points, delVars, crashes>>

\* The process dies, on its own or because the catch block's update rejected
\* (nothing handles the promise ingest() dropped); nothing resumes its tasks.
Crash ==
    /\ crashes < MaxCrashes
    /\ crashes' = crashes + 1
    /\ pc' = [d \in Docs |-> IF pc[d] \in Working THEN "over" ELSE pc[d]]
    /\ dpc' = [x \in Deletes |->
                  CASE dpc[x] = "deleteRow" -> "halfDone"
                    [] dpc[x] \in Deleting \ {"deleteRow"} -> "error"
                    [] OTHER -> dpc[x]]
    /\ UNCHANGED <<status, round, chunks, embedded, exists, points, target, found, atRest>>
----------------------------------------------------------------------------
(* deleteDocument *)

DelGoto(x, label) == dpc' = [dpc EXCEPT ![x] = label]

\* A call of svc took effect; without an answer the request fails.
DelAnswered(x, label, svc) ==
    \E next \in {label} \cup (IF svc \in Faults THEN {"halfDone"} ELSE {}) : DelGoto(x, next)

\* getDocument finds the row.
Delete(x, d) ==
    /\ dpc[x] = "idle"
    /\ status[d] # "absent"
    /\ target' = [target EXCEPT ![x] = d]
    /\ atRest' = [atRest EXCEPT ![x] = pc[d] = "over"]
    /\ DelGoto(x, "exists")
    /\ UNCHANGED <<docVars, exists, points, found, crashes>>

DeleteChecks(x) ==
    /\ dpc[x] = "exists"
    /\ \/ exists /\ DelGoto(x, "deleteNone")
       \/ (~exists \/ "list" \in Faults) /\ DelGoto(x, "deleteRow")
    /\ UNCHANGED <<docVars, exists, points, target, found, atRest, crashes>>

\* delete(collection, []), then embed(filename): neither changes the collection.
DeleteNone(x) ==
    /\ dpc[x] = "deleteNone"
    /\ DelGoto(x, "embed")
    /\ UNCHANGED <<docVars, exists, points, target, found, atRest, crashes>>

DeleteEmbeds(x) ==
    /\ dpc[x] = "embed"
    /\ DelGoto(x, "search")
    /\ UNCHANGED <<docVars, exists, points, target, found, atRest, crashes>>

\* Mutant of Matches: a limit too small.
Matches_Short(d) == {S \in SUBSET ChunksOf(d) : Cardinality(S) = Min({1, Cardinality(ChunksOf(d))})}

\* What a search for the chunks of d may return: DeleteLimit of them at most.
Matches(d) ==
    {S \in SUBSET ChunksOf(d) : Cardinality(S) = Min({DeleteLimit, Cardinality(ChunksOf(d))})}

DeleteSearches(x) ==
    /\ dpc[x] = "search"
    /\ \E S \in Matches(target[x]) : found' = [found EXCEPT ![x] = S]
    /\ DelGoto(x, IF found'[x] = {} THEN "deleteRow" ELSE "deleteChunks")
    /\ UNCHANGED <<docVars, exists, points, target, atRest, crashes>>

DeleteChunks(x) ==
    /\ dpc[x] = "deleteChunks"
    /\ points' = points \ found[x]
    /\ DelAnswered(x, "deleteRow", "qdrant")
    /\ UNCHANGED <<docVars, exists, target, found, atRest, crashes>>

DeleteRow(x) ==
    /\ dpc[x] = "deleteRow"
    /\ status' = [status EXCEPT ![target[x]] = "absent"]
    /\ DelAnswered(x, "done", "db")
    /\ UNCHANGED <<pc, round, chunks, embedded, exists, points, target, found, atRest, crashes>>

DelService(label) ==
    CASE label \in {"deleteNone", "search", "deleteChunks"} -> "qdrant"
      [] label = "embed" -> "llm"
      [] label = "deleteRow" -> "db"
      [] OTHER -> "none"

\* A call rejects without effect: the request fails with what it has done so
\* far ("halfDone": chunks may be gone, the row is not).
DeleteFails(x) ==
    /\ DelService(dpc[x]) \in Faults
    /\ DelGoto(x, IF dpc[x] = "deleteRow" THEN "halfDone" ELSE "error")
    /\ UNCHANGED <<docVars, exists, points, target, found, atRest, crashes>>
----------------------------------------------------------------------------
Process(d) ==
    \/ MarkChunking(d) \/ Parsed(d) \/ MarkEmbedding(d) \/ EmbedBatch(d)
    \/ CheckCollection(d) \/ CreateCollection(d) \/ CreateIndexes(d)
    \/ Upsert(d) \/ MarkReady(d) \/ StepFails(d) \/ MarkFailed(d)

DeleteStep(x) ==
    \/ DeleteChecks(x) \/ DeleteNone(x) \/ DeleteEmbeds(x) \/ DeleteSearches(x)
    \/ DeleteChunks(x) \/ DeleteRow(x) \/ DeleteFails(x)

\* Every upload has been processed and no request is under way.
Resting ==
    /\ \A d \in Docs : pc[d] = "over"
    /\ \A x \in Deletes : dpc[x] \notin Deleting
    /\ UNCHANGED vars

Next ==
    \/ \E d \in Docs : Ingest(d) \/ Process(d)
    \/ \E x \in Deletes : DeleteStep(x) \/ \E d \in Docs : Delete(x, d)
    \/ Crash
    \/ Resting

Spec == Init /\ [][Next]_vars

\* Every call of a service returns or rejects.
FairSpec == Spec /\ \A d \in Docs : WF_vars(Process(d))
----------------------------------------------------------------------------
\* A READY document is in the index with every chunk, each with its vector,
\* unless a delete of that document has already removed its chunks: no other
\* document's ingestion, failure or deletion takes any of them away.
ReadyIsSearchable ==
    \A d \in Docs :
        (status[d] = "READY" /\ \A x \in Deletes :
            target[x] = d => dpc[x] \notin {"deleteRow", "halfDone"})
        => Cardinality(ChunksOf(d)) = chunks[d] /\ embedded[d] = chunks[d]

\* Deleting a document whose processing is over leaves none of its chunks in
\* the index, whatever other documents and deletes are under way.
DeletedAtRestIsGone ==
    \A x \in Deletes :
        (dpc[x] = "done" /\ atRest[x]) =>
            ChunksOf(target[x]) = {} /\ status[target[x]] = "absent"

\* Every uploaded document becomes READY or FAILED, or is deleted, although
\* nobody waits for processDocument(), unless the process dies (nothing resumes
\* the processing after a restart).
DocumentsSettle ==
    \A d \in Docs :
        status[d] = "PENDING" ~>
            status[d] \in {"READY", "FAILED", "absent"} \/ crashes > 0

\* rag.controller.ts:65, "Delete a document and its embeddings": once a document
\* is deleted and its processing is over, no chunk of it is left in the index.
DeletedIsGone ==
    \A x \in Deletes :
        (dpc[x] = "done" /\ pc[target[x]] = "over") => ChunksOf(target[x]) = {}
=============================================================================

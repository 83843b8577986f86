------------------------- MODULE LLMProvidersProofs -------------------------
(***************************************************************************)
(* Proofs about LLMProviders, for answers, conversations and lists of texts*)
(* of any length and any batch size.                                       *)
(*                                                                         *)
(* AnswerIsKept speaks of the end of a call only.  Its invariant follows   *)
(* the text from the first chunk on (TextInv) and says where in the        *)
(* adapter's loop the chunk marked `done` may already have gone through    *)
(* (LoopInv): for Claude alone, whose loop goes on after message_stop, and *)
(* then with the usage.  BatchInv is the loop invariant of embed().        *)
(*                                                                         *)
(* PromptArrives is about the three ways to lay out a conversation: what   *)
(* the filters find in each is computed from how filters and concatenation *)
(* commute (KeepConcat), and SentInv says that the vendor got one of them. *)
(***************************************************************************)
EXTENDS LLMProviders, SequenceTheorems, WellFoundedInduction, TLAPS

Upto(n) == [i \in 1..n |-> i]

Types ==
    /\ call \in {"stream", "complete", "embed"}
    /\ provider \in Providers
    /\ texts \in Nat
    /\ pos \in Nat
    /\ pc \in {"call", "loop", "final", "ended"}
    /\ vendor \in {"talking", "stopped", "cut"}
    /\ said \in Nat
    /\ finished \in BOOLEAN
    /\ usage \in BOOLEAN
    /\ outcome \in {"open", "complete", "error"}

TextInv ==
    /\ outcome = "open" <=> pc # "ended"
    /\ outcome # "error" => fullContent = Upto(said)

LoopInv ==
    /\ pc \in {"loop", "final"} => call = "stream"
    /\ pc = "call" => vendor = "talking" /\ ~finished /\ said = 0
    /\ pc = "loop" => \/ vendor = "talking" /\ ~finished
                      \/ provider = "claude" /\ vendor = "stopped" /\ finished /\ usage
    /\ pc = "final" => /\ provider \notin ChatApi /\ ~finished /\ vendor # "talking"
                       /\ provider = "claude" => vendor = "stopped"
    /\ call # "stream" => vendor # "cut" /\ ~finished
    /\ outcome = "complete" /\ call # "embed" /\ vendor = "stopped" /\ provider \notin ChatApi => usage

BatchInv ==
    call = "embed" => /\ vectors = Upto(Least(pos, texts))
                      /\ outcome = "complete" => pos >= texts

IInv == Types /\ TextInv /\ LoopInv /\ BatchInv
----------------------------------------------------------------------------
\* The next b numbers after 1..a.
LEMMA UptoConcat ==
    ASSUME NEW a \in Nat, NEW b \in Nat
    PROVE  Upto(a) \o [k \in 1..b |-> a + k] = Upto(a + b)
<1> DEFINE s == Upto(a)
           t == [k \in 1..b |-> a + k]
           u == Upto(a + b)
<1>1. s \in Seq(Nat) /\ t \in Seq(Nat) /\ u \in Seq(Nat)
  BY DEF Upto
<1>2. Len(s) = a /\ Len(t) = b /\ Len(u) = a + b
  BY DEF Upto
<1>3. s \o t \in Seq(Nat) /\ Len(s \o t) = a + b
  BY <1>1, <1>2, ConcatProperties
<1>4. ASSUME NEW i \in 1..(a + b) PROVE (s \o t)[i] = u[i]
  <2>1. (s \o t)[i] = IF i <= a THEN s[i] ELSE t[i - a]
    BY <1>1, <1>2, ConcatProperties
  <2>2. QED
    BY <2>1 DEF Upto
<1>5. QED
  BY <1>1, <1>2, <1>3, <1>4, SeqEqual

\* A chunk with the next token, or with none, extends the text by what was said.
LEMMA NextToken ==
    ASSUME NEW some \in BOOLEAN, said \in Nat, fullContent = Upto(said), Says(some)
    PROVE  /\ said' \in Nat
           /\ fullContent \o Token(some) = Upto(said')
           /\ fullContent \o Token(some) \in {fullContent, Append(fullContent, Len(fullContent) + 1)}
<1>0. fullContent \in Seq(Nat) /\ Len(fullContent) = said
  BY DEF Upto
<1>1. CASE some
  <2>1. Token(some) = [k \in 1..1 |-> said + k] /\ said' = said + 1
    BY <1>1 DEF Token, Says
  <2>2. fullContent \o Token(some) = Upto(said + 1)
    BY <2>1, UptoConcat
  <2>3. fullContent \o Token(some) = Append(fullContent, Len(fullContent) + 1)
    BY <1>0, <1>1 DEF Token
  <2>4. QED
    BY <2>1, <2>2, <2>3
<1>2. CASE ~some
  <2>1. Token(some) = <<>> /\ said' = said
    BY <1>2 DEF Token, Says
  <2>2. fullContent \o <<>> = fullContent
    BY <1>0
  <2>3. QED
    BY <2>1, <2>2
<1>3. QED
  BY <1>1, <1>2

\* A chunk passed on while the loop runs.
LEMMA ConsumeKeeps ==
    ASSUME IInv, pc = "loop", vendor = "talking",
           NEW some \in BOOLEAN, NEW done \in BOOLEAN, NEW counted \in BOOLEAN, Says(some),
           Consume(Token(some), done, counted), Unchanged,
           \/ ~done /\ UNCHANGED <<pc, vendor, outcome>>
           \/ done /\ provider \in ChatApi /\ vendor' = "stopped" /\ Ends("complete")
    PROVE  IInv'
<1> USE DEF IInv
<1>0. fullContent = Upto(said) /\ ~finished /\ call = "stream"
  BY DEF TextInv, LoopInv
<1>1. said' \in Nat /\ fullContent' = Upto(said')
  BY <1>0, NextToken DEF Types, Consume
<1>2. finished' = done /\ finished' \in BOOLEAN /\ usage' \in BOOLEAN
  BY <1>0 DEF Consume
<1>3. Types'
  BY <1>1, <1>2 DEF Types, Unchanged, Ends
<1>4. TextInv'
  BY <1>1 DEF TextInv, Ends
<1>5. LoopInv'
  BY <1>0, <1>2 DEF LoopInv, Unchanged, Ends
<1>6. BatchInv'
  BY <1>0 DEF BatchInv, Unchanged
<1>7. QED
  BY <1>3, <1>4, <1>5, <1>6

\* One step per operation of the adapters.
LEMMA NextIInv == IInv /\ [Next]_vars => IInv'
<1> SUFFICES ASSUME IInv, [Next]_vars PROVE IInv'
  OBVIOUS
<1> USE DEF IInv
<1>1. CASE OpenStream
  BY <1>1 DEF OpenStream, streamVars, Types, TextInv, LoopInv, BatchInv
<1>2. CASE ChatChunk
  <2>1. pc = "loop" /\ vendor = "talking" /\ provider \in ChatApi
    BY <1>2 DEF ChatChunk, LoopInv, ChatApi
  <2>2. PICK some, finish, counted \in BOOLEAN :
          /\ Says(some) /\ vendor' = IF finish THEN "stopped" ELSE vendor
          /\ PassOn(Token(some), finish, counted)
    BY <1>2 DEF ChatChunk
  <2>3. Unchanged
    BY <1>2 DEF ChatChunk
  <2>4. QED
    BY <2>1, <2>2, <2>3, ConsumeKeeps DEF PassOn
<1>3. CASE ClaudeEvent
  <2>1. PICK some \in BOOLEAN : Says(some) /\ Consume(Token(some), FALSE, FALSE)
    BY <1>3 DEF ClaudeEvent
  <2>2. QED
    BY <1>3, <2>1, ConsumeKeeps DEF ClaudeEvent
<1>4. CASE GeminiChunk
  <2>1. PICK some \in BOOLEAN : Says(some) /\ Consume(Token(some), FALSE, FALSE)
    BY <1>4 DEF GeminiChunk
  <2>2. vendor = "talking"
    BY <1>4 DEF GeminiChunk, LoopInv
  <2>3. QED
    BY <1>4, <2>1, <2>2, ConsumeKeeps DEF GeminiChunk
<1>5. CASE ClaudeStop
  BY <1>5 DEF ClaudeStop, Unchanged, ChatApi, Types, TextInv, LoopInv, BatchInv
<1>6. CASE GeminiTextThrows
  <2>1. Types'
    BY <1>6 DEF GeminiTextThrows, Says, Ends, Unchanged, Types
  <2>2. TextInv' /\ LoopInv' /\ BatchInv'
    BY <1>6 DEF GeminiTextThrows, Ends, Unchanged, TextInv, LoopInv, BatchInv
  <2>3. QED
    BY <2>1, <2>2
<1>7. CASE IteratorEnds
  <2>1. Types'
    BY <1>7 DEF IteratorEnds, Ends, Unchanged, Types
  <2>2. TextInv'
    BY <1>7 DEF IteratorEnds, Ends, TextInv
  <2>3. BatchInv'
    BY <1>7 DEF IteratorEnds, Unchanged, LoopInv, BatchInv
  <2>4. LoopInv'
    <3>1. /\ pc = "loop" /\ call = "stream" /\ call' = call /\ provider' = provider
          /\ finished' = finished /\ usage' = usage
      BY <1>7 DEF IteratorEnds, Unchanged, LoopInv
    <3>2. CASE provider = "gemini"
      BY <1>7, <3>1, <3>2 DEF IteratorEnds, LoopInv, TextInv, ChatApi
    <3>3. CASE provider # "gemini"
      <4>1. pc' = "ended" /\ (vendor' = "stopped" => vendor = "stopped")
        BY <1>7, <3>3 DEF IteratorEnds, Ends
      <4>2. QED
        BY <3>1, <4>1 DEF LoopInv
    <3>4. QED
      BY <3>2, <3>3
  <2>5. QED
    BY <2>1, <2>2, <2>3, <2>4
<1>8. CASE FinalResolves
  <2>1. fullContent' = fullContent /\ finished' /\ usage' /\ said' = said /\ fullContent = Upto(said)
    <3>1. fullContent = Upto(said)
      BY <1>8 DEF FinalResolves, TextInv
    <3>2. fullContent \o <<>> = fullContent
      BY <3>1 DEF Upto, Types
    <3>3. QED
      BY <1>8, <3>1, <3>2 DEF FinalResolves, Consume
  <2>2. finished' = TRUE /\ usage' = TRUE
    BY <1>8 DEF FinalResolves, Consume
  <2>3. Types'
    BY <1>8, <2>1, <2>2 DEF FinalResolves, Ends, Unchanged, Types
  <2>4. TextInv'
    BY <1>8, <2>1 DEF FinalResolves, Ends, TextInv
  <2>5. LoopInv' /\ BatchInv'
    BY <1>8, <2>1 DEF FinalResolves, Ends, Unchanged, LoopInv, BatchInv, ChatApi, Types, Providers
  <2>6. QED
    BY <2>3, <2>4, <2>5
<1>9. CASE Rejects
  BY <1>9 DEF Rejects, Ends, Unchanged, streamVars, Types, TextInv, LoopInv, BatchInv
<1>10. CASE CompleteAnswers
  <2>1. PICK n \in 0..MaxTokens : said' = n /\ fullContent' = [i \in 1..n |-> i]
    BY <1>10 DEF CompleteAnswers
  <2>2. Types'
    BY <1>10, <2>1, BoundsAssumption DEF CompleteAnswers, Ends, Types
  <2>3. TextInv' /\ LoopInv' /\ BatchInv'
    BY <1>10, <2>1 DEF CompleteAnswers, Ends, TextInv, LoopInv, BatchInv, Upto
  <2>4. QED
    BY <2>2, <2>3
<1>11. CASE EmbedBatch
  <2>1. PICK n \in Nat \ {0} :
          /\ vectors' = vectors \o [k \in 1..(Least(pos + n, texts) - pos) |-> pos + k]
          /\ pos' = pos + n
    <3> DEFINE n == IF provider = "openai" THEN texts ELSE BatchSize
    <3>1. n \in Nat \ {0}
      BY <1>11, BatchAssumption DEF EmbedBatch, Types
    <3>2. /\ vectors' = vectors \o [k \in 1..(Least(pos + n, texts) - pos) |-> pos + k]
          /\ pos' = pos + n
      BY <1>11 DEF EmbedBatch
    <3> HIDE DEF n
    <3>3. QED
      BY <3>1, <3>2
  <2>2. pos < texts /\ pos \in Nat /\ texts \in Nat /\ vectors = Upto(pos)
    BY <1>11 DEF EmbedBatch, BatchInv, Least, Types
  <2>3. Least(pos + n, texts) - pos \in Nat
    BY <2>2 DEF Least
  <2>4. vectors' = Upto(pos + (Least(pos + n, texts) - pos))
    BY <2>1, <2>2, <2>3, UptoConcat
  <2>5. pos + (Least(pos + n, texts) - pos) = Least(pos + n, texts)
    BY <2>2 DEF Least
  <2>6. Types' /\ TextInv' /\ LoopInv'
    BY <1>11, <2>1, <2>2 DEF EmbedBatch, streamVars, Types, TextInv, LoopInv
  <2>7. BatchInv'
    BY <1>11, <2>1, <2>4, <2>5 DEF EmbedBatch, BatchInv, TextInv
  <2>8. QED
    BY <2>6, <2>7
<1>12. CASE EmbedReturns
  BY <1>12 DEF EmbedReturns, Ends, Unchanged, streamVars, Types, TextInv, LoopInv, BatchInv
<1>13. CASE UNCHANGED vars
  BY <1>13 DEF vars, streamVars, Types, TextInv, LoopInv, BatchInv
<1>14. QED
  BY <1>1, <1>2, <1>3, <1>4, <1>5, <1>6, <1>7, <1>8, <1>9, <1>10, <1>11, <1>12, <1>13 DEF Next, Over

\* The invariant holds in every reachable state.
LEMMA Invariance == Spec => []IInv
<1>1. Init => IInv
  <2> SUFFICES ASSUME Init PROVE IInv
    OBVIOUS
  <2>1. Upto(0) = <<>>
    BY DEF Upto
  <2>2. Types
    <3>1. MaxTexts \in Nat
      BY BoundsAssumption
    <3>2. texts \in Nat
      BY <3>1 DEF Init
    <3>3. QED
      BY <3>2 DEF Init, Types
  <2>3. TextInv
    BY <2>1 DEF Init, TextInv
  <2>4. BatchInv
    <3>1. Least(pos, texts) = 0
      BY <2>2 DEF Init, Types, Least
    <3>2. QED
      BY <2>1, <3>1 DEF Init, BatchInv
  <2>5. LoopInv
    BY DEF Init, LoopInv
  <2>6. QED
    BY <2>2, <2>3, <2>4, <2>5 DEF IInv
<1>2. QED
  BY <1>1, NextIInv, PTL DEF Spec

\* What stream() hands to the Generator, and what complete() returns, is the
\* model's answer token by token, with the vendor's usage for Claude and Gemini,
\* for answers of any length.
THEOREM AnswersAreKept == Spec => []AnswerIsKept
<1>1. IInv => AnswerIsKept
  BY DEF IInv, TextInv, LoopInv, AnswerIsKept, Upto
<1>2. QED
  BY <1>1, Invariance, PTL

\* embed() returns one vector per text, in order, for any number of texts and any
\* BATCH_SIZE.
THEOREM EmbeddingsAreAligned == Spec => []EmbeddingsAlign
<1>1. IInv => EmbeddingsAlign
  <2> SUFFICES ASSUME IInv, call = "embed", outcome = "complete"
               PROVE  vectors = [i \in 1..texts |-> i]
    BY DEF EmbeddingsAlign
  <2>1. Least(pos, texts) = texts /\ vectors = Upto(Least(pos, texts))
    BY DEF IInv, BatchInv, Least, Types
  <2>2. QED
    BY <2>1 DEF Upto
<1>2. QED
  BY <1>1, Invariance, PTL
----------------------------------------------------------------------------
(* The four adapters implement ChunkStream *)

\* A chunk passed on in the loop is a Chunk of the abstract stream.
LEMMA ConsumeRefines ==
    ASSUME IInv, pc = "loop", vendor = "talking",
           NEW some \in BOOLEAN, NEW done \in BOOLEAN, NEW counted \in BOOLEAN, Says(some),
           Consume(Token(some), done, counted), Unchanged,
           \/ ~done /\ UNCHANGED <<pc, vendor, outcome>>
           \/ done /\ vendor' = "stopped" /\ Ends("complete")
    PROVE  Chunks!Next
<1>0. fullContent = Upto(said) /\ ~finished /\ call = "stream" /\ outcome = "open" /\ said \in Nat
  BY DEF IInv, TextInv, LoopInv, Types
<1>1. fullContent' \in {fullContent, Append(fullContent, Len(fullContent) + 1)}
  BY <1>0, NextToken DEF Consume
<1>2. finished' = done
  BY <1>0 DEF Consume
<1>3. call' = call /\ (vendor' = "cut" <=> vendor = "cut")
  BY DEF Unchanged
<1>4. Chunks!Chunk
  BY <1>0, <1>1, <1>2, <1>3 DEF Chunks!Chunk, Ends
<1>5. QED
  BY <1>4 DEF Chunks!Next

\* Every step is a step of ChunkStream or changes nothing a subscriber sees.
LEMMA StepRefines ==
    ASSUME IInv, Next
    PROVE  Chunks!Next \/ UNCHANGED Chunks!vars
<1>1. CASE ChatChunk
  <2>1. pc = "loop" /\ vendor = "talking" /\ Unchanged
    BY <1>1 DEF ChatChunk, IInv, LoopInv, ChatApi
  <2>2. PICK some, finish, counted \in BOOLEAN :
          /\ Says(some) /\ vendor' = IF finish THEN "stopped" ELSE vendor
          /\ PassOn(Token(some), finish, counted)
    BY <1>1 DEF ChatChunk
  <2>3. QED
    BY <2>1, <2>2, ConsumeRefines DEF PassOn
<1>2. CASE ClaudeEvent \/ GeminiChunk
  <2>1. pc = "loop" /\ vendor = "talking" /\ Unchanged /\ UNCHANGED <<pc, vendor, outcome>>
    BY <1>2 DEF ClaudeEvent, GeminiChunk, IInv, LoopInv
  <2>2. PICK some \in BOOLEAN : Says(some) /\ Consume(Token(some), FALSE, FALSE)
    BY <1>2 DEF ClaudeEvent, GeminiChunk
  <2>3. QED
    BY <2>1, <2>2, ConsumeRefines
<1>3. CASE GeminiTextThrows
  <2>1. Chunks!End
    BY <1>3 DEF GeminiTextThrows, Ends, Unchanged, IInv, LoopInv, TextInv, Chunks!End
  <2>2. QED
    BY <2>1 DEF Chunks!Next
<1>4. CASE IteratorEnds
  <2>1. call = "stream" /\ outcome = "open" /\ call' = call /\ UNCHANGED <<fullContent, finished>>
    BY <1>4 DEF IteratorEnds, Unchanged, IInv, LoopInv, TextInv
  <2>2. CASE provider = "gemini"
    BY <1>4, <2>1, <2>2 DEF IteratorEnds, IInv, LoopInv, Chunks!Next, Chunks!Cut, Chunks!vars
  <2>3. CASE provider # "gemini"
    <3>1. outcome' = "complete" /\ (vendor' = "cut" \/ (finished /\ vendor' = vendor))
      BY <1>4, <2>3 DEF IteratorEnds, Ends, IInv, LoopInv
    <3>2. Chunks!End
      BY <2>1, <3>1 DEF Chunks!End
    <3>3. QED
      BY <3>2 DEF Chunks!Next
  <2>4. QED
    BY <2>2, <2>3
<1>5. CASE FinalResolves
  <2>1. call = "stream" /\ outcome = "open" /\ call' = call /\ ~finished /\ vendor' = vendor
    BY <1>5 DEF FinalResolves, Unchanged, IInv, LoopInv, TextInv
  <2>2. fullContent' = fullContent /\ finished' = TRUE
    <3>1. fullContent = Upto(said) /\ said \in Nat
      BY <2>1 DEF IInv, TextInv, Types
    <3>2. fullContent \o <<>> = fullContent
      BY <3>1 DEF Upto
    <3>3. QED
      BY <1>5, <3>2 DEF FinalResolves, Consume
  <2>3. outcome' \in {"open", "complete"}
    BY <1>5, <2>1 DEF FinalResolves, Ends
  <2>4. Chunks!Chunk
    BY <2>1, <2>2, <2>3 DEF Chunks!Chunk
  <2>5. QED
    BY <2>4 DEF Chunks!Next
<1>6. CASE Rejects
  <2>1. CASE call = "stream"
    <3>1. Chunks!End
      BY <1>6, <2>1 DEF Rejects, Ends, Unchanged, streamVars, IInv, TextInv, Chunks!End
    <3>2. QED
      BY <3>1 DEF Chunks!Next
  <2>2. CASE call # "stream"
    BY <1>6, <2>2 DEF Rejects, Unchanged, streamVars, Chunks!vars
  <2>3. QED
    BY <2>1, <2>2
<1>7. CASE CompleteAnswers
  BY <1>7 DEF CompleteAnswers, IInv, LoopInv, Chunks!vars
<1>8. CASE OpenStream \/ ClaudeStop \/ EmbedBatch \/ EmbedReturns \/ Over
  BY <1>8 DEF OpenStream, ClaudeStop, EmbedBatch, EmbedReturns, Over, Unchanged, streamVars, vars,
     Chunks!vars
<1>9. QED
  BY <1>1, <1>2, <1>3, <1>4, <1>5, <1>6, <1>7, <1>8 DEF Next

\* stream() of every adapter behaves towards its subscriber as ChunkStream says:
\* tokens in order, none after `done`, one end, and no completion without `done`
\* unless the vendor's stream was cut, for answers of any length.
THEOREM AdaptersStreamChunks == Spec => ImplementsChunkStream
<1>1. Init => Chunks!Init
  BY DEF Init, Chunks!Init
<1>2. IInv /\ [Next]_vars => [Chunks!Next]_(Chunks!vars)
  <2>1. UNCHANGED vars => UNCHANGED Chunks!vars
    BY DEF vars, streamVars, Chunks!vars
  <2>2. QED
    BY <2>1, StepRefines
<1>3. QED
  BY <1>1, <1>2, Invariance, PTL DEF Spec, ImplementsChunkStream, Chunks!Spec
----------------------------------------------------------------------------
(* Filters.  What the recursive function in Keep computes is found by      *)
(* induction; its principle is stated for a set of numbers (Induct), so    *)
(* that every use of it is a first-order fact.                             *)

\* A set of numbers with 0, and n + 1 with every n, has all of them.
LEMMA Induct ==
    ASSUME NEW G, 0 \in G, \A n \in Nat : n \in G => n + 1 \in G
    PROVE  Nat \subseteq G
<1> SUFFICES ASSUME Nat \ G # {} PROVE FALSE
  OBVIOUS
<1>1. PICK x \in Nat \ G : \A y \in Nat \ G : ~ (<<y, x>> \in OpToRel(<, Nat))
  <2> DEFINE T == Nat \ G
  <2>1. T \subseteq Nat /\ T # {}
    OBVIOUS
  <2> HIDE DEF T
  <2>2. \E x \in T : \A y \in T : ~ (<<y, x>> \in OpToRel(<, Nat))
    BY <2>1, NatLessThanWellFounded, WFMin, Zenon
  <2> QED BY <2>2 DEF T
<1>2. \A y \in Nat \ G : ~ (y < x)
  BY <1>1, Zenon DEF OpToRel
<1>3. x # 0 /\ x - 1 \in Nat /\ x - 1 < x /\ (x - 1) + 1 = x
  OBVIOUS
<1> QED BY <1>2, <1>3

\* f[n] is what is kept of the first n elements of c, for n up to m.
Keeps(f, c, S, m) ==
    f = [n \in 0..m |-> IF n = 0 THEN <<>>
                        ELSE IF c[n] \in S THEN Append(f[n - 1], c[n]) ELSE f[n - 1]]

\* The recursion has a solution.
LEMMA KeepsExists ==
    ASSUME NEW c, NEW S, NEW m \in Nat
    PROVE  \E f : Keeps(f, c, S, m)
<1> DEFINE G == {n \in Nat : \E f : Keeps(f, c, S, n)}
<1>1. 0 \in G
  <2>1. Keeps([n \in 0..0 |-> <<>>], c, S, 0)
    BY DEF Keeps
  <2> QED BY <2>1
<1>2. ASSUME NEW n \in Nat, n \in G PROVE n + 1 \in G
  <2>1. PICK f : Keeps(f, c, S, n)
    BY <1>2
  <2> DEFINE v == IF c[n + 1] \in S THEN Append(f[n], c[n + 1]) ELSE f[n]
             g == [k \in 0..(n + 1) |-> IF k = n + 1 THEN v ELSE f[k]]
  <2>2. Keeps(g, c, S, n + 1)
    <3> DEFINE F(h, k) == IF k = 0 THEN <<>> ELSE IF c[k] \in S THEN Append(h[k - 1], c[k]) ELSE h[k - 1]
    <3>1. ASSUME NEW k \in 0..(n + 1) PROVE g[k] = F(g, k)
      <4>1. CASE k = n + 1
        <5>1. g[k] = v /\ k # 0 /\ g[k - 1] = f[n] /\ k - 1 = n
          BY <4>1
        <5> QED BY <5>1, <4>1
      <4>2. CASE k # n + 1
        <5>1. k \in 0..n /\ g[k] = f[k]
          BY <4>2
        <5>2. f[k] = F(f, k)
          BY <5>1, <2>1 DEF Keeps
        <5>3. k # 0 => g[k - 1] = f[k - 1]
          BY <4>2
        <5> HIDE DEF g
        <5> QED BY <5>1, <5>2, <5>3
      <4> QED BY <4>1, <4>2
    <3>2. g = [k \in 0..(n + 1) |-> F(g, k)]
      <4>1. g = [k \in 0..(n + 1) |-> g[k]]
        OBVIOUS
      <4> HIDE DEF g, F
      <4> QED BY <3>1, <4>1
    <3> HIDE DEF g
    <3> QED BY <3>2 DEF Keeps
  <2> QED BY <2>2
<1>3. Nat \subseteq G
  <2> HIDE DEF G
  <2> QED BY <1>1, <1>2, Induct
<1> QED BY <1>3

\* Its solutions for c and for a sequence that begins like c agree.
LEMMA KeepsUnique ==
    ASSUME NEW c, NEW S, NEW m \in Nat, NEW d, NEW k \in Nat, NEW f, NEW g,
           Keeps(f, c, S, m), Keeps(g, d, S, k), \A i \in 1..m : d[i] = c[i], m <= k
    PROVE  \A n \in 0..m : f[n] = g[n]
<1> DEFINE G == {n \in Nat : n <= m => f[n] = g[n]}
<1>0. /\ \A n \in 0..m : f[n] = IF n = 0 THEN <<>> ELSE IF c[n] \in S THEN Append(f[n - 1], c[n]) ELSE f[n - 1]
      /\ \A n \in 0..k : g[n] = IF n = 0 THEN <<>> ELSE IF d[n] \in S THEN Append(g[n - 1], d[n]) ELSE g[n - 1]
  BY DEF Keeps
<1>1. 0 \in G
  BY <1>0
<1>2. ASSUME NEW n \in Nat, n \in G PROVE n + 1 \in G
  <2> SUFFICES ASSUME n + 1 <= m PROVE f[n + 1] = g[n + 1]
    OBVIOUS
  <2>1. f[n] = g[n] /\ d[n + 1] = c[n + 1] /\ (n + 1) - 1 = n /\ n + 1 # 0 /\ n + 1 \in 0..m /\ n + 1 \in 0..k
    BY <1>2
  <2> QED BY <2>1, <1>0
<1>3. Nat \subseteq G
  <2> HIDE DEF G
  <2> QED BY <1>1, <1>2, Induct
<1> QED BY <1>3

\* Keep returns the last value of a solution.
LEMMA KeepIs ==
    ASSUME NEW c, NEW S, Len(c) \in Nat
    PROVE  \E f : Keeps(f, c, S, Len(c)) /\ Keep(c, S) = f[Len(c)]
<1> DEFINE k == CHOOSE f : Keeps(f, c, S, Len(c))
<1>1. Keeps(k, c, S, Len(c))
  BY KeepsExists
<1>2. Keep(c, S) = k[Len(c)]
  BY DEF Keep, Keeps
<1> QED BY <1>1, <1>2

\* Nothing is kept of nothing.
LEMMA KeepEmpty == ASSUME NEW S PROVE Keep(<<>>, S) = <<>>
<1>1. Len(<<>>) = 0
  OBVIOUS
<1>2. PICK f : Keeps(f, <<>>, S, 0) /\ Keep(<<>>, S) = f[0]
  BY <1>1, KeepIs
<1> QED BY <1>2 DEF Keeps

\* A further element is kept at the end, or not at all.
LEMMA KeepAppend ==
    ASSUME NEW S, NEW T, NEW c \in Seq(T), NEW x \in T
    PROVE  Keep(Append(c, x), S) = IF x \in S THEN Append(Keep(c, S), x) ELSE Keep(c, S)
<1> DEFINE d == Append(c, x)  n == Len(c)
<1>1. n \in Nat /\ Len(d) = n + 1 /\ d[n + 1] = x /\ \A i \in 1..n : d[i] = c[i]
  OBVIOUS
<1> HIDE DEF d, n
<1>2. PICK f : Keeps(f, c, S, n) /\ Keep(c, S) = f[n]
  BY <1>1, KeepIs DEF n
<1>3. PICK g : Keeps(g, d, S, n + 1) /\ Keep(d, S) = g[n + 1]
  BY <1>1, KeepIs
<1>4. f[n] = g[n]
  <2>1. n <= n + 1 /\ n + 1 \in Nat /\ n \in 0..n
    BY <1>1
  <2>2. \A p \in 0..n : f[p] = g[p]
    BY <1>1, <1>2, <1>3, <2>1, KeepsUnique
  <2> QED BY <2>1, <2>2
<1>5. g[n + 1] = IF d[n + 1] \in S THEN Append(g[n], d[n + 1]) ELSE g[n]
  <2>1. n + 1 \in 0..(n + 1) /\ n + 1 # 0 /\ (n + 1) - 1 = n
    BY <1>1
  <2> QED BY <1>3, <2>1 DEF Keeps
<1> QED BY <1>1, <1>2, <1>3, <1>4, <1>5 DEF d

\* A sequence that is not empty has a last element.
LEMMA LastPart ==
    ASSUME NEW T, NEW d \in Seq(T), NEW n \in Nat, Len(d) = n + 1
    PROVE  \E e \in Seq(T), x \in T : d = Append(e, x) /\ Len(e) = n
<1> DEFINE e == SubSeq(d, 1, n)
<1>1. e \in Seq(T) /\ Len(e) = n /\ d[n + 1] \in T /\ \A i \in 1..n : e[i] = d[i]
  OBVIOUS
<1> HIDE DEF e
<1>2. d = Append(e, d[n + 1])
  <2>1. Len(Append(e, d[n + 1])) = Len(d) /\ Append(e, d[n + 1]) \in Seq(T)
    BY <1>1
  <2>2. \A i \in 1..Len(d) : Append(e, d[n + 1])[i] = d[i]
    BY <1>1
  <2> QED BY <2>1, <2>2, SeqEqual
<1> QED BY <1>1, <1>2

\* Appending and concatenation associate.
LEMMA AppendJoin ==
    ASSUME NEW T, NEW a \in Seq(T), NEW e \in Seq(T), NEW x \in T
    PROVE  a \o Append(e, x) = Append(a \o e, x) /\ a \o e \in Seq(T)
<1> DEFINE p == a \o Append(e, x)  q == Append(a \o e, x)
<1>1. p \in Seq(T) /\ q \in Seq(T) /\ Len(p) = Len(q) /\ a \o e \in Seq(T)
  OBVIOUS
<1>2. \A i \in 1..Len(p) : p[i] = q[i]
  OBVIOUS
<1> QED BY <1>1, <1>2, SeqEqual

\* What is kept are elements of the sequence that are in S.
LEMMA KeepSeq ==
    ASSUME NEW S, NEW T, NEW c \in Seq(T)
    PROVE  Keep(c, S) \in Seq(T \cap S)
<1> DEFINE G == {n \in Nat : \A d \in Seq(T) : Len(d) = n => Keep(d, S) \in Seq(T \cap S)}
<1>1. 0 \in G
  BY KeepEmpty
<1>2. ASSUME NEW n \in Nat, n \in G PROVE n + 1 \in G
  <2> SUFFICES ASSUME NEW d \in Seq(T), Len(d) = n + 1 PROVE Keep(d, S) \in Seq(T \cap S)
    OBVIOUS
  <2>1. PICK e \in Seq(T), x \in T : d = Append(e, x) /\ Len(e) = n
    BY LastPart
  <2>2. Keep(e, S) \in Seq(T \cap S)
    BY <1>2, <2>1
  <2>3. Keep(d, S) = IF x \in S THEN Append(Keep(e, S), x) ELSE Keep(e, S)
    BY <2>1, KeepAppend
  <2> QED BY <2>2, <2>3
<1>3. Nat \subseteq G
  <2> HIDE DEF G
  <2> QED BY <1>1, <1>2, Induct
<1> QED BY <1>3

\* Filtering a concatenation filters its parts.
LEMMA KeepConcat ==
    ASSUME NEW S, NEW T, NEW a \in Seq(T), NEW b \in Seq(T)
    PROVE  Keep(a \o b, S) = Keep(a, S) \o Keep(b, S)
<1> DEFINE G == {n \in Nat : \A d \in Seq(T) : Len(d) = n => Keep(a \o d, S) = Keep(a, S) \o Keep(d, S)}
<1>0. Keep(a, S) \in Seq(T)
  <2>1. Keep(a, S) \in Seq(T \cap S)
    BY KeepSeq
  <2> QED BY <2>1
<1>1. 0 \in G
  <2>1. a \o <<>> = a /\ Keep(a, S) \o <<>> = Keep(a, S)
    BY <1>0
  <2>2. \A d \in Seq(T) : Len(d) = 0 => d = <<>>
    OBVIOUS
  <2> QED BY KeepEmpty, <2>1, <2>2
<1>2. ASSUME NEW n \in Nat, n \in G PROVE n + 1 \in G
  <2> SUFFICES ASSUME NEW d \in Seq(T), Len(d) = n + 1
               PROVE  Keep(a \o d, S) = Keep(a, S) \o Keep(d, S)
    OBVIOUS
  <2>1. PICK e \in Seq(T), x \in T : d = Append(e, x) /\ Len(e) = n
    BY LastPart
  <2>2. a \o d = Append(a \o e, x) /\ a \o e \in Seq(T)
    BY <2>1, AppendJoin
  <2>3. Keep(a \o e, S) = Keep(a, S) \o Keep(e, S)
    BY <1>2, <2>1
  <2>4. Keep(d, S) = IF x \in S THEN Append(Keep(e, S), x) ELSE Keep(e, S)
    BY <2>1, KeepAppend
  <2>5. Keep(a \o d, S) = IF x \in S THEN Append(Keep(a \o e, S), x) ELSE Keep(a \o e, S)
    <3> DEFINE ae == a \o e
    <3>1. ae \in Seq(T) /\ a \o d = Append(ae, x)
      BY <2>2
    <3> HIDE DEF ae
    <3>2. Keep(Append(ae, x), S) = IF x \in S THEN Append(Keep(ae, S), x) ELSE Keep(ae, S)
      BY <3>1, KeepAppend
    <3> QED BY <3>1, <3>2 DEF ae
  <2>6. Keep(e, S) \in Seq(T)
    <3>1. Keep(e, S) \in Seq(T \cap S)
      BY KeepSeq
    <3> QED BY <3>1
  <2>7. Append(Keep(a, S) \o Keep(e, S), x) = Keep(a, S) \o Append(Keep(e, S), x)
    <3> DEFINE ka == Keep(a, S)  ke == Keep(e, S)
    <3>1. ka \in Seq(T) /\ ke \in Seq(T)
      BY <1>0, <2>6
    <3> HIDE DEF ka, ke
    <3>2. ka \o Append(ke, x) = Append(ka \o ke, x)
      BY <3>1, AppendJoin
    <3> QED BY <3>2 DEF ka, ke
  <2> QED BY <2>3, <2>4, <2>5, <2>7
<1>3. Nat \subseteq G
  <2> HIDE DEF G
  <2> QED BY <1>1, <1>2, Induct
<1> QED BY <1>3

\* A filter that everything passes.
LEMMA KeepAll ==
    ASSUME NEW S, NEW c \in Seq(S)
    PROVE  Keep(c, S) = c
<1> DEFINE G == {n \in Nat : \A d \in Seq(S) : Len(d) = n => Keep(d, S) = d}
<1>1. 0 \in G
  <2>1. \A d \in Seq(S) : Len(d) = 0 => d = <<>>
    OBVIOUS
  <2> QED BY KeepEmpty, <2>1
<1>2. ASSUME NEW n \in Nat, n \in G PROVE n + 1 \in G
  <2> SUFFICES ASSUME NEW d \in Seq(S), Len(d) = n + 1 PROVE Keep(d, S) = d
    OBVIOUS
  <2>1. PICK e \in Seq(S), x \in S : d = Append(e, x) /\ Len(e) = n
    BY LastPart
  <2>2. Keep(e, S) = e
    BY <1>2, <2>1
  <2> QED BY <2>1, <2>2, KeepAppend
<1>3. Nat \subseteq G
  <2> HIDE DEF G
  <2> QED BY <1>1, <1>2, Induct
<1> QED BY <1>3

\* A filter that nothing passes.
LEMMA KeepNone ==
    ASSUME NEW S, NEW T, T \cap S = {}, NEW c \in Seq(T)
    PROVE  Keep(c, S) = <<>>
<1>1. Keep(c, S) \in Seq(T \cap S)
  BY KeepSeq
<1>2. \A k \in Seq({}) : k = <<>>
  OBVIOUS
<1> QED BY <1>1, <1>2
----------------------------------------------------------------------------
(* The conversation the vendor gets *)

AllTurns == Roles \X Nat

SentInv ==
    /\ request \in [system : BOOLEAN, messages : Conversations]
    /\ provider \in Providers
    /\ sent \in {<<>>, Conversation}

\* The two kinds of turns.
LEMMA TurnKinds ==
    /\ SystemTurns \subseteq AllTurns /\ OtherTurns \subseteq AllTurns
    /\ SystemTurns \cap OtherTurns = {} /\ OtherTurns \cap SystemTurns = {}
BY DEF SystemTurns, OtherTurns, AllTurns, Roles

\* The turns of a request end with one of the user.
LEMMA TurnsEnd ==
    ASSUME request \in [system : BOOLEAN, messages : Conversations]
    PROVE  \E e \in Seq(AllTurns), x \in OtherTurns : x[1] = "user" /\ Turns = Append(e, x)
<1>1. PICK n \in 1..MaxTurns : request.messages \in [1..n -> Roles] /\ request.messages[n] = "user"
  BY DEF Conversations
<1>2. n \in Nat /\ n >= 1 /\ n - 1 \in Nat /\ (n - 1) + 1 = n
  BY BoundsAssumption
<1>3. Turns \in Seq(AllTurns) /\ Len(Turns) = n /\ Turns[n] = <<"user", n>>
  <2>1. Turns = [i \in 1..n |-> <<request.messages[i], i>>]
    BY <1>1 DEF Turns
  <2>2. \A i \in 1..n : <<request.messages[i], i>> \in AllTurns
    BY <1>1, <1>2 DEF AllTurns
  <2> QED BY <1>1, <1>2, <2>1, <2>2
<1>4. PICK e \in Seq(AllTurns), x \in AllTurns : Turns = Append(e, x) /\ Len(e) = n - 1
  <2> DEFINE m == n - 1
  <2>1. m \in Nat /\ Len(Turns) = m + 1
    BY <1>2, <1>3
  <2> HIDE DEF m
  <2>2. \E e \in Seq(AllTurns), x \in AllTurns : Turns = Append(e, x) /\ Len(e) = m
    BY <1>3, <2>1, LastPart
  <2> QED BY <2>2 DEF m
<1>5. x = <<"user", n>>
  <2>1. Append(e, x)[n] = x
    BY <1>2, <1>4
  <2> QED BY <2>1, <1>3, <1>4
<1>6. x \in OtherTurns /\ x[1] = "user"
  BY <1>2, <1>5 DEF OtherTurns, Roles
<1> QED BY <1>4, <1>6

\* Gemini's history and last message are the turns that are not the system's.
LEMMA ChatIsTurns ==
    ASSUME request \in [system : BOOLEAN, messages : Conversations]
    PROVE  BuildChat = SystemPart \o Keep(Turns, OtherTurns)
<1>1. PICK e \in Seq(AllTurns), x \in OtherTurns : x[1] = "user" /\ Turns = Append(e, x)
  BY TurnsEnd
<1> DEFINE ke == Keep(e, OtherTurns)
<1>2. ke \in Seq(AllTurns \cap OtherTurns)
  BY KeepSeq
<1>3. ke \in Seq(OtherTurns) /\ x \in AllTurns
  BY <1>2, TurnKinds
<1>4. Keep(Turns, OtherTurns) = Append(ke, x)
  BY <1>1, <1>3, KeepAppend
<1> HIDE DEF ke
<1>5. Front(Append(ke, x)) = ke /\ Last(Append(ke, x)) = x
  <2>1. Len(Append(ke, x)) = Len(ke) + 1 /\ Len(ke) \in Nat
    BY <1>3
  <2>2. SubSeq(Append(ke, x), 1, (Len(ke) + 1) - 1) = ke
    BY <1>3
  <2>3. Append(ke, x)[Len(ke) + 1] = x
    BY <1>3
  <2> QED BY <2>1, <2>2, <2>3 DEF Front, Last
<1>6. <<"user", x[2]>> = x
  BY <1>1 DEF OtherTurns
<1>7. SystemPart \in Seq(AllTurns) /\ ke \in Seq(AllTurns) /\ <<x>> \in Seq(AllTurns)
  <2>1. SystemPart \in Seq(AllTurns)
    <3>1. <<"system", 0>> \in AllTurns
      BY DEF AllTurns, Roles
    <3> QED BY <3>1 DEF SystemPart
  <2>2. ke \in Seq(AllTurns) /\ <<x>> \in Seq(AllTurns)
    BY <1>3, TurnKinds
  <2> QED BY <2>1, <2>2
<1>8. (SystemPart \o ke) \o <<x>> = SystemPart \o (ke \o <<x>>)
  BY <1>7, ConcatAssociative
<1>9. ke \o <<x>> = Append(ke, x)
  BY <1>3
<1> QED BY <1>4, <1>5, <1>6, <1>8, <1>9 DEF BuildChat

\* What the filters find in each of the three forms of a conversation.
LEMMA ConversationKept ==
    ASSUME request \in [system : BOOLEAN, messages : Conversations], provider \in Providers
    PROVE  /\ Keep(Conversation, OtherTurns) = Keep(Turns, OtherTurns)
           /\ Keep(Conversation, SystemTurns) =
                SystemPart \o IF provider = "gemini" THEN <<>> ELSE Keep(Turns, SystemTurns)
<1> DEFINE sp == SystemPart  ts == Turns
           ky == Keep(ts, SystemTurns)  kn == Keep(ts, OtherTurns)
<1>1. sp \in Seq(SystemTurns)
  BY DEF SystemPart, SystemTurns
<1>2. ts \in Seq(AllTurns)
  BY TurnsEnd, TurnKinds
<1> HIDE DEF sp, ts
<1>3. ky \in Seq(AllTurns \cap SystemTurns) /\ kn \in Seq(AllTurns \cap OtherTurns)
  BY <1>2, KeepSeq
<1>4. ky \in Seq(SystemTurns) /\ kn \in Seq(OtherTurns)
  BY <1>3, TurnKinds
<1> HIDE DEF ky, kn
<1>5. sp \in Seq(AllTurns) /\ ky \in Seq(AllTurns) /\ kn \in Seq(AllTurns)
  BY <1>1, <1>4, TurnKinds
<1>6. Keep(sp, SystemTurns) = sp /\ Keep(ky, SystemTurns) = ky /\ Keep(kn, OtherTurns) = kn
  BY <1>1, <1>4, KeepAll
<1>7. Keep(sp, OtherTurns) = <<>> /\ Keep(ky, OtherTurns) = <<>>
  BY <1>1, <1>4, KeepNone, TurnKinds
<1>8. Keep(kn, SystemTurns) = <<>>
  BY <1>4, KeepNone, TurnKinds
<1>9. <<>> \o kn = kn /\ sp \o <<>> = sp /\ (<<>> \o <<>>) \o kn = kn /\ (sp \o ky) \o <<>> = sp \o ky
  BY <1>5
<1>10. CASE provider \in ChatApi
  <2>1. Conversation = sp \o ts /\ provider # "gemini"
    BY <1>10 DEF Conversation, BuildMessages, ChatApi, sp, ts
  <2>2. Keep(sp \o ts, OtherTurns) = Keep(sp, OtherTurns) \o Keep(ts, OtherTurns)
    BY <1>2, <1>5, KeepConcat
  <2>3. Keep(sp \o ts, SystemTurns) = Keep(sp, SystemTurns) \o Keep(ts, SystemTurns)
    BY <1>2, <1>5, KeepConcat
  <2>4. Keep(Conversation, OtherTurns) = kn /\ Keep(Conversation, SystemTurns) = sp \o ky
    BY <1>6, <1>7, <1>9, <2>1, <2>2, <2>3 DEF ky, kn
  <2> QED BY <2>1, <2>4 DEF ky, kn, sp, ts
<1>11. CASE provider = "claude"
  <2>1. Conversation = (sp \o ky) \o kn
    BY <1>11 DEF Conversation, ClaudeParams, ChatApi, sp, ts, ky, kn
  <2>2. sp \o ky \in Seq(AllTurns)
    BY <1>5
  <2>3. ASSUME NEW S PROVE Keep((sp \o ky) \o kn, S) = (Keep(sp, S) \o Keep(ky, S)) \o Keep(kn, S)
    <3>1. Keep(sp \o ky, S) = Keep(sp, S) \o Keep(ky, S)
      BY <1>5, KeepConcat
    <3> DEFINE sy == sp \o ky
    <3>2. sy \in Seq(AllTurns)
      BY <2>2
    <3> HIDE DEF sy
    <3>3. Keep(sy \o kn, S) = Keep(sy, S) \o Keep(kn, S)
      BY <1>5, <3>2, KeepConcat
    <3> QED BY <3>1, <3>3 DEF sy
  <2>4. Keep(Conversation, OtherTurns) = kn
    BY <2>1, <2>3, <1>6, <1>7, <1>9
  <2>5. Keep(Conversation, SystemTurns) = sp \o ky
    BY <2>1, <2>3, <1>6, <1>8, <1>9
  <2> QED BY <1>11, <2>4, <2>5 DEF ky, kn, sp, ts
<1>12. CASE provider = "gemini"
  <2>1. Conversation = sp \o kn
    BY <1>12, ChatIsTurns DEF Conversation, ChatApi, sp, ts, kn
  <2>2. Keep(sp \o kn, OtherTurns) = Keep(sp, OtherTurns) \o Keep(kn, OtherTurns)
    BY <1>5, KeepConcat
  <2>3. Keep(sp \o kn, SystemTurns) = Keep(sp, SystemTurns) \o Keep(kn, SystemTurns)
    BY <1>5, KeepConcat
  <2>4. Keep(Conversation, OtherTurns) = kn
    BY <2>1, <2>2, <1>6, <1>7, <1>9
  <2>5. Keep(Conversation, SystemTurns) = sp \o <<>>
    BY <2>1, <2>3, <1>6, <1>8
  <2> QED BY <1>12, <2>4, <2>5 DEF kn, sp, ts
<1> QED BY <1>10, <1>11, <1>12 DEF Providers

\* Every adapter shows its vendor the same conversation, for conversations of any
\* length: what the fallback provider is asked is what the first one was asked.
THEOREM PromptsArrive == Spec => []PromptArrives
<1>1. Init => SentInv
  BY DEF Init, SentInv
<1>2. SentInv /\ [Next]_vars => SentInv'
  <2> SUFFICES ASSUME SentInv, [Next]_vars PROVE SentInv'
    OBVIOUS
  <2>1. request' = request /\ provider' = provider /\ (sent' = sent \/ sent' = Conversation)
    BY DEF Next, OpenStream, ChatChunk, ClaudeEvent, ClaudeStop, GeminiChunk, GeminiTextThrows,
       IteratorEnds, FinalResolves, Rejects, CompleteAnswers, EmbedBatch, EmbedReturns, Over,
       Unchanged, vars
  <2>2. Conversation' = Conversation
    BY <2>1 DEF Conversation, BuildMessages, ClaudeParams, BuildChat, SystemPart, Turns
  <2> QED BY <2>1, <2>2 DEF SentInv
<1>3. SentInv => PromptArrives
  BY ConversationKept DEF SentInv, PromptArrives
<1> QED BY <1>1, <1>2, <1>3, PTL DEF Spec
=============================================================================

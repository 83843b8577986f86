---------------------------- MODULE LLMProviders ----------------------------
(***************************************************************************)
(* One call of a provider adapter (src/llm/providers/): stream() as the    *)
(* Generator consumes it (generator.agent.ts), complete() or embed().      *)
(*                                                                         *)
(* External, modelled from how the adapters use the SDKs: the vendors.     *)
(* OpenAI and DashScope send chunks, of which one has a finish_reason and, *)
(* with include_usage, that one or a later one has the usage; Claude sends *)
(* typed events up to message_stop; Gemini's iterator just ends.  Any await*)
(* may reject, and a connection may end early without an error.            *)
(*                                                                         *)
(* The tokens of the model's answer are numbered from 1.                   *)
(***************************************************************************)
EXTENDS Filter, Integers, Sequences, SequencesExt

CONSTANTS MaxTokens,    \* bound: tokens of an answer
          MaxTurns,     \* bound: messages of a request
          MaxTexts,     \* bound: texts to embed
          BatchSize     \* texts per request, BATCH_SIZE of alibaba.provider.ts

ASSUME BoundsAssumption == {MaxTokens, MaxTurns, MaxTexts} \subseteq Nat
ASSUME BatchAssumption  == BatchSize \in Nat \ {0}

ChatApi   == {"openai", "alibaba"}    \* both use the OpenAI SDK
Providers == ChatApi \cup {"claude", "gemini"}

VARIABLES call,         \* "stream", "complete" or "embed"
          provider,
          request,      \* LLMCompletionRequest: system prompt or not, roles of the messages
          sent,         \* the conversation as the vendor got it
          texts,        \* how many texts embed() was given
          pos,          \* i of the loop over the batches
          vectors,      \* results of embed(): the vector of text i is i
          pc,           \* "call", "loop" (for await), "final" (the last await), "ended"
          vendor,       \* "talking", "stopped" (said so), "cut"
          said,         \* tokens the model has said
          finished,     \* a chunk with done went through the subject
          outcome,      \* of the subject or of the promise
          fullContent,  \* the Generator's text, or the content complete() returns
          usage         \* finalUsage of the Generator, or complete()'s, is the vendor's

streamVars == <<vendor, said, finished, fullContent, usage>>
vars == <<call, provider, request, sent, texts, pos, vectors, pc, outcome, streamVars>>

Roles == {"system", "user", "assistant"}

\* Turns that end with the user's: the agents and evaluators send that one only, the
\* adapters' tests several, system messages among them.
Conversations ==
    UNION {{t \in [1..n -> Roles] : t[n] = "user"} : n \in 1..MaxTurns}

Init ==
    /\ call \in {"stream", "complete", "embed"}
    /\ provider \in Providers
    /\ request \in [system : BOOLEAN, messages : Conversations]
    /\ texts \in 1..MaxTexts
    /\ sent = <<>> /\ vectors = <<>> /\ pos = 0
    /\ pc = "call" /\ vendor = "talking" /\ said = 0
    /\ finished = FALSE /\ outcome = "open"
    /\ fullContent = <<>> /\ usage = FALSE
----------------------------------------------------------------------------
(* The conversation: a sequence of <<role, index of the message>> *)

SystemPart == IF request.system THEN <<<<"system", 0>>>> ELSE <<>>

Turns == [i \in DOMAIN request.messages |-> <<request.messages[i], i>>]

SystemTurns == {"system"} \X Nat
OtherTurns  == (Roles \ {"system"}) \X Nat

\* OpenAI, Alibaba: the prompt is the first message.
BuildMessages == SystemPart \o Turns

\* Claude: the prompt and the system messages are a parameter of their own.
ClaudeParams == SystemPart \o Keep(Turns, SystemTurns) \o Keep(Turns, OtherTurns)

\* Gemini: the prompt, a history and the message that is sent now, always as the
\* user's; system messages are dropped (mutant: the history is one short).
BuildChat_ShortHistory ==
    LET nonSystem == Keep(Turns, OtherTurns)
    IN  SystemPart \o SubSeq(nonSystem, 1, Len(nonSystem) - 2)
                   \o <<<<"user", Last(nonSystem)[2]>>>>

BuildChat ==
    LET nonSystem == Keep(Turns, OtherTurns)
    IN  SystemPart \o Front(nonSystem) \o <<<<"user", Last(nonSystem)[2]>>>>

Conversation ==
    CASE provider \in ChatApi -> BuildMessages
      [] provider = "claude"  -> ClaudeParams
      [] provider = "gemini"  -> BuildChat
----------------------------------------------------------------------------
(* The consumer *)

\* subject.next({delta, done, usage}), which runs the Generator's `next`.
Consume(tokens, done, counted) ==
    /\ fullContent' = fullContent \o tokens
    /\ usage' = (usage \/ (done /\ counted))
    /\ finished' = (finished \/ done)

Ends(how) == pc' = "ended" /\ outcome' = how

Unchanged == UNCHANGED <<call, provider, request, sent, texts, pos, vectors>>

Least(a, b) == IF a < b THEN a ELSE b

\* The vendor's next token, or none.
Token(some) == IF some THEN <<said + 1>> ELSE <<>>
Says(some) == said' = IF some THEN said + 1 ELSE said
----------------------------------------------------------------------------
(* stream() *)

\* The SDK call.  Claude's is not awaited: its errors come up in the loop.
OpenStream ==
    /\ call = "stream" /\ pc = "call"
    /\ sent' = Conversation
    /\ pc' = "loop"
    /\ UNCHANGED <<call, provider, request, texts, pos, vectors, outcome, streamVars>>

\* Mutants of PassOn: the loop is left before the last chunk is passed on; the
\* last chunk is passed on without its text.
PassOn_BreakFirst(tokens, finish, counted) ==
    IF finish THEN Ends("complete") /\ UNCHANGED <<fullContent, usage, finished>>
              ELSE Consume(tokens, FALSE, counted) /\ UNCHANGED <<pc, outcome>>

PassOn_LastTextLost(tokens, finish, counted) ==
    /\ Consume(IF finish THEN <<>> ELSE tokens, finish, counted)
    /\ IF finish THEN Ends("complete") ELSE UNCHANGED <<pc, outcome>>

\* subject.next for every chunk; the one with a finish_reason is the last one read.
PassOn(tokens, finish, counted) ==
    /\ Consume(tokens, finish, counted)
    /\ IF finish THEN Ends("complete") ELSE UNCHANGED <<pc, outcome>>

\* OpenAI and Alibaba: a chunk with or without text, finish_reason and usage.
ChatChunk ==
    /\ provider \in ChatApi /\ pc = "loop"
    /\ \E some, finish, counted \in BOOLEAN :
          /\ some => vendor = "talking" /\ said < MaxTokens
          /\ finish => vendor = "talking"
          /\ counted => finish \/ vendor = "stopped"
          /\ Says(some)
          /\ vendor' = IF finish THEN "stopped" ELSE vendor
          /\ PassOn(Token(some), finish, counted)
    /\ Unchanged

\* Claude: a text_delta is passed on, other events are ignored.
ClaudeEvent ==
    /\ provider = "claude" /\ pc = "loop" /\ vendor = "talking"
    /\ \E some \in BOOLEAN :
          /\ some => said < MaxTokens
          /\ Says(some)
          /\ Consume(Token(some), FALSE, FALSE)
    /\ UNCHANGED <<pc, vendor, outcome>>
    /\ Unchanged

\* message_stop: finalMessage() is awaited.
ClaudeStop ==
    /\ provider = "claude" /\ pc = "loop" /\ vendor = "talking"
    /\ vendor' = "stopped"
    /\ pc' = "final"
    /\ UNCHANGED <<said, finished, fullContent, usage, outcome>>
    /\ Unchanged

GeminiChunk ==
    /\ provider = "gemini" /\ pc = "loop"
    /\ \E some \in BOOLEAN :
          /\ some => said < MaxTokens
          /\ Says(some)
          /\ Consume(Token(some), FALSE, FALSE)
    /\ UNCHANGED <<pc, vendor, outcome>>
    /\ Unchanged

\* chunk.text() throws (a blocked answer): the model did say the text.
GeminiTextThrows ==
    /\ provider = "gemini" /\ pc = "loop" /\ said < MaxTokens
    /\ Says(TRUE)
    /\ Ends("error")
    /\ UNCHANGED <<vendor, finished, fullContent, usage>>
    /\ Unchanged

\* The for-await loop ends because the iterator does.  Gemini's `response` is
\* awaited after the loop; it cannot tell a cut stream from a whole one.
IteratorEnds ==
    /\ pc = "loop"
    /\ IF provider = "gemini"
       THEN /\ vendor' \in {"stopped", "cut"}
            /\ pc' = "final" /\ UNCHANGED outcome
       ELSE /\ vendor' = IF vendor = "stopped" THEN "stopped" ELSE "cut"
            /\ Ends("complete")
    /\ UNCHANGED <<said, finished, fullContent, usage>>
    /\ Unchanged

\* finalMessage() or response resolves: the chunk with done and the usage.
\* Claude goes on in its loop, Gemini completes.
FinalResolves ==
    /\ pc = "final"
    /\ Consume(<<>>, TRUE, TRUE)
    /\ IF provider = "gemini" THEN Ends("complete") ELSE pc' = "loop" /\ UNCHANGED outcome
    /\ UNCHANGED <<vendor, said>>
    /\ Unchanged

\* An await rejects: subject.error, or the promise of complete() or embed().
\* embed() of Claude and Gemini always throws.
Rejects ==
    /\ pc # "ended"
    /\ Ends("error")
    /\ UNCHANGED streamVars
    /\ Unchanged
----------------------------------------------------------------------------
(* complete() and embed() *)

\* The vendor answers at once.  The text is that of one message (null is taken
\* as empty), for Claude that of all text blocks joined; tool_use blocks have none.
CompleteAnswers ==
    /\ call = "complete" /\ pc = "call"
    /\ sent' = Conversation
    /\ \E n \in 0..MaxTokens :
          /\ said' = n
          /\ fullContent' = [i \in 1..n |-> i]
    /\ usage' = TRUE /\ vendor' = "stopped"
    /\ Ends("complete")
    /\ UNCHANGED <<call, provider, request, texts, pos, vectors, finished>>

\* Mutant of EmbedBatch: the slice is one short of the step of the loop.
EmbedBatch_ShortSlice ==
    /\ call = "embed" /\ provider \in ChatApi /\ pc = "call" /\ pos < texts
    /\ LET n == IF provider = "openai" THEN texts ELSE BatchSize
       IN  /\ vectors' = vectors \o [k \in 1..(Least(pos + n - 1, texts) - pos) |-> pos + k]
           /\ pos' = pos + n
    /\ UNCHANGED <<call, provider, request, sent, texts, pc, outcome, streamVars>>

\* A request for vectors is answered: OpenAI gets all texts at once, DashScope
\* the slice of BATCH_SIZE texts, or fewer at the end, from the loop's i.
EmbedBatch ==
    /\ call = "embed" /\ provider \in ChatApi /\ pc = "call" /\ pos < texts
    /\ LET n == IF provider = "openai" THEN texts ELSE BatchSize
       IN  /\ vectors' = vectors \o [k \in 1..(Least(pos + n, texts) - pos) |-> pos + k]
           /\ pos' = pos + n
    /\ UNCHANGED <<call, provider, request, sent, texts, pc, outcome, streamVars>>

EmbedReturns ==
    /\ call = "embed" /\ pc = "call" /\ pos >= texts
    /\ Ends("complete")
    /\ UNCHANGED streamVars
    /\ Unchanged

Over == pc = "ended" /\ UNCHANGED vars

Next ==
    \/ OpenStream \/ ChatChunk \/ ClaudeEvent \/ ClaudeStop \/ GeminiChunk
    \/ GeminiTextThrows \/ IteratorEnds \/ FinalResolves \/ Rejects
    \/ CompleteAnswers \/ EmbedBatch \/ EmbedReturns
    \/ Over

Spec == Init /\ [][Next]_vars
----------------------------------------------------------------------------
Chunks == INSTANCE ChunkStream WITH
    text     <- IF call = "stream" THEN fullContent ELSE <<>>,
    finished <- finished,
    outcome  <- IF call = "stream" THEN outcome ELSE "open",
    cut      <- vendor = "cut"

\* The four adapters look the same to the Generator, though their vendors' streams
\* differ: tokens in order, none after done, one end, and no completion without
\* done unless the vendor's stream was cut.
ImplementsChunkStream == Chunks!Spec

\* An answer that is taken for complete is the whole answer: the draft has every
\* token of the model, once and in order, and is empty only if the model said
\* nothing or was cut off before its first token.  The token usage recorded with it
\* is the vendor's, for a whole answer of Claude and Gemini.  (For OpenAI and
\* DashScope it is lost when it comes after the chunk with the finish_reason.)
AnswerIsKept ==
    outcome = "complete" /\ call # "embed" =>
        /\ fullContent = [i \in 1..said |-> i]
        /\ vendor = "stopped" /\ provider \notin ChatApi => usage

\* The fallback provider is asked what the first one was asked: each adapter shows
\* its vendor the system prompt and the system messages (Gemini: the prompt alone),
\* and every other message once, in order and in its role.
PromptArrives ==
    sent # <<>> =>
        /\ Keep(sent, OtherTurns) = Keep(Turns, OtherTurns)
        /\ Keep(sent, SystemTurns) =
              SystemPart \o IF provider = "gemini" THEN <<>> ELSE Keep(Turns, SystemTurns)

\* A returned list of vectors has one per text, in the order of the texts (the
\* callers pair them by position), however the texts are cut into batches.
EmbeddingsAlign ==
    call = "embed" /\ outcome = "complete" => vectors = [i \in 1..texts |-> i]
=============================================================================

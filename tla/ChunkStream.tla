---------------------------- MODULE ChunkStream ----------------------------
(***************************************************************************)
(* What a subscriber of ILLMProvider.stream() (llm-provider.interface.ts)  *)
(* relies on, whichever provider answers: chunks of text in the order in   *)
(* which the model said them, no text after the chunk marked `done`, one   *)
(* end, and completion only after `done` (the vendor's connection may be   *)
(* cut before).                                                            *)
(***************************************************************************)
EXTENDS Naturals, Sequences

VARIABLES text,      \* the tokens that arrived, numbered as the model said them
          finished,  \* the chunk marked `done` has arrived
          outcome,   \* "open", "complete" or "error"
          cut        \* the vendor's stream ended early

vars == <<text, finished, outcome, cut>>

Init == text = <<>> /\ ~finished /\ outcome = "open" /\ ~cut

\* A chunk arrives, with the next token or without any.  A provider may complete
\* together with its last chunk.
Chunk ==
    /\ outcome = "open" /\ ~finished
    /\ text' \in {text, Append(text, Len(text) + 1)}
    /\ finished' \in BOOLEAN
    /\ outcome' \in IF finished' THEN {"open", "complete"} ELSE {"open"}
    /\ cut' \in {cut, TRUE}

End ==
    /\ outcome = "open"
    /\ cut' \in {cut, TRUE}
    /\ outcome' \in IF finished \/ cut' THEN {"complete", "error"} ELSE {"error"}
    /\ UNCHANGED <<text, finished>>

Cut == outcome = "open" /\ cut' = TRUE /\ UNCHANGED <<text, finished, outcome>>

Next == Chunk \/ End \/ Cut

Spec == Init /\ [][Next]_vars
=============================================================================

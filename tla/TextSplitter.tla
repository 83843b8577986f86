---------------------------- MODULE TextSplitter ----------------------------
(***************************************************************************)
(* TextSplitterService.split (src/rag/services/text-splitter.service.ts),  *)
(* the function that cuts a parsed document into the chunks RagIngestion   *)
(* indexes.  A text is a sequence of characters, and the properties are    *)
(* about what becomes of them.                                             *)
(***************************************************************************)
EXTENDS Integers, Sequences, SequencesExt

CONSTANTS Letters,      \* a sequence of distinct letters
          ChunkSizes,   \* values of chunkSize
          Overlaps      \* values of chunkOverlap

ASSUME SizesAssumption ==
    ChunkSizes \subseteq Nat \ {0} /\ Overlaps \subseteq Nat /\ IsInjective(Letters)

VARIABLES text, chunkSize, chunkOverlap,   \* the arguments of split
          chunks,                          \* what it returned
          pc

vars == <<text, chunkSize, chunkOverlap, chunks, pc>>

Space == " "
Newline == "\n"
White == {Space, Newline}
IsBlank(s) == Range(s) \subseteq White

\* In order of priority (mutant: words are not among them).
Separators_NoWords == << <<Newline, Newline>>, <<Newline>>, <<".", Space>>, <<"!", Space>>,
                         <<"?", Space>>, <<>> >>

Separators == << <<Newline, Newline>>, <<Newline>>, <<".", Space>>, <<"!", Space>>,
                 <<"?", Space>>, <<Space>>, <<>> >>
----------------------------------------------------------------------------
(* String.prototype.split and trim *)

RECURSIVE SplitOn(_, _)
SplitOn(s, sep) ==
    LET at == {i \in 1..Len(s) : i + Len(sep) - 1 <= Len(s) /\ SubSeq(s, i, i + Len(sep) - 1) = sep}
    IN  IF at = {} THEN <<s>>
        ELSE <<SubSeq(s, 1, Min(at) - 1)>> \o SplitOn(SubSeq(s, Min(at) + Len(sep), Len(s)), sep)

Pieces(s, sep) == IF sep = <<>> THEN [i \in DOMAIN s |-> <<s[i]>>] ELSE SplitOn(s, sep)

Trim(s) ==
    LET ink == {i \in DOMAIN s : s[i] \notin White}
    IN  IF ink = {} THEN <<>> ELSE SubSeq(s, Min(ink), Max(ink))
----------------------------------------------------------------------------
\* Pieces of at most size characters, cut at the first separator that does.
RECURSIVE RecursiveSplit(_, _, _)
RecursiveSplit(s, seps, size) ==
    IF Len(s) <= size \/ seps = <<>> THEN <<s>>
    ELSE LET Refine(piece) ==
                 IF Len(piece) > size /\ Tail(seps) # <<>>
                 THEN RecursiveSplit(piece, Tail(seps), size) ELSE <<piece>>
             refined == FoldLeft(LAMBDA acc, piece : acc \o Refine(piece),
                                 <<>>, Pieces(s, Head(seps)))
         IN  SelectSeq(refined, LAMBDA piece : ~IsBlank(piece))

\* The last words of s that fit into overlap characters.
OverlapText(s, overlap) ==
    LET starts == {1} \cup {i + 1 : i \in {k \in DOMAIN s : s[k] = Space}}
        fitting == {i \in starts : Len(s) - i + 1 <= overlap}
    IN  IF fitting = {} THEN <<>> ELSE SubSeq(s, Min(fitting), Len(s))

Join(a, b) == IF a = <<>> THEN b ELSE a \o <<Space>> \o b

Push(merged, current) == IF current = <<>> THEN merged ELSE Append(merged, Trim(current))

\* One round of the loop of mergeChunksWithOverlap (mutant: without the space).
MergePiece_OffByOne(acc, piece, size, overlap) ==
    IF Len(acc.current) + Len(piece) <= size
    THEN [acc EXCEPT !.current = Join(@, piece)]
    ELSE [merged |-> Push(acc.merged, acc.current),
          current |-> Join(OverlapText(acc.current, overlap), piece)]

MergePiece(acc, piece, size, overlap) ==
    IF Len(acc.current) + Len(piece) + 1 <= size
    THEN [acc EXCEPT !.current = Join(@, piece)]
    ELSE [merged |-> Push(acc.merged, acc.current),
          current |-> Join(OverlapText(acc.current, overlap), piece)]

Loop(pieces, size, overlap) ==
    FoldLeft(LAMBDA acc, piece : MergePiece(acc, piece, size, overlap),
             [merged |-> <<>>, current |-> <<>>], pieces)

\* Mutant of MergeChunksWithOverlap: the last chunk is not pushed.
MergeChunksWithOverlap_NoFlush(pieces, size, overlap) == Loop(pieces, size, overlap).merged

MergeChunksWithOverlap(pieces, size, overlap) ==
    LET end == Loop(pieces, size, overlap)
    IN  IF IsBlank(end.current) THEN end.merged ELSE Append(end.merged, Trim(end.current))
----------------------------------------------------------------------------
\* Texts whose letters are all different, so that each can be found again.
Texts ==
    LET shapes == UNION {[1..n -> {"x", ".", Space, Newline}] : n \in 0..Len(Letters)}
    IN  {[i \in DOMAIN f |-> IF f[i] = "x" THEN Letters[i] ELSE f[i]] : f \in shapes}

Init ==
    /\ text \in Texts
    /\ chunkSize \in ChunkSizes /\ chunkOverlap \in Overlaps
    /\ chunks = <<>>
    /\ pc = "called"

Split ==
    /\ pc = "called"
    /\ chunks' = MergeChunksWithOverlap(RecursiveSplit(text, Separators, chunkSize),
                                        chunkSize, chunkOverlap)
    /\ pc' = "returned"
    /\ UNCHANGED <<text, chunkSize, chunkOverlap>>

Next == Split \/ (pc = "returned" /\ UNCHANGED vars)

Spec == Init /\ [][Next]_vars
----------------------------------------------------------------------------
LettersOf(s) == SelectSeq(s, LAMBDA c : c \in Range(Letters))
Place(c) == CHOOSE i \in DOMAIN Letters : Letters[i] = c

\* s is a stretch of t.
Occurs(s, t) == \E i \in 0..(Len(t) - Len(s)) : SubSeq(t, i + 1, i + Len(s)) = s

\* No letter of the document is lost or moved: each chunk has a contiguous part of
\* the letters, the parts end one after the other in the text's order
\* (overlapping or not), and together they are all.
NothingLost ==
    pc = "returned" =>
        LET part == [i \in DOMAIN chunks |-> LettersOf(chunks[i])]
        IN  /\ Range(FlattenSeq(part)) = Range(LettersOf(text))
            /\ \A i \in DOMAIN part : Occurs(part[i], LettersOf(text))
            /\ \A i, j \in DOMAIN part :
                  i < j /\ part[i] # <<>> /\ part[j] # <<>> =>
                      Place(Last(part[i])) <= Place(Last(part[j]))

\* The words of the text: what stands between white space.
Words(s) ==
    {SubSeq(s, i, j) : <<i, j>> \in
        {<<i, j>> \in (DOMAIN s) \X (DOMAIN s) :
            /\ i <= j
            /\ \A k \in i..j : s[k] \notin White
            /\ i = 1 \/ s[i - 1] \in White
            /\ j = Len(s) \/ s[j + 1] \in White}}

\* A word that fits into a chunk is in one of them in one piece, but for a full
\* stop at its end, which the sentence separators swallow.
WordsIntact ==
    pc = "returned" =>
        \A w \in Words(text) : Len(w) <= chunkSize =>
            LET stem == IF Last(w) = "." THEN Front(w) ELSE w
            IN  stem = <<>> \/ \E i \in DOMAIN chunks : Occurs(stem, chunks[i])

\* A chunk is never blank and has at most chunkSize characters; the overlap it
\* starts with, and a space, come on top.
SizeBounded ==
    pc = "returned" =>
        \A i \in DOMAIN chunks :
            /\ ~IsBlank(chunks[i])
            /\ Len(chunks[i]) <= chunkSize + (IF chunkOverlap = 0 THEN 0 ELSE chunkOverlap + 1)
=============================================================================

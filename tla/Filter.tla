------------------------------- MODULE Filter -------------------------------
(***************************************************************************)
(* Array.prototype.filter with a test of membership.  Unlike SelectSeq it  *)
(* takes a set and no operator, so that lemmas about it can be stated for  *)
(* every test.                                                             *)
(***************************************************************************)
EXTENDS Integers, Sequences

\* The elements of the sequence c that are in S, in their order.
Keep(c, S) ==
    LET kept[n \in 0..Len(c)] ==
            IF n = 0 THEN <<>>
            ELSE IF c[n] \in S THEN Append(kept[n - 1], c[n]) ELSE kept[n - 1]
    IN  kept[Len(c)]
=============================================================================

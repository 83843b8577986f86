--------------------------- MODULE MCTextSplitter ---------------------------
(* TextSplitter on all texts of up to six characters. *)
EXTENDS TextSplitter

MCLetters == <<"a", "b", "c", "d", "e", "f">>
=============================================================================

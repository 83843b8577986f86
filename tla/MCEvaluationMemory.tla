------------------------- MODULE MCEvaluationMemory -------------------------
(* EvaluationMemory with the weights of configuration.ts. *)
EXTENDS EvaluationMemory

MCWeights == [relevance |-> 30, tone |-> 25, factuality |-> 25, readability |-> 20]
=============================================================================

--------------------------- MODULE MCJobLifecycle ---------------------------
(* A small instance of JobLifecycle: two replicas with one worker slot each. *)
EXTENDS JobLifecycle, TLC

CONSTANTS r1, r2, s1, s2

OneSlotEach == (s1 :> r1) @@ (s2 :> r2)
=============================================================================

----------------------------- MODULE MCPlatform -----------------------------
(* Two replicas with one worker slot each. *)
EXTENDS Platform, TLC

CONSTANTS r1, r2, s1, s2

OneSlotEach == (s1 :> r1) @@ (s2 :> r2)

\* States that differ only in what is never read again are one: the locals of an
\* idle slot, whether and on which replica a request was answered, and the columns and
\* events that no step and no property of the run looks at.
Busily(s, x) == IF pc[s] = "idle" THEN None ELSE x[s]
View ==
    <<status, result, queueVars, pc, writes, envVars, sseVars,
      [j \in Jobs |-> IF api[j] = "saved" THEN host[j] ELSE None],
      [s \in Slots |-> <<Busily(s, job), Busily(s, made), Busily(s, run)>>],
      runs, abandoned, tokens, heard>>
=============================================================================

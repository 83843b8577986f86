---------------------------- MODULE MCLLMRouter ----------------------------
(* Small instances of LLMRouter. *)
EXTENDS LLMRouter

CONSTANTS claude, openai, gemini

MCChain == <<claude, gemini, openai>>
=============================================================================

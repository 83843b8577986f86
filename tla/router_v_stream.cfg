SPECIFICATION FairSpec
CONSTANTS
  claude = claude
  openai = openai
  gemini = gemini
  None = None
  Requests = {r1}
  Providers = {claude, openai, gemini}
  Registered = {claude, openai}
  FallbackChain <- MCChain
  EmbeddingProvider = openai
  MaxRetries = 2
  Kinds = {"stream"}
  Preferred = {None, openai}
  FailureThreshold = 2
  CooldownMs = 1
  MaxTime = 2
  MaxChunks = 2
INVARIANT StreamFromOneProvider

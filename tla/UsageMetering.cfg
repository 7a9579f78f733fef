SPECIFICATION Spec
CONSTANTS
  Rates <- MCRates
  PerMtok = 4
  Pad = 1
  Registered = {"anthropic", "openai", "tinfoil"}
  RequestIds <- MCIds
  Options = {"plain", "one_hour", "n", "best_of", "service_tier", "own_tool", "web_search_tool"}
  Prompts <- MCPrompts
  Caps <- MCCaps
  DefaultMaxOutput = 1
  Drifts <- MCDrifts
  BetaHeaders <- MCBetas
  MaxFrames = 2
  CharsPerFrame = {0, 5}
CHECK_DEADLOCK FALSE
INVARIANTS
  TypeOK
  HonestBillIsExact
  BilledOnEvidence

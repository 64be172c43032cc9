SPECIFICATION Spec
CONSTANTS
  None = None
  g1 = g1
  g2 = g2
  o = o
  a = a
  c1 = c1
  c2 = c2
  Providers <- AllProviders
  Sessions <- AllSessions
  Calls <- AllCalls
  ProviderOf <- Providing
  Threads <- AllThreads
  NewLogins = {"grok"}
  Retries = 1
  MaxTokens = 5
  MaxFaults = 2
INVARIANTS SlotsSurvive GrokTokenIsHonoured GrokLoginStands

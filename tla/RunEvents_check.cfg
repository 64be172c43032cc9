SPECIFICATION FairSpec
CONSTANTS
  MaxEvents = 2
  MaxFacts = 2
  RECONNECT_ATTEMPTS = 2
  MaxFaults = 2
INVARIANTS NoHoleInStore FactsArrive BrowserHasAll
CHECK_DEADLOCK FALSE
PROPERTIES EveryoneHears

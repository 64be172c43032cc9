SPECIFICATION SetupSpec
CONSTANTS
  Logins <- AllProviders
  Budget = 10
  Expiries = {4, 14}
  Cap = 3
  Interval = 2
  SlowDown = 2
  Backoff = 1
  MAX_CODE_ATTEMPTS = 2
  LoginRetries = 2
  MaxInterval = 6
  MaxLate = 2
  Families = {"gemini", "openai_like", "minimax", "zai"}
  Worlds <- SomeWorlds
  FlagSets <- SomeFlags
  Temperatures = {0, 5, 15}
  MaxPicks = 2
  MaxWizards = 2
CHECK_DEADLOCK FALSE
INVARIANTS OutcomeIsTrue RunsAsChosen TemperatureFits
PROPERTIES LoginEnds

SPECIFICATION Spec
CONSTANTS
  Modes = {"fast", "manager", "stateless", "external"}
  MaxSteps = 3
  Messages = {m1, m2}
  m1 = m1
  m2 = m2
  c1 = c1
  c2 = c2
  Calls = {c1, c2}
  Complete = Complete
  None = None
  MaxBatch = 2
  MalformedLimit = 2
  FailureLimit = 3
  KeepSteps = 1
  ErrThresh = 2
  ManagerRetries = 1
INVARIANTS FinishHasSeenMessages CorrectionsSurvive NoRetryLoop ExecutesWhatWasAsked
PROPERTIES RunEnds

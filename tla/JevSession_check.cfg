SPECIFICATION Spec
CONSTANTS
  a1 = a1
  b1 = b1
  lock = lock
  Screens = {a1, b1, lock}
  LockedScreens = {lock}
  PackageOf <- PackageOfThese
  Taps = {"tap"}
  Moves = {"home", "open", "text"}
  Home = "home"
  OpenApp = "open"
  Wait = "wait"
  None = "none"
  MaxSteps = 3
  HasAdvisor = TRUE
  MAX_TAPS_PER_SCREEN = 1
  MAX_REPEATS_PER_SCREEN = 2
  JEV_ATTEMPTS = 1
  StaleLimit = 4
INVARIANTS NeverInVain LoopsAreBroken WorkIsReported

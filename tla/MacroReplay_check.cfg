SPECIFICATION ReplaySpec
CONSTANTS
  x=x
  y=y
  z=z
  k=k
  form = form
  typing = typing
  Views={form, typing}
  Keyboard={k}
  Labels={z}
  Names={"search","results"}
  Fits<-FitsOfThese
  Layout<-LayoutOfThese
  BoundsOf<-BoundsOfThese
  SizeOf<-SizeOfThese
  Modes={"plain","vision","ios","shots"}
  Nil=Nil
  MAX_RETRIES=2
  RECOVERY_AFTER=1
  MaxTurns=2
  MaxCalls=2
  MaxActions=2
  MaxMoves=1
  MaxFaults=1
  MaxPolls = 1

CHECK_DEADLOCK FALSE
INVARIANTS
  TapHitsWhatWasRead
  PointLandsWhereSeen
  ReplayMeetsWhatWasMet

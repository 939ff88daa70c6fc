SPECIFICATION Spec
CONSTANTS
  Runs = {a, b}
  Domains = {"code", "security"}
  MaxIters = 2
  MaxLoops = 2
  NoLoop = NoLoop
INVARIANTS TypeOK CompletedInFull OwnContext
PROPERTIES EveryRunEnds
CHECK_DEADLOCK FALSE

SPECIFICATION Spec
CONSTANTS
  Runs = {a}
  Domains = {"code", "security"}
  MaxIters = 2
  MaxLoops = 2
  NoLoop = NoLoop
INVARIANTS VerifiedOnCompletion
CHECK_DEADLOCK FALSE

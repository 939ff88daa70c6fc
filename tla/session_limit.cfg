SPECIFICATION Spec
CONSTANTS
  Runs = {a, b}
  None = None
  WriteTools = {"delegate_task", "patch_file"}
  MaxConcurrentRuns = 1
  MaxPrompts = 2
  MaxSteps = 2
INVARIANTS RunsBound
CHECK_DEADLOCK FALSE

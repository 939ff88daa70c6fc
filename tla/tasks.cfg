SPECIFICATION Spec
CONSTANT Tasks = {a, b, c}
INVARIANTS TypeOK OneTaskRuns
PROPERTIES AbortHolds RunDrains OrderFollowed EveryTaskSettles
CHECK_DEADLOCK FALSE

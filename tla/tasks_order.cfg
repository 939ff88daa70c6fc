SPECIFICATION Spec
CONSTANT Tasks = {a, b, c}
PROPERTIES PrioritizedFirst
CHECK_DEADLOCK FALSE

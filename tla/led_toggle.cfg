SPECIFICATION Spec
CONSTANT Presses = 3
INVARIANT TogglesEachPress
CHECK_DEADLOCK FALSE

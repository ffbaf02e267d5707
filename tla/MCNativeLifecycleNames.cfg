SPECIFICATION Spec
CONSTANT MaxContexts = 2
INVARIANT NamesAreCurrent
CHECK_DEADLOCK FALSE

SPECIFICATION Spec
CONSTANTS
  Preempt = {"task"}
  MemFails = FALSE
INVARIANTS
  AssertionsHold
CHECK_DEADLOCK FALSE

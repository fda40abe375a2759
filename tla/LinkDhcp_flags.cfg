SPECIFICATION Spec
CONSTANTS
  Preempt = {"isr"}
  MemFails = FALSE
INVARIANTS
  LinkFlagKept

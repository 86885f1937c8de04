SPECIFICATION Spec
CONSTANTS
  MaxAttempts = 2
  MaxToolCalls = 2
  MaxElapsed = 1
  DelayedEffects = FALSE
INVARIANTS KnownSuccessReported
CHECK_DEADLOCK FALSE

SPECIFICATION Spec
CONSTANTS
  MaxAttempts = 2
  MaxToolCalls = 3
  MaxElapsed = 1
  DelayedEffects = FALSE
PROPERTIES UnknownFailureReplans
CHECK_DEADLOCK FALSE

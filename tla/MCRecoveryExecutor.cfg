SPECIFICATION OnTimeSpec
CONSTANTS
  MaxAttempts = 3
  MaxToolCalls = 3
  MaxElapsed = 1
  DelayedEffects = FALSE
INVARIANT AtMostOnce
PROPERTIES NoBlindRetry Termination ImplementsContract
CHECK_DEADLOCK FALSE

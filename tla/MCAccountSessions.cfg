SPECIFICATION Spec
CONSTANTS
  Workers = {w1, w2}
  Sessions = {s1, s2}
  RequireMfa = TRUE
  MaxFailures = 2
  SessionTtl = 1
  StepUpTtl = 1
  EnrollmentTtl = 1
  LockTtl = 1
  CodeCount = 1
  MaxNow = 1
  MaxSecrets = 2
  MaxBatches = 2
  MaxEpoch = 1
  MaxMisses = 2
  NoWorker = NoWorker
  NoSession = NoSession
SYMMETRY Interchangeable
CONSTRAINT Focused
INVARIANTS CodesAcceptedOnce FactorCoherent LiveSessionsCurrent EveryMissCounts
PROPERTIES RevokedIsFinal MandatoryFactorKept

SPECIFICATION AllSpec
CONSTANTS
  Requests = {1, 2, 3, 4}
  MaxRequests = 2
  WindowSeconds = 1
  Second = 2
  MaxClock = 5
  NoRequest = 0
  MaxAttempts = 3
  MaxToolCalls = 3
  MaxElapsed = 1
  MaxTtl = 2
  Skew = 1
  LastInstant = 6
  MaxSpecialists = 2
  MaxWave = 2
  Clients = {3, 4}
  MaxParts = 1
  MinQueries = 2
  MinKappa = 6000
  MaxRatings = 3
  Samples = 3
  TotalRequests = 3
  Concurrency = 2
  LastSession = 3
  LastAsk = 2
  LastLogout = 2
  ContractNamesRef = TRUE
  MaxEvidence = 3
  MaxClaims = 2
  MaxInput = 5
  MaxUrl = 2
  MaxUrls = 2
  MaxUrlTotal = 3
  MaxKeys = 2
  LastRequest = 2
  LastLogin = 1
  Logins = {1, 2}
  LastSessionOpened = 2
INVARIANTS
  AllTyped
  QuotaRespected
  AtMostOnceUnlessOptedIn
  ApprovedExactly
  ComputationsHold
  TenantsApart
  EvidenceHonest
  OneUserAtATime
  GoIsEarned
  AnswersSupported
PROPERTY RetryAfterIsEnough
CHECK_DEADLOCK FALSE
ACTION_CONSTRAINT Bounded
CONSTRAINT NoReplan
VIEW Seen

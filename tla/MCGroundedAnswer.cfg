SPECIFICATION FocusedSpec
CONSTANTS
  Requests = {r1, r2}
  Items = {i1, i2}
  Claims = {c1}
  Verdicts = {"absent", "low", "high"}
  Approved = {"low", "high"}
  Absent = "absent"
  Confidences = {"unverified", "low", "high"}
  Unverified = "unverified"
  Confidence <- Stated
  MaxRevision = 4
  r1 = r1  r2 = r2  i1 = i1  i2 = i2
  Users = {"ann"}
  UserOf <- OneUser
  NoRequest = NoRequest
INVARIANTS QuotesWereStanding ProviderHoldsNothing AuditTruthful
PROPERTY OthersProceed
CHECK_DEADLOCK FALSE

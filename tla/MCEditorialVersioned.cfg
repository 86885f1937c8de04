SPECIFICATION Spec
CONSTANTS
  ed = ed adm = adm
  Users = {u1, u2, u3}
  RoleOf <- AllAdmins
  Workers = {w1, w2}
  Texts = {t1} Sources = {s1} Claims = {}
  RowLocks = FALSE EnforceSoD = TRUE MaxRevision = 6
  NoUser = NoUser NoWorker = NoWorker
SYMMETRY Interchangeable
INVARIANTS DistinctDuties IndexedIffPublished
PROPERTIES WorkflowOrder

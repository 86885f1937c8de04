SPECIFICATION Spec
CONSTANTS
  ed = ed adm = adm
  Users = {u1, u2, u3}
  RoleOf <- AllAdmins
  Workers = {w1, w2}
  Texts = {t1, t2} Sources = {s1} Claims = {c1, c2}
  RowLocks = TRUE EnforceSoD = TRUE MaxRevision = 5
  NoUser = NoUser NoWorker = NoWorker
SYMMETRY Interchangeable
INVARIANTS ReviewStands PublishedEvidence
PROPERTY PublicContract

SPECIFICATION Spec
CONSTANTS
  ed = ed adm = adm
  Users = {ed, adm}
  RoleOf <- TeamOfTwo
  Workers = {w1}
  Texts = {t1, t2} Sources = {s1} Claims = {c1}
  RowLocks = TRUE EnforceSoD = TRUE MaxRevision = 5
  NoUser = NoUser NoWorker = NoWorker
INVARIANT NoAuthorApproves

SPECIFICATION Spec
CONSTANTS
  Users = {u1, u2}
  Workers = {w1, w2}
  NoUser = NoUser NoWorker = NoWorker
INVARIANT SomeActiveOwner
PROPERTY EveryRequestEnds

\* Two devices share two addresses; in four changes one comes, the other takes its address and it comes back.
SPECIFICATION FairSpec
CONSTANTS
  Device = {d1, d2}
  Address = {a1, a2}
  NOWHERE = NOWHERE
  LABEL = LABEL
  Worker = {w1, w2, w3}
  MaxChanges = 4
  MaxDeaths = 1
INVARIANTS OneWorkerEach
PROPERTIES NetworkIsLearned ColorsFindTheirDevice
CHECK_DEADLOCK FALSE

SPECIFICATION Spec
CONSTANTS
  Commands = {c1, c2, c3}
  Clients = {t1, t2, t3, t4}
  AgentQueueLength = 2
  NULL = NULL
INVARIANTS TypeOK EachInOnePlace AssertsHold
PROPERTIES CommandsReturn LendsWhole

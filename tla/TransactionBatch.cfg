CONSTANTS
  t1 = t1
  t2 = t2
  alice = alice
  Txs = {t1, t2}
  Account <- MCAccount
  Sequence <- MCSequence
  Clients = {c1, c2}
  Workers = {w1, w2}
  MaxSubmits = 3
SPECIFICATION Spec
CHECK_DEADLOCK FALSE
INVARIANTS
  QueuedOnce
  QueueIsServed
PROPERTIES
  NothingDropped
  SyncReturns
  QueueDrains

SPECIFICATION Spec
CONSTANTS
  d1 = d1
  v1 = v1
  acme = acme
  globex = globex
  ann = ann
  root = root
  r1 = r1
  r2 = r2
  w1 = w1
  None = None
  Documents = {d1}
  Conversations = {v1}
  OwnerOf <- MCOwnerOf
  Readers = {r1, r2}
  Writers = {w1}
  ReaderRole <- MCRole
  HomeOf <- MCHomeOf
  UserOf <- MCUserOf
  CachedKeys <- MCKeys
  TTL = 2
  MaxDelay = 1
  Faults = {"redis", "stop"}
INVARIANTS
  TypeOK
  BoundedStaleness
  StaleOnlyIfExcused
  ServedInScope
CHECK_DEADLOCK FALSE

SPECIFICATION Spec
CONSTANTS
  alice = alice
  u1 = u1
  u2 = u2
  t1 = t1
  a1 = a1
  a2 = a2
  r1 = r1
  r2 = r2
  None = None
  Keys <- MCKeys
  Users <- MCUsers
  NameOf <- MCNameOf
  Tokens = {t1}
  Attempts = {a1, a2}
  Requests = {r1, r2}
  Limit = 1
  Window = 2
  CacheTTL = 2
  TokenLife = 3
  MaxDelay = 1
  Faults = {"redis_error", "api_stop"}
INVARIANTS
  TypeOK
  OwnerOnly
  CacheWithinLife
  CounterExpires
PROPERTIES
  LogoutTakesHold
  GrantsImplemented
SYMMETRY Symmetry
CHECK_DEADLOCK FALSE

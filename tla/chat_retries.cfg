SPECIFICATION Spec
CONSTANTS
  r1 = r1
  r2 = r2
  r3 = r3
  ann = ann
  bob = bob
  k1 = k1
  None = None
  Requests = {r1, r2, r3}
  Users = {ann, bob}
  UserOf <- MCUserOf
  Keys = {k1}
  KeyOf <- MCKeyOf
  acme = acme
  globex = globex
  ModeOf <- MCModeOf
  Home <- MCHome
  Movers = {ann}
  MaxRunning = 2
  Companies = {acme, globex}
  Faults = {"database", "redis", "agent", "disconnect"}
SYMMETRY Retries
INVARIANTS
  TypeOK
  RetryAddsNoTurn
  AnswerIsOwnStoredTurn
  OrderedTurns
  OwnHistory
  DeletedUserLeavesNothing
PROPERTIES
  TranscriptsImplemented
CHECK_DEADLOCK FALSE

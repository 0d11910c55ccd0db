SPECIFICATION Spec
CONSTANTS
  r1 = r1
  r2 = r2
  acme = acme
  globex = globex
  None = None
  Requests = {r1, r2}
  Companies = {acme, globex}
  CompanyOf <- MCCompanyOf
  Queries = {q1}
  Calls = {c1, c2}
  PoolSize = 2
  RecursionLimit = 4
  Faults = {}
INVARIANTS
  PersistsAssistantMessage
CHECK_DEADLOCK FALSE

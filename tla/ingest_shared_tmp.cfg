SPECIFICATION Spec
CONSTANTS
  d1 = d1
  d2 = d2
  c1 = c1
  c2 = c2
  f1 = f1
  f2 = f2
  w1 = w1
  w2 = w2
  None = None
  Docs = {d1, d2}
  Companies = {c1, c2}
  Workers = {w1, w2}
  FileNames = {f1}
  CompanyOf <- TwoCompanies
  FileOf <- SameName
  Cloud = TRUE
  MaxTaskRetries = 0
  MaxFaults = 0
  Faults = {}
INVARIANTS
  TenantIsolation
CHECK_DEADLOCK FALSE

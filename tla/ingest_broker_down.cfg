SPECIFICATION Spec
CONSTANTS
  d1 = d1
  d2 = d2
  c1 = c1
  c2 = c2
  f1 = f1
  f2 = f2
  w1 = w1
  w2 = w2
  None = None
  Docs = {d1}
  Companies = {c1}
  Workers = {w1}
  FileNames = {f1}
  CompanyOf <- OneCompany
  FileOf <- OneName
  Cloud = FALSE
  MaxTaskRetries = 1
  MaxFaults = 0
  Faults = {"broker_down"}
INVARIANTS
  PendingIsQueued
CHECK_DEADLOCK FALSE

SPECIFICATION Spec
CONSTANTS
  d1 = d1
  d2 = d2
  c1 = c1
  c2 = c2
  f1 = f1
  f2 = f2
  w1 = w1
  w2 = w2
  None = None
  Docs = {d1, d2}
  Companies = {c1, c2}
  Workers = {w1, w2}
  FileNames = {f1}
  CompanyOf <- TwoCompanies
  FileOf <- SameName
  Cloud = FALSE
  MaxTaskRetries = 1
  MaxFaults = 0
  Faults = {"put_error", "delete_error", "db_error", "broker_down", "api_stop"}
INVARIANTS
  TypeOK
  TenantIsolation
PROPERTIES
  DeletedStaysDeleted
CHECK_DEADLOCK FALSE

SPECIFICATION FairSpec
CONSTANTS
  d1 = d1
  d2 = d2
  c1 = c1
  c2 = c2
  f1 = f1
  f2 = f2
  w1 = w1
  w2 = w2
  None = None
  Docs = {d1}
  Companies = {c1}
  Workers = {w1, w2}
  FileNames = {f1}
  CompanyOf <- OneCompany
  FileOf <- OneName
  Cloud = FALSE
  MaxTaskRetries = 1
  MaxFaults = 2
  Faults = {"worker_crash", "redelivery", "put_error", "delete_error"}
INVARIANTS
  NoStrandedDocument
  BoundedIngestion
  SourceKept
PROPERTIES
  BoundedWork
  EventuallySettled
CHECK_DEADLOCK FALSE

SPECIFICATION Spec
CONSTANTS
  h1 = h1
  h2 = h2
  root = root
  u1 = u1
  u2 = u2
  acme = acme
  globex = globex
  nroot = nroot
  n1 = n1
  x1 = x1
  None = None
  Ops <- MCOps
  Users = {root, u1, u2}
  Root = root
  RootName = nroot
  Names = {nroot, n1}
  Companies = {acme, globex}
  CompanyNames = {x1, x2}
  Handlers = {h1, h2}
SYMMETRY Sym
INVARIANTS
  TypeOK
  UniqueNames
  SuperAdminStandsAlone
  CompanyExists
  OrphansOnlyByRace
PROPERTIES
  OnlySuperAdminMoves
  DirectoryImplemented
CHECK_DEADLOCK FALSE

INIT ServedInit
NEXT ServedNext
SYMMETRY Symmetric
CONSTANTS
  r1 = r1
  r2 = r2
  r3 = r3
  L1 = L1
  L2 = L2
  NoLandscape = NoLandscape
  n = n
  x = x
  y = y
  T = T
  U = U
  Repos = {r1, r2, r3}
  Landscapes = {L1, L2}
  Refs = {n}
  ContractPayloads <- MCPayloads
  Leaves = {T, U}
  ExportLists <- MCExportLists
  FailSets <- MCFailSets
  s1 = s1
  s2 = s2
  Servers = {s1, s2}
  Asked = {n}
  Cli = cli
  Overlap = FALSE
  MaxTime = 2
  None = None
INVARIANTS
  ServedIsFresh
  RowsAreCurrent
  VerdictsAreOwn
  VerdictsAreTrue
  SurfacesAreUsable
CHECK_DEADLOCK FALSE

SPECIFICATION MCSpec
CONSTANTS
  r1 = r1
  r2 = r2
  r3 = r3
  L1 = L1
  L2 = L2
  NoLandscape = NoLandscape
  n = n
  x = x
  y = y
  T = T
  U = U
  Repos = {r1, r2, r3}
  Landscapes = {L1, L2}
  Refs = {n}
  ContractPayloads <- MCPayloads
  Leaves = {T, U}
  ExportLists <- MCExportLists
  FailSets <- MCFailSets
INVARIANT VerdictsNeverContradict
CHECK_DEADLOCK FALSE

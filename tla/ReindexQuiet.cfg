INIT Init
NEXT UncutNext
CONSTANTS
  d1 = d1
  d2 = d2
  c1 = c1
  c2 = c2
  v1 = v1
  v2 = v2
  g1 = g1
  g2 = g2
  p1 = p1
  p2 = p2
  Docs = {d1, d2}
  Codes = {c1}
  Versions = {v1, v2}
  Graphs = {g1, g2}
  Parsers = {p1, p2}
  DocOf <- MCDocOf
  Absent = Absent
  EditsDuringRun = FALSE
  MaxFailures = 0
INVARIANTS
  QuietRunIsCurrent
  RunCanProceed
  BaselineKept

SPECIFICATION Spec
CONSTANTS
  graph = graph
  guide = guide
  code = code
  v1 = v1
  v2 = v2
  Absent = Absent
  Files = {graph, guide}
  GraphFiles = {graph}
  Docs = {guide}
  Versions = {v1, v2}
  Dir <- MCDir
  Ext <- MCExt
  SourceDirs <- MCSourceDirs
  Hidden = {}
  WatcherOn = TRUE
  TakeTurns = TRUE
  MaxEdits = 3
  MaxRuns = 2
INVARIANT BadgeCoversDrift
PROPERTY ChangesAreIndexed
CHECK_DEADLOCK FALSE

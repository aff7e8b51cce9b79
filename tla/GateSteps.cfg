INIT GateInit
NEXT GateNext
CHECK_DEADLOCK FALSE
CONSTANTS
  Absent = Absent
  Missing = Missing
  Nodes = {1, 2, 3}
  MaxDepth = 3
  RefOf <- MCRefOf
  KindOf <- MCKindOf
  TagsOf <- MCTagsOf
  DirOf <- MCDirOf
  FileOf <- MCFileOf
  Modules <- MCModules
  ContentsOf <- MCContentsOf
  ImportsIn <- MCImportsIn
  SymbolsIn <- MCSymbolsIn
  ScanPaths <- MCScanPaths
  Graphs <- MCGraphs
  RuleFiles <- MCRuleFiles
  LedgerOf <- MCLedgerOf
  Blank = Blank
  Garbage = Garbage
  Refused = Refused
  Unset = Unset
  Unusable = Unusable
  Above <- MCAbove
  Files <- MCFiles
  Texts <- MCTexts
  Projects <- MCProjects
  Configs <- MCConfigs
  Suffix <- MCSuffix
  LanguageOf <- MCLanguageOf
  MaxSteps = 2
  r1 = r1
  d1 = d1
  c1 = c1
  fn = fn
  gn = gn
  NoName = NoName
  MaxLines = 3
  Refs = {r1}
  Docs = {d1}
  Names = {fn}
  DocsOf <- MCDocsOf
  CodesOf <- MCCodesOf
  Revisions <- MCRevisions
  a1 = a1
  a2 = a2
  Agents <- Two
  Ids <- MCIds
  Starts <- MCStarts
  Tests = {TRUE, FALSE}
  Breakable <- MCBreakable
  MaxCalls = 2
  MaxOutside = 1
SYMMETRY Alike
INVARIANTS
  EveryCycleFound
  CyclesAreReal
  GreenMeansClean
  NothingInvented
  FalseClaimsFound
  AttributionComplete
  SyncAgrees
  HonestVerdict
PROPERTY SyncTouchesOnlyDrift

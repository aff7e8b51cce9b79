INIT ProjectInit
NEXT ProjectNext
CHECK_DEADLOCK FALSE
CONSTANTS
  na = na
  nb = nb
  foreign = foreign
  malformed = malformed
  s1 = s1
  s2 = s2
  url = url
  Refs = {na, nb}
  Foreign = foreign
  Malformed = malformed
  AnySummary = {s1, s2}
  Summaries = {s2}
  Urls = {url}
  FileCount = 2
  MaxWrites = 2
  MaxAuthor = 1
  MaxFaults = 1
  Layouts <- MCLayouts
  Roles = {"dev"}
  Commands = {"coordinator"}
  MaxReleases = 2
  MaxFacts = 2
  MaxUser = 2
  MaxCommands = 1
  DirOrder <- MCDirOrder
  KnownDirs = {"packages", "services"}
  SkippedDirs = {}
  Names = {"shop", "shop-api"}
  Pattern <- MCPattern
  Names2 = {"api"}
  RefIds <- MCRefIds
  Sanitized <- MCSanitized
  ChildRef <- MCChildRef
  OtherName = "acme"
  MaxTreeEdits = 1
  Trees <- MCTrees
  Graphs <- MCGraphs
  Docs <- MCDocs
  Scanned <- MCScanned
  WatchLists <- MCWatchLists
  Absent = Absent
  MaxEdits = 3
  MaxSnapshots = 2
  Nodes <- MCNodes
  Row <- MCRow
  EdgeSets <- MCEdgeSets
  Questions <- MCQuestions
  RulesYml <- MCRulesYml
  Blank = Blank
  Garbage = Garbage
  Refused = Refused
INVARIANTS
  GraphNeverTorn
  UpdateReachesTheLoadedNode
  NothingSilentlyDropped
  FixConverges
  BootstrapIsSound
  SurfaceDriftKept
  
  AnswersAreWhole
PROPERTY ProseIsSafe

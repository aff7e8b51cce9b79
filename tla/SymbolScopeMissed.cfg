SPECIFICATION ScopeSpec
CONSTANTS
  r1 = r1
  d1 = d1
  c1 = c1
  fn = fn
  gn = gn
  NoName = NoName
  Missing = Missing
  MaxLines = 1
  Refs = {r1}
  Docs = {d1}
  Names = {fn}
  DocsOf <- MCDocsOf
  CodesOf <- MCCodesOf
  Revisions <- MCRevisions
INVARIANT NeverUnderRefresh
CHECK_DEADLOCK FALSE

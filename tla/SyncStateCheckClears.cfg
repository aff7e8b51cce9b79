SPECIFICATION Spec
CONSTANTS
  r1 = r1
  r2 = r2
  d1 = d1
  d2 = d2
  c1 = c1
  c2 = c2
  v0 = v0
  v1 = v1
  v2 = v2
  v3 = v3
  s1 = s1
  s2 = s2
  w1 = w1
  w2 = w2
  Refs = {r1}
  Docs = {d1}
  Codes = {c1}
  DocVersions = {w1, w2}
  CodeVersions = {v1, v2}
  Symbols = {s1, s2}
  DocRef <- MCDocRef
  Annotated <- MCAnnotated
  Absent = Absent
  NoHash = NoHash
PROPERTY CheckNeverClears

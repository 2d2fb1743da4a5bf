SPECIFICATION Spec
CONSTANTS
  s1 = s1
  s2 = s2
  s3 = s3
  d = d
  e = e
  a = a
  b = b
  t = t
  u = u
  none = none
  NoName = none
  Nothing = Nothing
  Scripts = {s1, s2}
  Rank <- MCRank2
  Texts <- MCTexts
  MaxVersion = 8
  MaxId = 5
INVARIANT SchemaIndexIsComplete
CHECK_DEADLOCK FALSE

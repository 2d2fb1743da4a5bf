SPECIFICATION Spec
CONSTANTS
  s1 = s1
  s2 = s2
  s3 = s3
  d = d
  e = e
  a = a
  b = b
  t = t
  u = u
  none = none
  NoName = none
  Nothing = Nothing
  Scripts = {s1, s2, s3}
  Rank <- MCRank
  Texts <- MCTexts
  MaxVersion = 4
  MaxId = 3
INVARIANTS TypeOK IndexesFollowEntries ReferencedIsDeclared IdsNameOneThing
  QualifiedNamesAreCurrent VersionProtectsReferences
CHECK_DEADLOCK FALSE

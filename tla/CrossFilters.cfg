SPECIFICATION FairSpec
CONSTANTS
  Selections = {none, f1}
  NoFilter = none
  Orders = {o1}
  Unordered = unordered
  Views = {v1, v2}
  Nothing = Nothing
  MaxDisturbances = 3
  MaxTasks = 12
INVARIANTS LatestFilterIsShown SummaryIsOfFilter ShownFramesAreAlive
PROPERTY SelectionIsShown
CHECK_DEADLOCK FALSE

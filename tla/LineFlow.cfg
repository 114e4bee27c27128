CONSTANTS
  MaxLines = 6
  PipeLines = 2
  entriesPerPage = 2
  MaxClicks = 3
  Undated <- MCUndated
  Time <- MCTime
SPECIFICATION FairSpec
INVARIANTS
  FlowTypeOK
  OnlyTheGapIsLost
  PagesCoverEntries
  ShownIsPart
  NewestShown
  PageIsFilled
  PageKeepsFileOrder
PROPERTY
  LinesArrive
CHECK_DEADLOCK FALSE

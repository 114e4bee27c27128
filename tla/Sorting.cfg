CONSTANTS
  MaxLines = 4
  PipeLines = 2
  entriesPerPage = 2
  MaxClicks = 0
  Undated <- MCUndated
  Time <- MCTime
SPECIFICATION Spec
INVARIANT SortedByTime
CHECK_DEADLOCK FALSE

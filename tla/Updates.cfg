CONSTANTS
  MaxLines = 3
  PipeLines = 2
  entriesPerPage = 2
  MaxClicks = 0
  Undated <- MCUndated
  Time <- MCTime
SPECIFICATION FairSpec
PROPERTY PanelUpdates
CHECK_DEADLOCK FALSE

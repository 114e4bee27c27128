CONSTANTS
  Conn = {c1}
  Fd <- MCFd4
  Text <- MCText
  File = {f1}
  Log = {l1,l2}
  Opening = opening
  Closing = closing
  NoConn = none
  NoText = notext
  NoLog = nolog
  NoFile = nofile
  MaxSends = 3
  MaxLines = 1
  PeerFaults = {"leave", "stall"}
  Faults = {"tail exit", "fork", "fdopen"}
SPECIFICATION Spec
INVARIANTS
  TypeOK
  NoLostLogsWakeup
  LogsOwnDescriptors
  HangsOnLeaver
  LinesAfterHandshake
PROPERTIES
  HangIsForGood
  LeaksAreFailures
CHECK_DEADLOCK FALSE

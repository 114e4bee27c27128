CONSTANTS
  Conn = {c1}
  Fd <- MCFd4
  Text <- MCText
  File = {f1, f2}
  Log = {l1,l2}
  Opening = opening
  Closing = closing
  NoConn = none
  NoText = notext
  NoLog = nolog
  NoFile = nofile
  MaxSends = 3
  MaxLines = 1
  PeerFaults = {}
  Faults = {}
SPECIFICATION Spec
PROPERTIES
  ExceptionMeansError
CHECK_DEADLOCK FALSE

CONSTANTS
  Conn = {c1}
  Fd <- MCFd4
  Text <- MCText
  File = {f1}
  Log = {l1,l2}
  Opening = opening
  Closing = closing
  NoConn = none
  NoText = notext
  NoLog = nolog
  NoFile = nofile
  MaxSends = 2
  MaxLines = 1
  PeerFaults = {"stall"}
  Faults = {}
SPECIFICATION FairSpec
PROPERTIES
  NewLogIsRead
  MessageIsHandled
CHECK_DEADLOCK FALSE

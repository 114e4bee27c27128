CONSTANTS
  Conn = {c1}
  Fd <- MCFd4
  Text <- MCAdds
  File = {f1, f2}
  Log = {l1,l2}
  Opening = opening
  Closing = closing
  NoConn = none
  NoText = notext
  NoLog = nolog
  NoFile = nofile
  MaxSends = 2
  MaxLines = 1
  PeerFaults = {"leave"}
  Faults = {}
SPECIFICATION FairSpec
PROPERTIES
  NewLogIsRead
CHECK_DEADLOCK FALSE

CONSTANTS
  Conn = {c1,c2}
  Fd <- MCFd5
  Text <- MCText
  File = {f1}
  Log = {l1,l2}
  Opening = opening
  Closing = closing
  NoConn = none
  NoText = notext
  NoLog = nolog
  NoFile = nofile
  MaxSends = 1
  MaxLines = 1
  PeerFaults = {"leave"}
  Faults = {"tail exit", "fork"}
SPECIFICATION Spec
SYMMETRY MCSymmetry
INVARIANTS
  LogsHaveClients
  DeliversToOwner
PROPERTIES
  OnlyOwnLogsEnd
  WSSpec
  MissingOnlyInRace
  KeepsSubscriptions
CHECK_DEADLOCK FALSE

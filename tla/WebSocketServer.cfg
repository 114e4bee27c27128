\* Two connections and two descriptors: a connection gets the number another
\* one just closed, a refused one leaks its own, and the derived class can take
\* what is left so that accept finds none.
CONSTANTS
  Conn = {c1, c2}
  Fd <- MCFd
  Text = {t1}
  Opening = opening
  Closing = closing
  NoConn = none
  NoText = notext
  MaxSends = 1
  PeerFaults = {"stall", "leave"}
SPECIFICATION WSFairSpec
INVARIANTS
  WSTypeOK
  UniqueIds
  SocketsOwned
  FdSetCurrent
  NoLostWakeup
  IdsStayLow
  LeakedByRefusals
PROPERTIES
  FramesAreRead
  LeaversAreErased
CHECK_DEADLOCK FALSE

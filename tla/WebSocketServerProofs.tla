----------------------- MODULE WebSocketServerProofs -----------------------
(***************************************************************************)
(* Proofs about WebSocketServer, for any number of connections,            *)
(* descriptors and messages.                                               *)
(***************************************************************************)
EXTENDS WebSocketServer, TLAPS

\* Where the reader is busy with the client cur.
AtClient == {"recv", "onmessage", "disconnect", "ondisconnect", "erase"}

\* What the position of each thread says of its own variables, and that they
\* are not both inside clients_mutex.
ThreadsOK ==
  /\ cl_conn = NoConn <=> cl_pc = "accept"
  /\ cl_conn # NoConn => cl_conn \notin clients
  /\ cur = NoConn <=> ml_pc \notin AtClient
  /\ cur # NoConn => cur \in clients \ flagged
  /\ flagged \subseteq clients
  /\ flagged # {} => ml_pc \in AtClient \cup {"pass"}
  /\ cl_pc = "insert" => ml_pc \notin AtClient \cup {"pass"}
  /\ ml_pc = "onmessage" => text \in Text

\* A connection has a socket from accept until it is closed, two connections
\* never the same, and a client in the map is connected until it is the one
\* being disconnected.
SocketsOK ==
  /\ \A c \in Conn : socket[c] # -1 <=> link[c] \in {"tls", "up"}
  /\ \A c \in Conn : socket[c] # -1 => fds[socket[c]] = "socket"
  /\ \A c, d \in Conn : socket[c] = socket[d] /\ socket[c] # -1 => c = d
  /\ \A c \in clients :
       IF c = cur /\ ml_pc \in {"ondisconnect", "erase"} THEN link[c] = "closed"
                                                      ELSE link[c] = "up"
  /\ cl_conn # NoConn => link[cl_conn] = (IF cl_pc = "tls" THEN "tls" ELSE "up")

\* Ids: those in the map are handed out and no two are the same.
IdsOK ==
  /\ \A c \in clients : id[c] \in Nat
  /\ UniqueIds

WSInv == WSTypeOK /\ ThreadsOK /\ SocketsOK /\ IdsOK /\ FdSetCurrent /\ NoLostWakeup

-----------------------------------------------------------------------------
(* Types *)

\* The initial state has the types.
LEMMA WSTypeInit == WSInit => WSTypeOK
<1> SUFFICES ASSUME WSInit PROVE WSTypeOK
  OBVIOUS
<1>1. inbox \in [Conn -> Seq(Text \cup {Opening, Closing})]
  BY DEF WSInit
<1>2. sent \in [Conn -> 0 .. MaxSends]
  BY BoundAssumption DEF WSInit
<1> QED
  BY <1>1, <1>2 DEF WSInit, WSTypeOK

\* Every step keeps them.
LEMMA WSTypeStep == WSTypeOK /\ ThreadsOK /\ [WSNext]_wsVars => WSTypeOK'
<1> SUFFICES ASSUME WSTypeOK, ThreadsOK, [WSNext]_wsVars PROVE WSTypeOK'
  OBVIOUS
<1> USE FdAssumption, BoundAssumption, TextAssumption, ConnAssumption
<1> USE DEF WSTypeOK, ThreadsOK, peerVars, mapVars, clVars, mlVars
<1>1. ASSUME NEW c \in Conn, Dial(c) PROVE WSTypeOK'
  BY <1>1 DEF Dial
<1>2. ASSUME NEW c \in Conn, PeerLeaves(c) PROVE WSTypeOK'
  BY <1>2 DEF PeerLeaves
<1>3. ASSUME NEW c \in Conn, PeerStalls(c) PROVE WSTypeOK'
  BY <1>3 DEF PeerStalls
<1>4. ASSUME NEW c \in Conn, PeerResumes(c) PROVE WSTypeOK'
  BY <1>4 DEF PeerResumes
<1>5. ASSUME NEW c \in Conn, NEW t \in Text, PeerSends(c, t) PROVE WSTypeOK'
  BY <1>5 DEF PeerSends
<1>6. ASSUME NEW c \in Conn, Accept(c) PROVE WSTypeOK'
  BY <1>6 DEF Accept, FreeFds, Lowest
<1>7. ASSUME NEW first \in {Opening, Closing}, TlsAccepted(first) PROVE WSTypeOK'
  BY <1>7 DEF TlsAccepted
<1>8. CASE TlsRefused
  BY <1>8 DEF TlsRefused
<1>9. CASE LockToInsert
  BY <1>9 DEF LockToInsert
<1>10. CASE Insert
  BY <1>10 DEF Insert, GenerateID, Signalled
<1>11. CASE SpuriousWakeup \/ SelectFails
  BY <1>11 DEF SpuriousWakeup, SelectFails
<1>12. CASE SleepOnEmptyMap
  BY <1>12 DEF SleepOnEmptyMap
<1>13. CASE FillFdSet
  BY <1>13 DEF FillFdSet
<1>14. CASE SelectReturns
  BY <1>14 DEF SelectReturns, SelectReady, SelectTimeout
<1>15. CASE LockToRead
  BY <1>15 DEF LockToRead
<1>16. ASSUME NEW c \in Conn, NextClient(c) PROVE WSTypeOK'
  BY <1>16 DEF NextClient
<1>17. CASE EndPass
  BY <1>17 DEF EndPass
<1>18. CASE ReceiveNothing
  BY <1>18 DEF ReceiveNothing
<1>19. CASE ReceiveHandshake
  <2>1. inbox[cur] \in Seq(Text \cup {Opening, Closing}) /\ inbox[cur] # <<>>
    BY <1>19 DEF ReceiveHandshake, AtClient
  <2>2. Tail(inbox[cur]) \in Seq(Text \cup {Opening, Closing})
    BY <2>1
  <2>3. alive' \in BOOLEAN
    BY <1>19 DEF ReceiveHandshake, SurvivesSend
  <2> QED
    BY <1>19, <2>2, <2>3 DEF ReceiveHandshake
<1>20. CASE ReceiveText
  <2>1. inbox[cur] \in Seq(Text \cup {Opening, Closing}) /\ inbox[cur] # <<>>
    BY <1>20 DEF ReceiveText, AtClient
  <2>2. Tail(inbox[cur]) \in Seq(Text \cup {Opening, Closing})
    BY <2>1
  <2> QED
    BY <1>20, <2>2 DEF ReceiveText
<1>21. CASE ReceiveFails
  BY <1>21 DEF ReceiveFails
<1>22. CASE Disconnect
  <2>1. inbox' \in [Conn -> Seq(Text \cup {Opening, Closing})]
    <3>1. <<>> \in Seq(Text \cup {Opening, Closing}) /\ inbox' = [inbox EXCEPT ![cur] = <<>>]
      BY <1>22 DEF Disconnect
    <3> QED
      BY <3>1
  <2>2. sent' \in [Conn -> 0 .. MaxSends]
    <3>1. 0 \in 0 .. MaxSends /\ sent' = [sent EXCEPT ![cur] = 0]
      BY <1>22 DEF Disconnect
    <3> QED
      BY <3>1
  <2>3. fds' \in [Fd -> {"free", "socket", "other"}] /\ socket' \in [Conn -> Fd \cup {-1}]
    BY <1>22 DEF Disconnect, CloseSocket
  <2>4. alive' \in BOOLEAN
    BY <1>22 DEF Disconnect, SurvivesSend
  <2>5. link' \in [Conn -> {"new", "dialing", "tls", "failed", "up", "closed"}]
    BY <1>22 DEF Disconnect
  <2> QED
    BY <1>22, <2>1, <2>2, <2>3, <2>4, <2>5 DEF Disconnect
<1>23. CASE Erase
  BY <1>23 DEF Erase
<1>24. CASE HandlersReturn
  BY <1>24 DEF HandlersReturn, ReturnFromOnMessage, ReturnFromOnDisconnect, OwnDescriptors
<1>25. CASE DerivedStep
  BY <1>25 DEF DerivedStep, OwnDescriptors
<1>26. CASE UNCHANGED wsVars
  BY <1>26 DEF wsVars
<1> QED
  BY <1>1, <1>2, <1>3, <1>4, <1>5, <1>6, <1>7, <1>8, <1>9, <1>10, <1>11, <1>12, <1>13,
     <1>14, <1>15, <1>16, <1>17, <1>18, <1>19, <1>20, <1>21, <1>22, <1>23, <1>24, <1>25,
     <1>26
     DEF WSNext, ServerStep, Peer, ListenConnections, ReadMessages

-----------------------------------------------------------------------------
(* Threads *)

\* Every step keeps what the positions of the threads say.
LEMMA ThreadsStep == WSTypeOK /\ ThreadsOK /\ SocketsOK /\ [WSNext]_wsVars => ThreadsOK'
<1> SUFFICES ASSUME WSTypeOK, ThreadsOK, SocketsOK, [WSNext]_wsVars PROVE ThreadsOK'
  OBVIOUS
<1> USE ConnAssumption
<1> USE DEF ThreadsOK, AtClient, WSTypeOK, peerVars, mapVars, clVars, mlVars
<1>1. ASSUME NEW c \in Conn, Peer(c) PROVE ThreadsOK'
  BY <1>1 DEF Peer, Dial, PeerLeaves, PeerStalls, PeerResumes, PeerSends
<1>2. ASSUME NEW c \in Conn, Accept(c) PROVE ThreadsOK'
  BY <1>2 DEF Accept, SocketsOK
<1>3. ASSUME NEW first \in {Opening, Closing}, TlsAccepted(first) PROVE ThreadsOK'
  BY <1>3 DEF TlsAccepted
<1>4. CASE TlsRefused
  BY <1>4 DEF TlsRefused
<1>5. CASE LockToInsert
  BY <1>5 DEF LockToInsert, ClientsFree
<1>6. CASE Insert
  BY <1>6 DEF Insert, Signalled
<1>7. CASE SpuriousWakeup \/ SelectFails
  BY <1>7 DEF SpuriousWakeup, SelectFails
<1>8. CASE SleepOnEmptyMap \/ FillFdSet \/ SelectReturns
  BY <1>8 DEF SleepOnEmptyMap, FillFdSet, SelectReturns, SelectReady, SelectTimeout
<1>9. CASE LockToRead
  BY <1>9 DEF LockToRead, ClientsFree
<1>10. ASSUME NEW c \in Conn, NextClient(c) PROVE ThreadsOK'
  BY <1>10 DEF NextClient
<1>11. CASE EndPass
  BY <1>11 DEF EndPass
<1>12. CASE ReceiveNothing \/ ReceiveHandshake \/ ReceiveText \/ ReceiveFails
  BY <1>12 DEF ReceiveNothing, ReceiveHandshake, ReceiveText, ReceiveFails
<1>13. CASE Disconnect
  BY <1>13 DEF Disconnect
<1>14. CASE Erase
  BY <1>14 DEF Erase
<1>15. CASE HandlersReturn
  BY <1>15 DEF HandlersReturn, ReturnFromOnMessage, ReturnFromOnDisconnect
<1>16. CASE DerivedStep
  BY <1>16 DEF DerivedStep
<1>17. CASE UNCHANGED wsVars
  BY <1>17 DEF wsVars
<1> QED
  BY <1>1, <1>2, <1>3, <1>4, <1>5, <1>6, <1>7, <1>8, <1>9, <1>10, <1>11, <1>12, <1>13,
     <1>14, <1>15, <1>16, <1>17
     DEF WSNext, ServerStep, ListenConnections, ReadMessages

-----------------------------------------------------------------------------
(* Sockets *)

\* The kernel gives a new connection a descriptor that no other has.
LEMMA SocketsAccept ==
  ASSUME WSTypeOK, ThreadsOK, SocketsOK, NEW c \in Conn, Accept(c)
  PROVE  SocketsOK'
<1> USE DEF WSTypeOK, ThreadsOK, SocketsOK, AtClient, mapVars, mlVars
<1> USE ConnAssumption, FdAssumption
<1>1. PICK f \in Fd : /\ fds[f] = "free"
                      /\ fds' = [fds EXCEPT ![f] = "socket"]
                      /\ socket' = [socket EXCEPT ![c] = f]
  BY DEF Accept, FreeFds
<1>2. /\ link[c] = "dialing" /\ link' = [link EXCEPT ![c] = "tls"]
      /\ cl_conn' = c /\ cl_pc' = "tls" /\ UNCHANGED <<clients, cur, ml_pc>>
  BY DEF Accept
<1>3. c \notin clients /\ socket[c] = -1
  BY <1>2
<1>4. f # -1
  BY <1>1
<1>5. \A d \in Conn : socket[d] # f
  BY <1>1, <1>4
<1>6. \A d \in Conn : socket'[d] # -1 <=> link'[d] \in {"tls", "up"}
  BY <1>1, <1>2, <1>4
<1>7. \A d \in Conn : socket'[d] # -1 => fds'[socket'[d]] = "socket"
  BY <1>1, <1>2, <1>5
<1>8. \A d, e \in Conn : socket'[d] = socket'[e] /\ socket'[d] # -1 => d = e
  BY <1>1, <1>3, <1>5
<1> QED
  BY <1>2, <1>3, <1>6, <1>7, <1>8

\* Closing the socket of the client being disconnected leaves the others'.
LEMMA SocketsDisconnect ==
  ASSUME WSTypeOK, ThreadsOK, SocketsOK, Disconnect
  PROVE  SocketsOK'
<1> USE DEF WSTypeOK, ThreadsOK, SocketsOK, AtClient, mapVars, clVars, mlVars
<1> USE ConnAssumption, FdAssumption
<1>1. /\ ml_pc = "disconnect" /\ ml_pc' = "ondisconnect"
      /\ fds' = [fds EXCEPT ![socket[cur]] = "free"]
      /\ socket' = [socket EXCEPT ![cur] = -1]
      /\ link' = [link EXCEPT ![cur] = "closed"]
      /\ UNCHANGED <<clients, cur, cl_pc, cl_conn>>
  BY DEF Disconnect, CloseSocket
<1>2. cur \in Conn /\ cur \in clients /\ cur # cl_conn /\ link[cur] = "up"
  BY <1>1
<1>3. \A d \in Conn : d # cur /\ socket[d] # -1 => socket[d] # socket[cur]
  BY <1>2
<1>4. \A d \in Conn : socket'[d] # -1 => fds'[socket'[d]] = "socket"
  BY <1>1, <1>2, <1>3
<1> QED
  BY <1>1, <1>2, <1>4

\* Every step keeps who owns which socket.
LEMMA SocketsStep == WSTypeOK /\ ThreadsOK /\ SocketsOK /\ [WSNext]_wsVars => SocketsOK'
<1> SUFFICES ASSUME WSTypeOK, ThreadsOK, SocketsOK, [WSNext]_wsVars PROVE SocketsOK'
  OBVIOUS
<1> USE ConnAssumption
<1> USE DEF SocketsOK, ThreadsOK, AtClient, WSTypeOK, peerVars, mapVars, clVars, mlVars
<1>1. ASSUME NEW c \in Conn, Peer(c) PROVE SocketsOK'
  <2>1. CASE Dial(c)
    BY <2>1 DEF Dial
  <2>2. CASE PeerLeaves(c) \/ PeerStalls(c) \/ PeerResumes(c)
    BY <2>2 DEF PeerLeaves, PeerStalls, PeerResumes
  <2>3. CASE \E t \in Text : PeerSends(c, t)
    BY <2>3 DEF PeerSends
  <2> QED
    BY <1>1, <2>1, <2>2, <2>3 DEF Peer
<1>2. ASSUME NEW c \in Conn, Accept(c) PROVE SocketsOK'
  BY <1>2, SocketsAccept
<1>3. ASSUME NEW first \in {Opening, Closing}, TlsAccepted(first) PROVE SocketsOK'
  BY <1>3 DEF TlsAccepted
<1>4. CASE TlsRefused
  BY <1>4 DEF TlsRefused
<1>5. CASE LockToInsert
  BY <1>5 DEF LockToInsert
<1>6. CASE Insert
  BY <1>6 DEF Insert, Signalled
<1>7. CASE SpuriousWakeup \/ SelectFails
  BY <1>7 DEF SpuriousWakeup, SelectFails
<1>8. CASE SleepOnEmptyMap \/ FillFdSet \/ SelectReturns
  BY <1>8 DEF SleepOnEmptyMap, FillFdSet, SelectReturns, SelectReady, SelectTimeout
<1>9. CASE LockToRead
  BY <1>9 DEF LockToRead
<1>10. ASSUME NEW c \in Conn, NextClient(c) PROVE SocketsOK'
  BY <1>10 DEF NextClient
<1>11. CASE EndPass
  BY <1>11 DEF EndPass
<1>12. CASE ReceiveNothing \/ ReceiveHandshake \/ ReceiveText \/ ReceiveFails
  BY <1>12 DEF ReceiveNothing, ReceiveHandshake, ReceiveText, ReceiveFails
<1>13. CASE Disconnect
  BY <1>13, SocketsDisconnect
<1>14. CASE Erase
  BY <1>14 DEF Erase
<1>15. CASE HandlersReturn
  BY <1>15 DEF HandlersReturn, ReturnFromOnMessage, ReturnFromOnDisconnect, OwnDescriptors
<1>16. CASE DerivedStep
  BY <1>16 DEF DerivedStep, OwnDescriptors
<1>17. CASE UNCHANGED wsVars
  BY <1>17 DEF wsVars
<1> QED
  BY <1>1, <1>2, <1>3, <1>4, <1>5, <1>6, <1>7, <1>8, <1>9, <1>10, <1>11, <1>12, <1>13,
     <1>14, <1>15, <1>16, <1>17
     DEF WSNext, ServerStep, ListenConnections, ReadMessages

-----------------------------------------------------------------------------
(* Ids, the descriptors given to select, and the condition variable *)

\* Only Insert and Erase change the map and the ids.
LEMMA MapChanges == WSNext => Insert \/ Erase \/ UNCHANGED <<clients, id>>
<1> USE DEF mapVars
<1>1. \A c \in Conn : Peer(c) => UNCHANGED <<clients, id>>
  BY DEF Peer, Dial, PeerLeaves, PeerStalls, PeerResumes, PeerSends
<1>2. ListenConnections => Insert \/ UNCHANGED <<clients, id>>
  BY DEF ListenConnections, Accept, TlsAccepted, TlsRefused, LockToInsert
<1>3. ReadMessages => Erase \/ UNCHANGED <<clients, id>>
  BY DEF ReadMessages, SleepOnEmptyMap, FillFdSet, SelectReturns, SelectReady,
         SelectTimeout, LockToRead, NextClient, EndPass, ReceiveNothing,
         ReceiveHandshake, ReceiveText, ReceiveFails, Disconnect
<1>4. SpuriousWakeup \/ SelectFails \/ HandlersReturn \/ DerivedStep => UNCHANGED <<clients, id>>
  BY DEF SpuriousWakeup, SelectFails, HandlersReturn, ReturnFromOnMessage, ReturnFromOnDisconnect,
         DerivedStep
<1> QED
  BY <1>1, <1>2, <1>3, <1>4 DEF WSNext, ServerStep

\* Every step keeps ids apart: GenerateID looks at the whole map, and an id
\* is only freed with its node.
LEMMA IdsStep == WSTypeOK /\ ThreadsOK /\ IdsOK /\ [WSNext]_wsVars => IdsOK'
<1> SUFFICES ASSUME WSTypeOK, ThreadsOK, IdsOK, [WSNext]_wsVars PROVE IdsOK'
  OBVIOUS
<1> USE ConnAssumption
<1> USE DEF IdsOK, UniqueIds, ThreadsOK, AtClient, WSTypeOK, mapVars
<1>1. CASE Insert
  <2>1. PICK i : /\ GenerateID(i)
                 /\ i \in Nat
                 /\ id' = [id EXCEPT ![cl_conn] = i]
    <3>1. PICK i \in {id_counter} \cup {id[c] + 1 : c \in clients} :
                 GenerateID(i) /\ id' = [id EXCEPT ![cl_conn] = i]
      BY <1>1 DEF Insert
    <3>2. i \in Nat
      BY <3>1
    <3> QED
      BY <3>1, <3>2
  <2>2. \A c \in clients : id[c] # i
    BY <2>1 DEF GenerateID
  <2>3. cl_conn \in Conn /\ cl_conn \notin clients /\ clients' = clients \cup {cl_conn}
    BY <1>1 DEF Insert
  <2>4. id'[cl_conn] = i /\ \A c \in clients : id'[c] = id[c]
    BY <2>1, <2>3
  <2> QED
    BY <2>1, <2>2, <2>3, <2>4
<1>2. CASE Erase
  BY <1>2 DEF Erase
<1>3. CASE UNCHANGED <<clients, id>>
  BY <1>3
<1> QED
  BY <1>1, <1>2, <1>3, MapChanges DEF wsVars

\* Every step keeps the set given to select to sockets of clients: while the
\* reader is in select nothing closes one of them.
LEMMA FdSetStep ==
  WSTypeOK /\ ThreadsOK /\ SocketsOK /\ FdSetCurrent /\ [WSNext]_wsVars => FdSetCurrent'
<1> SUFFICES ASSUME WSTypeOK, ThreadsOK, SocketsOK, FdSetCurrent, [WSNext]_wsVars
             PROVE  FdSetCurrent'
  OBVIOUS
<1> USE ConnAssumption
<1> USE DEF FdSetCurrent, ThreadsOK, AtClient, WSTypeOK, peerVars, mapVars, clVars, mlVars
<1>1. ASSUME NEW c \in Conn, Peer(c) PROVE FdSetCurrent'
  BY <1>1 DEF Peer, Dial, PeerLeaves, PeerStalls, PeerResumes, PeerSends
<1>2. ASSUME NEW c \in Conn, Accept(c) PROVE FdSetCurrent'
  <2>1. c \notin clients
    BY <1>2 DEF Accept, SocketsOK
  <2>2. \A d \in clients : socket'[d] = socket[d]
    BY <1>2, <2>1 DEF Accept
  <2> QED
    BY <1>2, <2>2 DEF Accept
<1>3. ASSUME NEW first \in {Opening, Closing}, TlsAccepted(first) PROVE FdSetCurrent'
  BY <1>3 DEF TlsAccepted
<1>4. CASE TlsRefused
  BY <1>4 DEF TlsRefused
<1>5. CASE LockToInsert
  BY <1>5 DEF LockToInsert
<1>6. CASE Insert
  BY <1>6 DEF Insert, Signalled
<1>7. CASE SpuriousWakeup \/ SelectFails
  BY <1>7 DEF SpuriousWakeup, SelectFails
<1>8. CASE SleepOnEmptyMap \/ FillFdSet
  BY <1>8 DEF SleepOnEmptyMap, FillFdSet
<1>9. CASE SelectReturns
  BY <1>9 DEF SelectReturns, SelectReady, SelectTimeout
<1>10. CASE LockToRead
  BY <1>10 DEF LockToRead
<1>11. ASSUME NEW c \in Conn, NextClient(c) PROVE FdSetCurrent'
  BY <1>11 DEF NextClient
<1>12. CASE EndPass \/ Disconnect \/ Erase
  BY <1>12 DEF EndPass, Disconnect, Erase
<1>13. CASE ReceiveNothing \/ ReceiveHandshake \/ ReceiveText \/ ReceiveFails
  BY <1>13 DEF ReceiveNothing, ReceiveHandshake, ReceiveText, ReceiveFails
<1>14. CASE HandlersReturn
  BY <1>14 DEF HandlersReturn, ReturnFromOnMessage, ReturnFromOnDisconnect
<1>15. CASE DerivedStep
  BY <1>15 DEF DerivedStep
<1>16. CASE UNCHANGED wsVars
  BY <1>16 DEF wsVars
<1> QED
  BY <1>1, <1>2, <1>3, <1>4, <1>5, <1>6, <1>7, <1>8, <1>9, <1>10, <1>11, <1>12, <1>13,
     <1>14, <1>15, <1>16
     DEF WSNext, ServerStep, ListenConnections, ReadMessages

\* Every step keeps the reader from sleeping while there are clients: only the
\* first insertion finds it asleep, and that one signals.
LEMMA WakeupStep == WSTypeOK /\ ThreadsOK /\ NoLostWakeup /\ [WSNext]_wsVars => NoLostWakeup'
<1> SUFFICES ASSUME WSTypeOK, ThreadsOK, NoLostWakeup, [WSNext]_wsVars PROVE NoLostWakeup'
  OBVIOUS
<1> USE DEF NoLostWakeup, ThreadsOK, AtClient, WSTypeOK, peerVars, mapVars, clVars, mlVars
<1>1. ASSUME NEW c \in Conn, Peer(c) PROVE NoLostWakeup'
  BY <1>1 DEF Peer, Dial, PeerLeaves, PeerStalls, PeerResumes, PeerSends
<1>2. CASE ListenConnections
  BY <1>2 DEF ListenConnections, Accept, TlsAccepted, TlsRefused, LockToInsert, Insert,
              Signalled
<1>3. CASE SpuriousWakeup \/ SelectFails \/ HandlersReturn \/ DerivedStep
  BY <1>3 DEF SpuriousWakeup, SelectFails, HandlersReturn, ReturnFromOnMessage,
              ReturnFromOnDisconnect, DerivedStep
<1>4. CASE ReadMessages
  BY <1>4 DEF ReadMessages, SleepOnEmptyMap, FillFdSet, SelectReturns, SelectReady,
           SelectTimeout, LockToRead, NextClient, EndPass, ReceiveNothing,
           ReceiveHandshake, ReceiveText, ReceiveFails, Disconnect, Erase
<1>5. CASE UNCHANGED wsVars
  BY <1>5 DEF wsVars
<1> QED
  BY <1>1, <1>2, <1>3, <1>4, <1>5 DEF WSNext, ServerStep

-----------------------------------------------------------------------------
(* The theorems *)

\* The initial state satisfies the inductive invariant.
LEMMA WSInvInit == WSInit => WSInv
<1> SUFFICES ASSUME WSInit PROVE WSInv
  OBVIOUS
<1>1. WSTypeOK
  BY WSTypeInit
<1>2. ThreadsOK
  BY DEF WSInit, ThreadsOK, AtClient
<1>3. SocketsOK
  BY DEF WSInit, SocketsOK
<1>4. IdsOK /\ FdSetCurrent /\ NoLostWakeup
  BY DEF WSInit, IdsOK, UniqueIds, FdSetCurrent, NoLostWakeup
<1> QED
  BY <1>1, <1>2, <1>3, <1>4 DEF WSInv

\* Every step preserves it.
LEMMA WSInvStep == WSInv /\ [WSNext]_wsVars => WSInv'
BY WSTypeStep, ThreadsStep, SocketsStep, IdsStep, FdSetStep, WakeupStep DEF WSInv

\* The inductive invariant holds in every reachable state.
THEOREM WSInvariant == WSSpec => []WSInv
BY WSInvInit, WSInvStep, PTL DEF WSSpec

\* Every reachable state of the server has the types its variables declare.
THEOREM WSTypeCorrect == WSSpec => []WSTypeOK
<1>1. WSInv => WSTypeOK
  BY DEF WSInv
<1> QED
  BY <1>1, WSInvariant, PTL

\* No two clients in the map ever have the same id, though ids are handed out
\* again.
THEOREM IdsAreUnique == WSSpec => []UniqueIds
<1>1. WSInv => UniqueIds
  BY DEF WSInv, IdsOK
<1> QED
  BY <1>1, WSInvariant, PTL

\* A client in the map owns an open socket, shared with no other connection,
\* though accept gives closed descriptors out again.
THEOREM SocketsAreOwned == WSSpec => []SocketsOwned
<1>1. WSInv => SocketsOwned
  BY FdAssumption DEF WSInv, WSTypeOK, SocketsOK, SocketsOwned
<1> QED
  BY <1>1, WSInvariant, PTL

\* What is given to select belongs to clients in the map when it returns.
THEOREM FdSetIsCurrent == WSSpec => []FdSetCurrent
<1>1. WSInv => FdSetCurrent
  BY DEF WSInv
<1> QED
  BY <1>1, WSInvariant, PTL

\* The reader never sleeps while there is a client.
THEOREM WakeupIsNotLost == WSSpec => []NoLostWakeup
<1>1. WSInv => NoLostWakeup
  BY DEF WSInv
<1> QED
  BY <1>1, WSInvariant, PTL
=============================================================================

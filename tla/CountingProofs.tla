--------------------------- MODULE CountingProofs ---------------------------
(***************************************************************************)
(* Proofs about the numbers WebSocketServer hands out and uses up: the ids *)
(* of clients, and the descriptors that connections which fail leave open. *)
(***************************************************************************)
EXTENDS WebSocketServerProofs, FiniteSetTheorems

\* How many clients there have been bounds id_counter, and id_counter the ids
\* in the map.
IdsCounted ==
  /\ IsFiniteSet(Joined)
  /\ Joined = {} => id_counter = 0
  /\ Joined # {} => id_counter < Cardinality(Joined)
  /\ \A c \in clients : id[c] <= id_counter

Failed == {c \in Conn : link[c] = "failed"}

\* As many descriptors have leaked as connections have failed.
LeaksCounted ==
  /\ IsFiniteSet(Leaked) /\ IsFiniteSet(Failed)
  /\ Cardinality(Leaked) = Cardinality(Failed)

-----------------------------------------------------------------------------
(* Ids *)

\* Clients in the map were put there.
LEMMA ClientsJoined == WSInv => clients \subseteq Joined
BY ConnAssumption DEF WSInv, WSTypeOK, ThreadsOK, SocketsOK, Joined

\* GenerateID finds an id, and none but the last one handed out or the next.
LEMMA GenerateIDFinds ==
  ASSUME WSInv, \A c \in clients : id[c] <= id_counter
  PROVE  /\ \E i \in {id_counter, id_counter + 1} : GenerateID(i)
         /\ \A i \in Nat : GenerateID(i) => i \in {id_counter, id_counter + 1}
         /\ GenerateID(id_counter + 1) => clients # {}
<1> DEFINE used == {id[c] : c \in clients}
<1>1. id_counter \in Nat /\ used \subseteq Nat /\ \A i \in used : i <= id_counter
  BY DEF WSInv, WSTypeOK, IdsOK
<1>2. ASSUME id_counter \notin used PROVE GenerateID(id_counter)
  <2>1. id_counter .. (id_counter - 1) = {}
    BY <1>1
  <2> QED
    BY <1>1, <1>2, <2>1 DEF GenerateID
<1>3. ASSUME id_counter \in used PROVE GenerateID(id_counter + 1)
  <2>1. id_counter .. (id_counter + 1 - 1) = {id_counter}
    BY <1>1
  <2>2. id_counter + 1 \notin used
    BY <1>1
  <2> QED
    BY <1>1, <1>3, <2>1, <2>2 DEF GenerateID
<1>4. ASSUME NEW i \in Nat, GenerateID(i) PROVE i \in {id_counter, id_counter + 1}
  <2>1. i >= id_counter /\ \A j \in id_counter .. (i - 1) : j \in used
    BY <1>4 DEF GenerateID
  <2>2. i <= id_counter + 1
    <3>1. SUFFICES ASSUME i > id_counter + 1 PROVE FALSE
      BY <1>1
    <3>2. id_counter + 1 \in id_counter .. (i - 1)
      BY <1>1, <3>1
    <3>3. id_counter + 1 <= id_counter
      BY <1>1, <2>1, <3>2
    <3> QED
      BY <1>1, <3>3
  <2> QED
    BY <1>1, <2>1, <2>2
<1>5. GenerateID(id_counter + 1) => clients # {}
  <2>1. id_counter \in id_counter .. (id_counter + 1 - 1)
    BY <1>1
  <2> QED
    BY <2>1 DEF GenerateID
<1> QED
  BY <1>2, <1>3, <1>4, <1>5

\* Only Insert puts a client into the map or hands out an id.
LEMMA OnlyInsertJoins ==
  ASSUME WSInv, WSNext, ~Insert
  PROVE  /\ Joined' = Joined /\ id_counter' = id_counter
         /\ clients' \subseteq clients /\ \A c \in clients' : id'[c] = id[c]
<1> USE ConnAssumption
<1> USE DEF Joined, WSInv, ThreadsOK, AtClient, SocketsOK, WSTypeOK, peerVars, mapVars,
            clVars, mlVars
<1>1. ASSUME NEW c \in Conn, Peer(c)
      PROVE  Joined' = Joined /\ UNCHANGED <<id_counter, clients, id>>
  BY <1>1 DEF Peer, Dial, PeerLeaves, PeerStalls, PeerResumes, PeerSends
<1>2. ASSUME NEW c \in Conn, Accept(c)
      PROVE  Joined' = Joined /\ UNCHANGED <<id_counter, clients, id>>
  BY <1>2 DEF Accept
<1>3. ASSUME NEW first \in {Opening, Closing}, TlsAccepted(first)
      PROVE  Joined' = Joined /\ UNCHANGED <<id_counter, clients, id>>
  BY <1>3 DEF TlsAccepted
<1>4. CASE TlsRefused
  BY <1>4 DEF TlsRefused
<1>5. CASE LockToInsert \/ SpuriousWakeup \/ SelectFails
  BY <1>5 DEF LockToInsert, SpuriousWakeup, SelectFails
<1>6. CASE SleepOnEmptyMap \/ FillFdSet \/ SelectReturns \/ LockToRead \/ EndPass
  BY <1>6 DEF SleepOnEmptyMap, FillFdSet, SelectReturns, SelectReady, SelectTimeout,
              LockToRead, EndPass
<1>7. CASE (\E c \in Conn : NextClient(c)) \/ ReceiveNothing \/ ReceiveHandshake
           \/ ReceiveText \/ ReceiveFails
  BY <1>7 DEF NextClient, ReceiveNothing, ReceiveHandshake, ReceiveText, ReceiveFails
<1>8. CASE Disconnect
  <2>1. cur \in clients /\ cur # cl_conn /\ link[cur] = "up"
    BY <1>8 DEF Disconnect
  <2> QED
    BY <1>8, <2>1 DEF Disconnect
<1>9. CASE Erase
  BY <1>9 DEF Erase
<1>10. CASE HandlersReturn \/ DerivedStep
  BY <1>10 DEF HandlersReturn, ReturnFromOnMessage, ReturnFromOnDisconnect, DerivedStep
<1> QED
  BY <1>1, <1>2, <1>3, <1>4, <1>5, <1>6, <1>7, <1>8, <1>9, <1>10
     DEF WSNext, ServerStep, ListenConnections, ReadMessages

\* Every step keeps the count: a new id is one larger than the last only if
\* the last one is in the map.
LEMMA IdsCountedStep == WSInv /\ IdsCounted /\ [WSNext]_wsVars => IdsCounted'
<1> SUFFICES ASSUME WSInv, IdsCounted, [WSNext]_wsVars PROVE IdsCounted'
  OBVIOUS
<1>1. CASE WSNext /\ Insert
  <2>1. cl_conn \in Conn /\ cl_conn \notin clients /\ link[cl_conn] = "up" /\ cl_pc = "insert"
    BY <1>1 DEF Insert, WSInv, WSTypeOK, ThreadsOK, SocketsOK
  <2>2. PICK i \in Nat : /\ GenerateID(i)
                         /\ id_counter' = i
                         /\ id' = [id EXCEPT ![cl_conn] = i]
    <3>1. PICK i \in {id_counter} \cup {id[c] + 1 : c \in clients} :
                 GenerateID(i) /\ id_counter' = i /\ id' = [id EXCEPT ![cl_conn] = i]
      BY <1>1 DEF Insert
    <3>2. i \in Nat
      BY <3>1 DEF WSInv, WSTypeOK, IdsOK
    <3> QED
      BY <3>1, <3>2
  <2>3. i \in {id_counter, id_counter + 1} /\ (i = id_counter + 1 => clients # {})
        /\ id_counter \in Nat
    BY <2>2, GenerateIDFinds DEF IdsCounted, WSInv, WSTypeOK
  <2>4. Joined' = Joined \cup {cl_conn} /\ cl_conn \notin Joined
    BY <1>1, <2>1, ConnAssumption DEF Insert, Joined, peerVars
  <2>5. IsFiniteSet(Joined') /\ Cardinality(Joined') = Cardinality(Joined) + 1
        /\ Cardinality(Joined) \in Nat
    BY <2>4, FS_AddElement, FS_CardinalityType DEF IdsCounted
  <2>6. i < Cardinality(Joined) + 1
    <3>1. CASE Joined = {}
      BY <2>3, <2>5, <3>1, ClientsJoined DEF IdsCounted
    <3>2. CASE Joined # {}
      BY <2>3, <2>5, <3>2 DEF IdsCounted
    <3> QED
      BY <3>1, <3>2
  <2>7. \A c \in clients' : id'[c] <= id_counter'
    <3>1. clients' = clients \cup {cl_conn} /\ id'[cl_conn] = i
          /\ \A c \in clients : id'[c] = id[c]
      BY <1>1, <2>1, <2>2 DEF Insert, WSInv, WSTypeOK
    <3>2. \A c \in clients : id[c] <= id_counter /\ id[c] \in Nat
      BY DEF IdsCounted, WSInv, IdsOK
    <3> QED
      BY <2>2, <2>3, <3>1, <3>2
  <2> QED
    BY <2>2, <2>4, <2>5, <2>6, <2>7 DEF IdsCounted
<1>2. CASE WSNext /\ ~Insert
  BY <1>2, OnlyInsertJoins DEF IdsCounted
<1>3. CASE UNCHANGED wsVars
  BY <1>3 DEF IdsCounted, Joined, wsVars, peerVars, mapVars, clVars
<1> QED
  BY <1>1, <1>2, <1>3

\* GenerateID always ends at its first or second try, and the ids it hands out
\* stay below the number of clients there have been, so that id_counter + i
\* cannot overflow before as many clients have joined as an int can count.
THEOREM IdsStayBelowClients == WSSpec => []IdsStayLow
<1>1. WSInit => IdsCounted
  BY FS_EmptySet DEF WSInit, IdsCounted, Joined
<1>2. WSInv /\ IdsCounted /\ [WSNext]_wsVars => IdsCounted'
  BY IdsCountedStep
<1>3. WSInv /\ IdsCounted => IdsStayLow
  BY GenerateIDFinds DEF IdsCounted, IdsStayLow
<1> QED
  BY <1>1, <1>2, <1>3, WSInvariant, PTL DEF WSSpec

-----------------------------------------------------------------------------
(* Descriptors *)

\* Only a failing SSL_accept leaks a descriptor, and it leaks one.
LEMMA OnlyRefusalsLeak ==
  ASSUME WSInv, WSNext
  PROVE  \/ Leaked' = Leaked /\ Failed' = Failed
         \/ \E c \in Conn \ Failed, f \in Fd \ Leaked :
              Leaked' = Leaked \cup {f} /\ Failed' = Failed \cup {c}
<1> USE ConnAssumption, FdAssumption
<1> USE DEF Failed, Leaked, WSInv, ThreadsOK, AtClient, SocketsOK, WSTypeOK, peerVars, mapVars,
            clVars, mlVars
<1>1. ASSUME NEW c \in Conn, Peer(c) PROVE Leaked' = Leaked /\ Failed' = Failed
  BY <1>1 DEF Peer, Dial, PeerLeaves, PeerStalls, PeerResumes, PeerSends
<1>2. ASSUME NEW c \in Conn, Accept(c) PROVE Leaked' = Leaked /\ Failed' = Failed
  <2>1. PICK f \in Fd : /\ fds[f] = "free"
                        /\ fds' = [fds EXCEPT ![f] = "socket"]
                        /\ socket' = [socket EXCEPT ![c] = f]
    BY <1>2 DEF Accept, FreeFds
  <2>2. link[c] = "dialing" /\ link' = [link EXCEPT ![c] = "tls"] /\ socket[c] = -1
    BY <1>2 DEF Accept
  <2>3. \A g \in Fd : g \in Leaked' <=> g \in Leaked
    <3> TAKE g \in Fd
    <3>1. CASE g = f
      BY <2>1, <3>1
    <3>2. CASE g # f
      <4>1. fds'[g] = fds[g]
        BY <2>1, <3>2
      <4>2. (\E d \in Conn : socket'[d] = g) <=> (\E d \in Conn : socket[d] = g)
        BY <2>1, <2>2, <3>2
      <4> QED
        BY <4>1, <4>2
    <3> QED
      BY <3>1, <3>2
  <2>4. Failed' = Failed
    BY <2>2
  <2> QED
    BY <2>3, <2>4
<1>3. CASE (\E first \in {Opening, Closing} : TlsAccepted(first)) \/ LockToInsert \/ Insert
  BY <1>3 DEF TlsAccepted, LockToInsert, Insert
<1>4. CASE TlsRefused
  <2>1. /\ cl_conn \in Conn /\ link[cl_conn] = "tls" /\ fds' = fds
        /\ link' = [link EXCEPT ![cl_conn] = "failed"]
        /\ socket' = [socket EXCEPT ![cl_conn] = -1]
    BY <1>4 DEF TlsRefused
  <2> DEFINE f == socket[cl_conn]
  <2>2. f \in Fd /\ fds[f] = "socket" /\ \A d \in Conn : d # cl_conn => socket[d] # f
    BY <2>1
  <2>3. Leaked' = Leaked \cup {f}
    <3>1. \A g \in Fd : (\E d \in Conn : socket'[d] = g)
                        <=> g # f /\ (\E d \in Conn : socket[d] = g)
      BY <2>1, <2>2
    <3> QED
      BY <2>1, <2>2, <3>1
  <2>4. Failed' = Failed \cup {cl_conn} /\ cl_conn \notin Failed /\ f \notin Leaked
    BY <2>1
  <2> QED
    BY <2>1, <2>2, <2>3, <2>4
<1>5. CASE SpuriousWakeup \/ SelectFails \/ SleepOnEmptyMap \/ FillFdSet \/ SelectReturns
           \/ LockToRead \/ EndPass \/ Erase
  BY <1>5 DEF SpuriousWakeup, SelectFails, SleepOnEmptyMap, FillFdSet, SelectReturns,
              SelectReady, SelectTimeout, LockToRead, EndPass, Erase
<1>6. CASE (\E c \in Conn : NextClient(c)) \/ ReceiveNothing \/ ReceiveHandshake
           \/ ReceiveText \/ ReceiveFails
  BY <1>6 DEF NextClient, ReceiveNothing, ReceiveHandshake, ReceiveText, ReceiveFails
<1>7. CASE Disconnect
  <2>1. /\ cur \in Conn /\ link[cur] = "up" /\ link' = [link EXCEPT ![cur] = "closed"]
        /\ fds' = [fds EXCEPT ![socket[cur]] = "free"]
        /\ socket' = [socket EXCEPT ![cur] = -1]
    BY <1>7 DEF Disconnect, CloseSocket
  <2>2. socket[cur] \in Fd
    BY <2>1
  <2>3. \A g \in Fd : g \in Leaked' <=> g \in Leaked
    <3> TAKE g \in Fd
    <3>1. CASE g = socket[cur]
      BY <2>1, <3>1
    <3>2. CASE g # socket[cur]
      <4>1. fds'[g] = fds[g]
        BY <2>1, <2>2, <3>2
      <4>2. (\E d \in Conn : socket'[d] = g) <=> (\E d \in Conn : socket[d] = g)
        BY <2>1, <3>2
      <4> QED
        BY <4>1, <4>2
    <3> QED
      BY <3>1, <3>2
  <2>4. Failed' = Failed
    BY <2>1
  <2> QED
    BY <2>3, <2>4
<1>8. CASE HandlersReturn \/ DerivedStep
  <2>1. UNCHANGED <<socket, link>> /\ \A f \in Fd : fds'[f] = "socket" <=> fds[f] = "socket"
    BY <1>8 DEF HandlersReturn, ReturnFromOnMessage, ReturnFromOnDisconnect, DerivedStep,
                OwnDescriptors
  <2>2. {f \in Fd : fds'[f] = "socket"} = {f \in Fd : fds[f] = "socket"}
    BY <2>1
  <2>3. {socket'[c] : c \in Conn} = {socket[c] : c \in Conn}
    BY <2>1
  <2> QED
    BY <2>1, <2>2, <2>3
<1> QED
  BY <1>1, <1>2, <1>3, <1>4, <1>5, <1>6, <1>7, <1>8
     DEF WSNext, ServerStep, ListenConnections, ReadMessages

\* As many descriptors have leaked as connections have failed in SSL_accept:
\* none comes back, and nothing else leaks one.
THEOREM LeaksAreRefusals == WSSpec => []LeakedByRefusals
<1>1. WSInit => LeaksCounted
  <2> SUFFICES ASSUME WSInit PROVE LeaksCounted
    OBVIOUS
  <2>1. Leaked = {} /\ Failed = {}
    BY DEF WSInit, Leaked, Failed
  <2> QED
    BY <2>1, FS_EmptySet DEF LeaksCounted
<1>2. WSInv /\ LeaksCounted /\ [WSNext]_wsVars => LeaksCounted'
  <2> SUFFICES ASSUME WSInv, LeaksCounted, [WSNext]_wsVars PROVE LeaksCounted'
    OBVIOUS
  <2>1. CASE Leaked' = Leaked /\ Failed' = Failed
    BY <2>1 DEF LeaksCounted
  <2>2. ASSUME NEW c \in Conn \ Failed, NEW f \in Fd \ Leaked,
               Leaked' = Leaked \cup {f} /\ Failed' = Failed \cup {c}
        PROVE  LeaksCounted'
    <3>1. IsFiniteSet(Leaked') /\ Cardinality(Leaked') = Cardinality(Leaked) + 1
      BY <2>2, FS_AddElement DEF LeaksCounted
    <3>2. IsFiniteSet(Failed') /\ Cardinality(Failed') = Cardinality(Failed) + 1
      BY <2>2, FS_AddElement DEF LeaksCounted
    <3> QED
      BY <3>1, <3>2 DEF LeaksCounted
  <2>3. CASE UNCHANGED wsVars
    BY <2>1, <2>3 DEF Leaked, Failed, wsVars, peerVars
  <2> QED
    BY <2>1, <2>2, <2>3, OnlyRefusalsLeak
<1>3. LeaksCounted => LeakedByRefusals
  BY DEF LeaksCounted, LeakedByRefusals, Failed
<1> QED
  BY <1>1, <1>2, <1>3, WSInvariant, PTL DEF WSSpec
=============================================================================

--------------------------- MODULE WebSocketServer ---------------------------
(***************************************************************************)
(* The WebSocket server of log-server/web_socket_server.cpp: the thread    *)
(* that accepts connections (ListenConnections), the thread that reads     *)
(* what the clients send (ListenMessages), the map of clients they share   *)
(* under clients_mutex, and the descriptors of the process.  The derived   *)
(* class overrides OnMessage and OnDisconnect; here it may do anything to  *)
(* the descriptors that are its own (LogServer.tla says what it does).     *)
(*                                                                         *)
(* A step is what a thread does between two points where another thread   *)
(* can matter: a lock, a wait, a blocking call.  clients_mutex is held     *)
(* exactly while a thread is at certain points (ClientsFree).              *)
(*                                                                         *)
(* Some definitions follow a variant of themselves with a mistake in it    *)
(* (GenerateIDUnchecked for GenerateID): no behaviour uses it, it serves   *)
(* to see that a property fails when the code is wrong.                    *)
(***************************************************************************)
EXTENDS Integers, Sequences, FiniteSets

CONSTANTS
  Conn,      \* TCP connections; each is dialled at most once
  Fd,        \* descriptor numbers the process can still allocate
  Text,      \* what a text frame can carry
  Opening,   \* the HTTP request that opens the WebSocket handshake
  Closing,   \* a closing frame, the end of the stream, or anything malformed
  NoConn,    \* no connection
  NoText,    \* no text
  MaxSends,  \* bound: text frames per connection
  PeerFaults \* what peers may do: "stall" (stop reading), "leave" (or send
             \* anything that makes Receive fail)

ASSUME ConnAssumption == NoConn \notin Conn
ASSUME FdAssumption == Fd \subseteq Nat \ {0}
ASSUME TextAssumption == /\ NoText \notin Text
                         /\ {Opening, Closing} \cap Text = {}
                         /\ Opening # Closing
ASSUME BoundAssumption == MaxSends \in Nat /\ PeerFaults \subseteq {"stall", "leave"}

VARIABLES
  alive,       \* no signal has killed the process, and it has done nothing
               \* that is undefined: nothing is claimed of it after that
  fds,         \* what each descriptor is: free, a client's socket, or other
  link,        \* each connection, from "new" to "closed"
  inbox,       \* frames sent by the peer and not yet read by the server
  sent,        \* text frames the peer has sent
  left,        \* peers that have closed their end, or one direction of it,
               \* or have sent what makes Receive fail
  stalled,     \* peers that do not read: a send to them blocks
  clients,     \* the map: the connections it holds
  id,          \* Client::id, -1 until the client is in the map
  socket,      \* Client::socket, -1 when closed
  handshaked,  \* Client::handshaked
  id_counter,  \* WebSocketServer::id_counter
  cl_pc,       \* where ListenConnections is
  cl_conn,     \* its new_client
  ml_pc,       \* where ListenMessages is
  fd_set,      \* its fds: before select what to watch, after it what is ready
  flagged,     \* clients its loop has still to visit
  cur,         \* the client it is handling
  text         \* the message it passes to OnMessage

peerVars == <<link, inbox, sent, left, stalled>>
mapVars  == <<clients, id, handshaked, id_counter>>
clVars   == <<cl_pc, cl_conn>>
mlVars   == <<ml_pc, fd_set, flagged, cur, text>>
wsVars   == <<alive, fds, socket, peerVars, mapVars, clVars, mlVars>>

-----------------------------------------------------------------------------
(* Helpers *)

FreeFds == {f \in Fd : fds[f] = "free"}

\* open, accept and pipe return the lowest descriptor that is free.
Lowest(f, S) == f \in S /\ \A g \in S : f <= g

\* Neither thread is between a lock and a release of clients_mutex.
ClientsFree ==
  /\ cl_pc # "insert"
  /\ ml_pc \in {"wait", "asleep", "woken", "select", "lock"}

\* The descriptors the derived class opened may change, the sockets may not.
OwnDescriptors ==
  /\ fds' \in [Fd -> {"free", "socket", "other"}]
  /\ \A f \in Fd : fds[f] = "socket" \/ fds'[f] = "socket" => fds'[f] = fds[f]

WSInit ==
  /\ alive = TRUE
  /\ fds = [f \in Fd |-> "free"]
  /\ link = [c \in Conn |-> "new"]
  /\ inbox = [c \in Conn |-> <<>>]
  /\ sent = [c \in Conn |-> 0]
  /\ left = {}
  /\ stalled = {}
  /\ clients = {}
  /\ id = [c \in Conn |-> -1]
  /\ socket = [c \in Conn |-> -1]
  /\ handshaked = [c \in Conn |-> FALSE]
  /\ id_counter = 0
  /\ cl_pc = "accept" /\ cl_conn = NoConn
  /\ ml_pc = "wait" /\ fd_set = {} /\ flagged = {}
  /\ cur = NoConn /\ text = NoText

-----------------------------------------------------------------------------
(* The peers *)

Dial(c) ==
  /\ link[c] = "new"
  /\ link' = [link EXCEPT ![c] = "dialing"]
  /\ UNCHANGED <<alive, fds, socket, inbox, sent, left, stalled, mapVars, clVars, mlVars>>

PeerSends(c, t) ==
  /\ link[c] = "up" /\ c \notin left
  /\ sent[c] < MaxSends
  /\ inbox' = [inbox EXCEPT ![c] = Append(@, t)]
  /\ sent' = [sent EXCEPT ![c] = @ + 1]
  /\ UNCHANGED <<alive, fds, socket, link, left, stalled, mapVars, clVars, mlVars>>

\* It may have stopped reading before, or stop reading after: that it has left
\* does not mean that a send to it fails at once.
PeerLeaves(c) ==
  /\ "leave" \in PeerFaults
  /\ link[c] = "up" /\ c \notin left
  /\ inbox' = [inbox EXCEPT ![c] = Append(@, Closing)]
  /\ left' = left \cup {c}
  /\ UNCHANGED <<alive, fds, socket, link, sent, stalled, mapVars, clVars, mlVars>>

PeerStalls(c) ==
  /\ "stall" \in PeerFaults
  /\ link[c] = "up" /\ c \notin stalled
  /\ stalled' = stalled \cup {c}
  /\ UNCHANGED <<alive, fds, socket, link, inbox, sent, left, mapVars, clVars, mlVars>>

\* The peer reads again, or the kernel gives it up and the send fails.
PeerResumes(c) ==
  /\ c \in stalled
  /\ stalled' = stalled \ {c}
  /\ UNCHANGED <<alive, fds, socket, link, inbox, sent, left, mapVars, clVars, mlVars>>

Peer(c) ==
  \/ Dial(c) \/ PeerLeaves(c) \/ PeerStalls(c) \/ PeerResumes(c)
  \/ \E t \in Text : PeerSends(c, t)

-----------------------------------------------------------------------------
(* ListenConnections *)

\* accept() in Client::Accept.  The connection then waits in SSL_accept.
Accept(c) ==
  /\ cl_pc = "accept"
  /\ link[c] = "dialing"
  /\ \E f \in FreeFds :
       /\ Lowest(f, FreeFds)
       /\ fds' = [fds EXCEPT ![f] = "socket"]
       /\ socket' = [socket EXCEPT ![c] = f]
  /\ link' = [link EXCEPT ![c] = "tls"]
  /\ cl_pc' = "tls" /\ cl_conn' = c
  /\ UNCHANGED <<alive, inbox, sent, left, stalled, mapVars, mlVars>>

\* SSL_accept returns.  The peer goes on with its opening request, or with
\* something else, or goes away.
TlsAccepted(first) ==
  /\ cl_pc = "tls"
  /\ first = Closing => "leave" \in PeerFaults
  /\ link' = [link EXCEPT ![cl_conn] = "up"]
  /\ inbox' = [inbox EXCEPT ![cl_conn] = <<first>>]
  /\ left' = IF first = Closing THEN left \cup {cl_conn} ELSE left
  /\ cl_pc' = "lock"
  /\ UNCHANGED <<alive, fds, socket, sent, stalled, mapVars, cl_conn, mlVars>>

\* SSL_accept fails.  Nobody closes the socket.
TlsRefused ==
  /\ cl_pc = "tls"
  /\ link' = [link EXCEPT ![cl_conn] = "failed"]
  /\ socket' = [socket EXCEPT ![cl_conn] = -1]
  /\ cl_pc' = "accept" /\ cl_conn' = NoConn
  /\ UNCHANGED <<alive, fds, inbox, sent, left, stalled, mapVars, mlVars>>

LockToInsert ==
  /\ cl_pc = "lock" /\ ClientsFree
  /\ cl_pc' = "insert"
  /\ UNCHANGED <<alive, fds, socket, peerVars, mapVars, cl_conn, mlVars>>

GenerateIDUnchecked(i) == i = id_counter

\* The first id from id_counter on that no client in the map has.
GenerateID(i) ==
  LET used == {id[c] : c \in clients}
  IN  /\ i >= id_counter /\ i \notin used
      /\ \A j \in id_counter .. (i - 1) : j \in used

NotSignalled == ml_pc

\* TellThatListIsNotEmpty wakes the reader if it waits.
Signalled == IF ml_pc = "asleep" THEN "woken" ELSE ml_pc

InsertWithoutCounting ==
  /\ cl_pc = "insert"
  /\ \E i \in {id_counter} \cup {id[c] + 1 : c \in clients} :
       /\ GenerateID(i)
       /\ id_counter' = id_counter
       /\ id' = [id EXCEPT ![cl_conn] = i]
  /\ clients' = clients \cup {cl_conn}
  /\ ml_pc' = IF clients' = {cl_conn} THEN Signalled ELSE ml_pc
  /\ cl_pc' = "accept" /\ cl_conn' = NoConn
  /\ UNCHANGED <<alive, fds, socket, peerVars, handshaked, fd_set, flagged, cur, text>>

Insert ==
  /\ cl_pc = "insert"
  /\ \E i \in {id_counter} \cup {id[c] + 1 : c \in clients} :
       /\ GenerateID(i)
       /\ id_counter' = i
       /\ id' = [id EXCEPT ![cl_conn] = i]
  /\ clients' = clients \cup {cl_conn}
  /\ ml_pc' = IF clients' = {cl_conn} THEN Signalled ELSE ml_pc
  /\ cl_pc' = "accept" /\ cl_conn' = NoConn
  /\ UNCHANGED <<alive, fds, socket, peerVars, handshaked, fd_set, flagged, cur, text>>

ListenConnections ==
  \/ \E c \in Conn : Accept(c)
  \/ \E first \in {Opening, Closing} : TlsAccepted(first)
  \/ TlsRefused \/ LockToInsert \/ Insert

-----------------------------------------------------------------------------
(* ListenMessages *)

\* WaitUntilListIsNotEmpty finds the map empty.
SleepOnEmptyMap ==
  /\ ml_pc = "wait" /\ ClientsFree
  /\ clients = {}
  /\ ml_pc' = "asleep"
  /\ UNCHANGED <<alive, fds, socket, peerVars, mapVars, clVars, fd_set, flagged, cur, text>>

SpuriousWakeup ==
  /\ ml_pc = "asleep"
  /\ ml_pc' = "woken"
  /\ UNCHANGED <<alive, fds, socket, peerVars, mapVars, clVars, fd_set, flagged, cur, text>>

FillFdSetWithoutZero ==
  /\ ml_pc = "woken" \/ (ml_pc = "wait" /\ clients # {})
  /\ ClientsFree
  /\ fd_set' = fd_set \cup {socket[c] : c \in clients}
  /\ ml_pc' = "select"
  /\ UNCHANGED <<alive, fds, socket, peerVars, mapVars, clVars, flagged, cur, text>>

\* WaitUntilListIsNotEmpty returns with the mutex (the map is not looked at
\* again after a wakeup) and the loop puts every socket into the set.
FillFdSet ==
  /\ ml_pc = "woken" \/ (ml_pc = "wait" /\ clients # {})
  /\ ClientsFree
  /\ fd_set' = {socket[c] : c \in clients}
  /\ ml_pc' = "select"
  /\ UNCHANGED <<alive, fds, socket, peerVars, mapVars, clVars, flagged, cur, text>>

\* Sockets on which a read would not block.
Readable == {socket[c] : c \in {d \in Conn : inbox[d] # <<>>}}

SelectReady ==
  /\ ml_pc = "select"
  /\ fd_set \cap Readable # {}
  /\ fd_set' = fd_set \cap Readable
  /\ ml_pc' = "lock"
  /\ UNCHANGED <<alive, fds, socket, peerVars, mapVars, clVars, flagged, cur, text>>

SelectWithoutTimeout == FALSE

\* Two seconds have passed: select empties the set.
SelectTimeout ==
  /\ ml_pc = "select"
  /\ fd_set \cap Readable = {}
  /\ fd_set' = {}
  /\ ml_pc' = "lock"
  /\ UNCHANGED <<alive, fds, socket, peerVars, mapVars, clVars, flagged, cur, text>>

\* select fails (EINTR): the set is left as it was and the result ignored.
SelectFails ==
  /\ ml_pc = "select"
  /\ ml_pc' = "lock"
  /\ UNCHANGED <<alive, fds, socket, peerVars, mapVars, clVars, fd_set, flagged, cur, text>>

\* Nothing opens or closes a client's socket during the pass but the pass
\* itself, so FD_ISSET is asked for all clients at its start.
LockToRead ==
  /\ ml_pc = "lock" /\ ClientsFree
  /\ flagged' = {c \in clients : socket[c] \in fd_set}
  /\ ml_pc' = "pass"
  /\ UNCHANGED <<alive, fds, socket, peerVars, mapVars, clVars, fd_set, cur, text>>

\* The loop visits the clients in the order of the map, by id.
NextClient(c) ==
  /\ ml_pc = "pass"
  /\ c \in flagged /\ \A d \in flagged : id[c] <= id[d]
  /\ cur' = c
  /\ flagged' = flagged \ {c}
  /\ ml_pc' = "recv"
  /\ UNCHANGED <<alive, fds, socket, peerVars, mapVars, clVars, fd_set, text>>

EndPass ==
  /\ ml_pc = "pass" /\ flagged = {}
  /\ ml_pc' = "wait"
  /\ UNCHANGED <<alive, fds, socket, peerVars, mapVars, clVars, fd_set, flagged, cur, text>>

\* Client::Receive finds nothing to read.
ReceiveNothing ==
  /\ ml_pc = "recv" /\ inbox[cur] = <<>>
  /\ cur' = NoConn
  /\ ml_pc' = "pass"
  /\ UNCHANGED <<alive, fds, socket, peerVars, mapVars, clVars, fd_set, flagged, text>>

\* Writing to a peer that is gone may raise SIGPIPE, which nothing handles.
SurvivesSend(c) == IF c \in left THEN BOOLEAN ELSE {TRUE}

\* The handshake: the answer is sent (which waits for a peer that does not
\* read) and the loop receives again.
ReceiveHandshake ==
  /\ ml_pc = "recv" /\ ~handshaked[cur]
  /\ inbox[cur] # <<>> /\ Head(inbox[cur]) = Opening
  /\ cur \notin stalled
  /\ alive' \in SurvivesSend(cur)
  /\ inbox' = [inbox EXCEPT ![cur] = Tail(@)]
  /\ handshaked' = [handshaked EXCEPT ![cur] = TRUE]
  /\ UNCHANGED <<fds, socket, link, sent, left, stalled,
                 clients, id, id_counter, clVars, mlVars>>

ReceiveAnyFrame ==
  /\ ml_pc = "recv" /\ handshaked[cur]
  /\ inbox[cur] # <<>>
  /\ text' = Head(inbox[cur])
  /\ inbox' = [inbox EXCEPT ![cur] = Tail(@)]
  /\ ml_pc' = "onmessage"
  /\ UNCHANGED <<alive, fds, socket, link, sent, left, stalled, mapVars, clVars,
                 fd_set, flagged, cur>>

ReceiveText ==
  /\ ml_pc = "recv" /\ handshaked[cur]
  /\ inbox[cur] # <<>> /\ Head(inbox[cur]) \in Text
  /\ text' = Head(inbox[cur])
  /\ inbox' = [inbox EXCEPT ![cur] = Tail(@)]
  /\ ml_pc' = "onmessage"
  /\ UNCHANGED <<alive, fds, socket, link, sent, left, stalled, mapVars, clVars,
                 fd_set, flagged, cur>>

\* What Receive takes: the opening request, then text frames.
Expected == IF handshaked[cur] THEN Text ELSE {Opening}

\* The answer to the handshake cannot be written.
AnswerFails == ~handshaked[cur] /\ cur \in left \ stalled

ReceiveFailsIgnored ==
  /\ ml_pc = "recv" /\ inbox[cur] # <<>>
  /\ Head(inbox[cur]) \notin Expected \/ AnswerFails
  /\ ml_pc' = "pass" /\ cur' = NoConn
  /\ UNCHANGED <<alive, fds, socket, peerVars, mapVars, clVars, fd_set, flagged, text>>

\* Receive fails: the peer is gone, the handshake is not one, its answer is
\* not taken, or the frame is not a text frame.  What is sent to refuse a bad
\* request blocks, or raises SIGPIPE, as the closing frame does right after it.
ReceiveFails ==
  /\ ml_pc = "recv" /\ inbox[cur] # <<>>
  /\ Head(inbox[cur]) \notin Expected \/ AnswerFails
  /\ ml_pc' = "disconnect"
  /\ UNCHANGED <<alive, fds, socket, peerVars, mapVars, clVars, fd_set, flagged, cur, text>>

\* OnMessage returns.  Receive is called again if its frame buffer still
\* holds bytes (READ_SUCCEED_DATA_AVAILABLE), otherwise the loop moves on.
ReturnFromOnMessage ==
  /\ ml_pc = "onmessage"
  /\ text' = NoText
  /\ \/ ml_pc' = "recv" /\ cur' = cur
     \/ ml_pc' = "pass" /\ cur' = NoConn
  /\ UNCHANGED <<alive, socket, peerVars, mapVars, clVars, fd_set, flagged>>

CloseSocketKeepsNumber(c) ==
  /\ fds' = [fds EXCEPT ![socket[c]] = "free"]
  /\ socket' = socket

CloseSocketForgets(c) ==
  /\ fds' = fds
  /\ socket' = [socket EXCEPT ![c] = -1]

CloseSocket(c) ==
  /\ fds' = [fds EXCEPT ![socket[c]] = "free"]
  /\ socket' = [socket EXCEPT ![c] = -1]

\* Client::Disconnect: a closing frame (which waits for a peer that does not
\* read, with clients_mutex held), SSL_shutdown, close.  What is known of the
\* peer is dropped.
Disconnect ==
  /\ ml_pc = "disconnect"
  /\ cur \notin stalled
  /\ alive' \in SurvivesSend(cur)
  /\ CloseSocket(cur)
  /\ link' = [link EXCEPT ![cur] = "closed"]
  /\ inbox' = [inbox EXCEPT ![cur] = <<>>]
  /\ sent' = [sent EXCEPT ![cur] = 0]
  /\ left' = left \ {cur}
  /\ ml_pc' = "ondisconnect"
  /\ UNCHANGED <<stalled, mapVars, clVars, fd_set, flagged, cur, text>>

ReturnFromOnDisconnect ==
  /\ ml_pc = "ondisconnect"
  /\ ml_pc' = "erase"
  /\ UNCHANGED <<alive, socket, peerVars, mapVars, clVars, fd_set, flagged, cur, text>>

\* The node, with its Client, is destroyed.
Erase ==
  /\ ml_pc = "erase"
  /\ clients' = clients \ {cur}
  /\ id' = [id EXCEPT ![cur] = -1]
  /\ handshaked' = [handshaked EXCEPT ![cur] = FALSE]
  /\ cur' = NoConn
  /\ ml_pc' = "pass"
  /\ UNCHANGED <<alive, fds, socket, peerVars, id_counter, clVars, fd_set, flagged, text>>

SelectReturns == SelectReady \/ SelectTimeout

\* What the reader does on its own, apart from the overridden handlers.
ReadMessages ==
  \/ SleepOnEmptyMap \/ FillFdSet \/ SelectReturns \/ LockToRead
  \/ \E c \in Conn : NextClient(c)
  \/ EndPass
  \/ ReceiveNothing \/ ReceiveHandshake \/ ReceiveText \/ ReceiveFails
  \/ Disconnect \/ Erase

-----------------------------------------------------------------------------
(* The specification *)

\* What is common to every derived class.
ServerStep ==
  \/ \E c \in Conn : Peer(c)
  \/ ListenConnections
  \/ SpuriousWakeup \/ SelectFails
  \/ ReadMessages

\* The derived class: its handlers return, its own descriptors come and go,
\* and its code may be what kills the process.
HandlersReturn ==
  /\ ReturnFromOnMessage \/ ReturnFromOnDisconnect
  /\ OwnDescriptors

DerivedStep ==
  /\ OwnDescriptors
  /\ alive' \in BOOLEAN
  /\ UNCHANGED <<socket, peerVars, mapVars, clVars, mlVars>>

WSNext == alive /\ (ServerStep \/ HandlersReturn \/ DerivedStep)

\* Every thread keeps running and select returns within its timeout.  A peer
\* that stalls reads again, or its connection is found broken, and the room it
\* makes in the socket stays until the waiting send has used it: SendFrame has
\* no timeout, so without this one such peer stops the reader for ever.  A
\* thread that keeps finding clients_mutex free gets it.  Nothing is assumed of
\* a peer inside SSL_accept.
WSFairness ==
  /\ WF_wsVars(alive /\ (\E c \in Conn : Accept(c)))
  /\ SF_wsVars(alive /\ LockToInsert)
  /\ WF_wsVars(alive /\ Insert)
  /\ WF_wsVars(alive /\ (ReadMessages \/ HandlersReturn))
  /\ SF_wsVars(alive /\ (ReceiveHandshake \/ Disconnect))
  /\ \A c \in Conn : WF_wsVars(alive /\ PeerResumes(c))

\* The server as any derived class may complete it.  LogServer is shown to be
\* one: whatever it does to files and pipes, it opens and closes no client's
\* socket, and its handlers return to the reader once for each call.
WSSpec == WSInit /\ [][WSNext]_wsVars
WSFairSpec == WSSpec /\ WSFairness

-----------------------------------------------------------------------------
(* Properties *)

\* Every variable has the type its declaration gives it.
WSTypeOK ==
  /\ alive \in BOOLEAN
  /\ fds \in [Fd -> {"free", "socket", "other"}]
  /\ link \in [Conn -> {"new", "dialing", "tls", "failed", "up", "closed"}]
  /\ inbox \in [Conn -> Seq(Text \cup {Opening, Closing})]
  /\ sent \in [Conn -> 0 .. MaxSends]
  /\ left \subseteq Conn /\ stalled \subseteq Conn
  /\ clients \subseteq Conn
  /\ id \in [Conn -> Nat \cup {-1}]
  /\ socket \in [Conn -> Fd \cup {-1}]
  /\ handshaked \in [Conn -> BOOLEAN]
  /\ id_counter \in Nat
  /\ cl_pc \in {"accept", "tls", "lock", "insert"}
  /\ cl_conn \in Conn \cup {NoConn}
  /\ ml_pc \in {"wait", "asleep", "woken", "select", "lock", "pass", "recv",
                "onmessage", "disconnect", "ondisconnect", "erase"}
  /\ fd_set \subseteq Fd \cup {-1}
  /\ flagged \subseteq Conn
  /\ cur \in Conn \cup {NoConn}
  /\ text \in Text \cup {NoText}

\* GenerateID hands ids out again, so that an id names one client only
\* rests on the map: no two clients in it have the same id.
UniqueIds ==
  \A c, d \in clients : id[c] = id[d] => c = d

\* Descriptors are reused by the kernel as soon as they are closed.  A
\* client that the loop can still reach owns an open socket that no other
\* connection has; only the client being disconnected has none.
SocketsOwned ==
  /\ \A c \in clients :
       \/ socket[c] \in Fd /\ fds[socket[c]] = "socket"
       \/ c = cur /\ ml_pc \in {"ondisconnect", "erase"}
  /\ \A c, d \in Conn : socket[c] = socket[d] /\ socket[c] # -1 => c = d

\* The set of descriptors given to select is used after clients_mutex was
\* released and taken again: whatever is still in it belongs to clients in
\* the map, so select never sees a closed descriptor and FD_ISSET is never
\* asked about a number that was given to somebody else meanwhile.
FdSetCurrent ==
  ml_pc \in {"select", "lock"} => fd_set \subseteq {socket[c] : c \in clients}

\* The reader is not left waiting on clients_not_empty_cond while there are
\* clients: it is signalled only when the map gets its first one.
NoLostWakeup == ml_pc = "asleep" => clients = {}

\* Connections that were put into the map, also those taken out since.
Joined == {c \in Conn : link[c] \in {"up", "closed"} /\ c # cl_conn}

\* The loop of GenerateID starts at the last id handed out and could run up to
\* INT_MAX, beyond which id_counter + i overflows.  It ends at its first or
\* second try, and an id is never larger than the number of clients before it.
IdsStayLow ==
  /\ \E i \in {id_counter, id_counter + 1} : GenerateID(i)
  /\ Joined # {} => id_counter < Cardinality(Joined)

\* Sockets that are open and no connection's any more.
Leaked == {f \in Fd : fds[f] = "socket"} \ {socket[c] : c \in Conn}

\* A connection that fails in SSL_accept leaks its descriptor for good, and
\* nothing else the server does leaks one: there are as many as failures.
LeakedByRefusals ==
  Cardinality(Leaked) = Cardinality({c \in Conn : link[c] = "failed"})

\* The two-second timeout: a client that joins while select waits for others
\* is read too, and what it sent is not left unread.
FramesAreRead ==
  \A c \in Conn :
    c \in clients /\ inbox[c] # <<>> ~> inbox[c] = <<>> \/ ~alive

\* A client that has left is taken out of the map, and its socket closed, even
\* one that does not read: the closing frame waits for it, clients_mutex held.
LeaversAreErased ==
  \A c \in Conn :
    c \in clients /\ c \in left ~> (c \notin clients /\ socket[c] = -1) \/ ~alive

=============================================================================

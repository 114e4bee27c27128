---------------------------- MODULE DeliveryProofs ----------------------------
(***************************************************************************)
(* More proofs about LogServer: what becomes of a hung send, when a log is *)
(* found without its client, which descriptors are lost, and that the      *)
(* server keeps what Subscriptions promises.                               *)
(***************************************************************************)
EXTENDS LogServerProofs

-----------------------------------------------------------------------------
(* A hung send *)

\* A send that finds no socket is to the client the reader is at, between the
\* closing of the socket and the purge: the purge would need logs_mutex.
LEMMA SocketlessIsLeaving ==
  ASSUME LInv, run_pc \in {"send", "write"}, socket[client_it] = -1
  PROVE  ml_pc = "ondisconnect" /\ hook = "idle" /\ client_it = cur
<1>1. it \in logs /\ client_it = desc[it].owner /\ client_it \in clients
  BY DEF LInv, DeliversToOwner, AtLog
<1>2. client_it \in Conn /\ link[client_it] # "up"
  BY <1>1 DEF LInv, WSInv, WSTypeOK, SocketsOK
<1>3. client_it = cur /\ ml_pc \in {"ondisconnect", "erase"}
  BY <1>1, <1>2 DEF LInv, WSInv, SocketsOK
<1>4. ml_pc # "erase"
  BY <1>1, <1>3 DEF LInv, LogsHaveClients
<1>5. hook = "idle"
  BY <1>3, <1>4 DEF LInv, HookOK, ListTypeOK, Busy, AtLog
<1> QED
  BY <1>3, <1>4, <1>5

\* While Run hangs, what steps there are leave the handlers and Run alone.
LEMMA HungServer ==
  ASSUME LInv, HangsOnLeaver, run_pc = "hung", Next
  PROVE  /\ UNCHANGED <<logs, hookVars, runVars>>
         /\ \/ ServerStep
            \/ UNCHANGED wsVars
<1>1. ml_pc = "ondisconnect" /\ hook = "idle" /\ ~LogsFree
  BY DEF HangsOnLeaver, LogsFree, Busy, AtLog
<1>2. ~Handlers
  BY <1>1 DEF Handlers, IgnoreMessage, OpenLogFails, OpenLogLeaks, OpenLog, InOnMessage, PushLog,
              StopReadingLog, LockToPurge, PurgeLog, EndPurge
<1>3. ~(Run \/ RunSpuriousWakeup \/ SelectLogsInterrupted)
  BY DEF Run, RunSpuriousWakeup, SelectLogsInterrupted, SleepOnEmptyList, FillReadFds,
         SelectLogsReturns, SelectOnClosedFd, SelectLogsReady, SelectLogsTimeout, RelockLogs,
         Visit, ClientFound, ClientMissing, EndLogsPass, GetNextLine, ReadLine, CloseFile,
         MakePipe, PipeFails, ForkFails, StartTail, TailFdopenFails, ReadTailFails, ReadClosed,
         InGetNextLine, StartSend, HangInSend, FinishSend, NoException, Exception
<1>4. (\E l \in Log : LineAppended(l) \/ TailExits(l)) =>
         UNCHANGED <<wsVars, logs, hookVars, runVars>>
  BY DEF LineAppended, TailExits
<1> QED
  BY <1>2, <1>3, <1>4 DEF Next, listVars

\* With the reader in OnDisconnect the base class changes neither the map nor
\* what the reader does: nobody else gets clients_mutex.
LEMMA ServerInOnDisconnect ==
  ASSUME WSInv, ml_pc = "ondisconnect", ServerStep
  PROVE  UNCHANGED <<alive, mapVars, mlVars>>
<1> USE DEF mapVars, mlVars
<1>1. \A c \in Conn : Peer(c) => UNCHANGED <<alive, mapVars, mlVars>>
  BY DEF Peer, Dial, PeerLeaves, PeerStalls, PeerResumes, PeerSends
<1>2. cl_pc # "insert" /\ ~ClientsFree
  BY DEF WSInv, ThreadsOK, AtClient, ClientsFree
<1>3. ListenConnections => UNCHANGED <<alive, mapVars, mlVars>>
  BY <1>2 DEF ListenConnections, Accept, TlsAccepted, TlsRefused, LockToInsert, Insert
<1>4. ~SpuriousWakeup /\ ~SelectFails /\ ~ReadMessages
  BY DEF SpuriousWakeup, SelectFails, ReadMessages, SleepOnEmptyMap, FillFdSet, SelectReturns,
         SelectReady, SelectTimeout, LockToRead, NextClient, EndPass, ReceiveNothing,
         ReceiveHandshake, ReceiveText, ReceiveFails, Disconnect, Erase
<1> QED
  BY <1>1, <1>3, <1>4 DEF ServerStep

\* A step into the hang is StartSend or HangInSend.
LEMMA HangBegins ==
  ASSUME HookOK, Next, run_pc # "hung", run_pc' = "hung"
  PROVE  StartSend \/ HangInSend
<1>1. ~UNCHANGED run_pc /\ ~(run_pc' = "woken")
  OBVIOUS
<1>2. ~Handlers
  BY <1>1, HandlersLeaveRun
<1>3. CASE Run \/ RunSpuriousWakeup \/ SelectLogsInterrupted
  BY <1>1, <1>3
     DEF Run, RunSpuriousWakeup, SelectLogsInterrupted, SleepOnEmptyList, FillReadFds,
         SelectLogsReturns, SelectOnClosedFd, SelectLogsReady, SelectLogsTimeout, RelockLogs,
         Visit, ClientFound, ClientMissing, EndLogsPass, GetNextLine, ReadLine, CloseFile,
         MakePipe, PipeFails, ForkFails, StartTail, TailFdopenFails, ReadTailFails, ReadClosed,
         InGetNextLine, FinishSend, NoException, Exception
<1> QED
  BY <1>1, <1>2, <1>3 DEF Next, runVars, LineAppended, TailExits

\* Every step keeps Run from hanging on any other client.
LEMMA HangsStep == LInv /\ HangsOnLeaver /\ [Next]_vars => HangsOnLeaver'
<1> SUFFICES ASSUME LInv, HangsOnLeaver, [Next]_vars, run_pc' = "hung"
             PROVE  HangsOnLeaver'
  BY DEF HangsOnLeaver
<1>1. CASE Next /\ run_pc = "hung"
  <2>1. ml_pc = "ondisconnect" /\ UNCHANGED <<logs, hookVars, runVars>>
        /\ (ServerStep \/ UNCHANGED wsVars)
    BY <1>1, HungServer DEF HangsOnLeaver
  <2>2. UNCHANGED mlVars
    BY <2>1, ServerInOnDisconnect DEF LInv, wsVars
  <2> QED
    BY <1>1, <2>1, <2>2 DEF HangsOnLeaver, mlVars, hookVars, runVars
<1>2. CASE Next /\ run_pc # "hung"
  <2>1. StartSend \/ HangInSend
    BY <1>2, HangBegins DEF LInv
  <2>2. run_pc \in {"send", "write"} /\ socket[client_it] = -1
        /\ UNCHANGED <<ml_pc, cur, hook, logs, it, client_it>>
    BY <2>1 DEF StartSend, HangInSend, NotRun, mlVars, hookVars, listVars
  <2>3. it \in logs
    BY <2>2 DEF LInv, DeliversToOwner, AtLog
  <2> QED
    BY <2>2, <2>3, SocketlessIsLeaving DEF HangsOnLeaver
<1>3. CASE UNCHANGED vars
  BY <1>3 DEF vars, wsVars, mlVars, listVars, hookVars, runVars, HangsOnLeaver
<1> QED
  BY <1>1, <1>2, <1>3

\* In the initial state Run does not hang.
LEMMA HangsInit == Init => HangsOnLeaver
BY DEF Init, HangsOnLeaver

\* Run hangs only on a client that the reader is disconnecting and whose logs
\* it has not purged.
THEOREM RunHangsOnLeaver == Spec => []HangsOnLeaver
BY HangsInit, HangsStep, LInvariant, PTL DEF Spec

\* A hung send stops both lists and all three threads for good.
THEOREM HangEndsService == Spec => HangIsForGood
<1>1. LInv /\ HangsOnLeaver /\ [Next]_vars =>
        [run_pc = "hung" =>
           UNCHANGED <<alive, mapVars, mlVars, logs, hookVars, runVars>>]_vars
  <2> SUFFICES ASSUME LInv, HangsOnLeaver, Next, run_pc = "hung"
               PROVE  UNCHANGED <<alive, mapVars, mlVars, logs, hookVars, runVars>>
    OBVIOUS
  <2>1. ml_pc = "ondisconnect" /\ UNCHANGED <<logs, hookVars, runVars>>
        /\ (ServerStep \/ UNCHANGED wsVars)
    BY HungServer DEF HangsOnLeaver
  <2>2. UNCHANGED <<alive, mapVars, mlVars>>
    BY <2>1, ServerInOnDisconnect DEF LInv, wsVars
  <2> QED
    BY <2>1, <2>2
<1> QED
  BY <1>1, LInvariant, RunHangsOnLeaver, PTL DEF Spec, HangIsForGood

-----------------------------------------------------------------------------
(* A log without its client *)

\* Each log in the list has its client in the map.
LEMMA OwnerIsNamed ==
  ASSUME LogsHaveClients, NEW l \in logs
  PROVE  desc[l].owner \in Named(l)
BY DEF LogsHaveClients, Named

\* What may end a log in the pass: ClientMissing, for the log it is at.
LEMMA PassDrops ==
  ASSUME LInv, Next, run_pc = "pass", NEW l \in logs \ logs'
  PROVE  ClientMissing(l)
<1>1. UNCHANGED logs => FALSE
  OBVIOUS
<1>2. ~Handlers
  BY <1>1, HandlersLeaveRun DEF LInv, Busy, listVars
<1>3. ASSUME NEW m \in Log, ClientMissing(m) PROVE ClientMissing(l)
  <2>1. logs' = logs \/ logs' = logs \ {m}
    BY <1>3 DEF ClientMissing, Drop, UseClosedStream, listVars
  <2> QED
    BY <1>1, <1>3, <2>1
<1>4. CASE Run \/ RunSpuriousWakeup \/ SelectLogsInterrupted
  BY <1>1, <1>3, <1>4
     DEF Run, RunSpuriousWakeup, SelectLogsInterrupted, SleepOnEmptyList, FillReadFds,
         SelectLogsReturns, SelectOnClosedFd, SelectLogsReady, SelectLogsTimeout, RelockLogs,
         Visit, ClientFound, EndLogsPass, GetNextLine, ReadLine, CloseFile,
         MakePipe, PipeFails, ForkFails, StartTail, TailFdopenFails, ReadTailFails, ReadClosed,
         InGetNextLine, StartSend, HangInSend, FinishSend, NoException, Exception, listVars
<1> QED
  BY <1>1, <1>2, <1>4 DEF Next, LineAppended, TailExits, listVars

\* The check for a missing client never finds one that has left: it ends only
\* logs of connected clients, when it searches a map that is being changed.
THEOREM MissingIsARace == Spec => MissingOnlyInRace
<1>1. LInv /\ [Next]_vars => [\A l \in logs \ logs' : run_pc = "pass" => MapChanging]_vars
  <2> SUFFICES ASSUME LInv, Next, run_pc = "pass", NEW l \in logs \ logs'
               PROVE  MapChanging
    OBVIOUS
  <2>1. ClientMissing(l)
    BY PassDrops
  <2>2. Named(l) # {}
    BY OwnerIsNamed DEF LInv
  <2> QED
    BY <2>1, <2>2 DEF ClientMissing
<1> QED
  BY <1>1, LInvariant, PTL DEF Spec, MissingOnlyInRace

-----------------------------------------------------------------------------
(* The handshake *)

\* Clients that are in OnMessage, or have logs, have shaken hands.
HandshakeOK ==
  /\ ml_pc = "onmessage" => handshaked[cur]
  /\ LinesAfterHandshake

\* The base class calls OnMessage only after the handshake and forgets the
\* handshake only with the client.
LEMMA ServerHandshake ==
  ASSUME WSInv, ServerStep, ml_pc = "onmessage" => handshaked[cur]
  PROVE  /\ ml_pc' = "onmessage" => handshaked'[cur']
         /\ \A c \in clients : handshaked[c] => handshaked'[c] \/ (c = cur /\ ml_pc = "erase")
<1> USE DEF WSInv, WSTypeOK, ThreadsOK, AtClient, mapVars, mlVars
<1>1. CASE \E c \in Conn : Peer(c)
  BY <1>1 DEF Peer, Dial, PeerLeaves, PeerStalls, PeerResumes, PeerSends
<1>2. CASE ListenConnections
  BY <1>2 DEF ListenConnections, Accept, TlsAccepted, TlsRefused, LockToInsert, Insert,
              Signalled
<1>3. CASE SpuriousWakeup \/ SelectFails \/ SleepOnEmptyMap \/ FillFdSet \/ SelectReturns
           \/ LockToRead \/ EndPass
  BY <1>3 DEF SpuriousWakeup, SelectFails, SleepOnEmptyMap, FillFdSet, SelectReturns,
              SelectReady, SelectTimeout, LockToRead, EndPass
<1>4. CASE (\E c \in Conn : NextClient(c)) \/ ReceiveNothing \/ ReceiveText \/ ReceiveFails
           \/ Disconnect
  BY <1>4 DEF NextClient, ReceiveNothing, ReceiveText, ReceiveFails, Disconnect
<1>5. CASE ReceiveHandshake
  BY <1>5 DEF ReceiveHandshake
<1>6. CASE Erase
  BY <1>6 DEF Erase
<1> QED
  BY <1>1, <1>2, <1>3, <1>4, <1>5, <1>6 DEF ServerStep, ListenConnections, ReadMessages

\* Every step keeps the handshake before the logs.
LEMMA HandshakeStep == LInv /\ HandshakeOK /\ [Next]_vars => HandshakeOK'
<1> SUFFICES ASSUME LInv, HandshakeOK, [Next]_vars PROVE HandshakeOK'
  OBVIOUS
<1> USE DEF HandshakeOK, LinesAfterHandshake
<1>1. CASE ServerStep /\ UNCHANGED <<listVars, hookVars, runVars>>
  <2>1. \A l \in logs : /\ desc[l].owner \in clients
                        /\ ~(desc[l].owner = cur /\ ml_pc = "erase")
    BY DEF LInv, LogsHaveClients
  <2> QED
    BY <1>1, <2>1, ServerHandshake DEF LInv, listVars
<1>2. CASE Handlers
  <2>1. UNCHANGED handshaked /\ (ml_pc' = "onmessage" => ml_pc = "onmessage" /\ cur' = cur)
    BY <1>2 DEF Handlers, IgnoreMessage, OpenLogFails, OpenLogLeaks, OpenLog, PushLog,
         StopReadingLog, LockToPurge, PurgeLog, EndPurge, ReturnFromOnMessage,
         ReturnFromOnDisconnect, InOnMessage, wsVars, mapVars, mlVars
  <2>2. ASSUME NEW l \in logs' PROVE handshaked[desc'[l].owner]
    <3>1. CASE ml_pc = "onmessage"
      BY <1>2, <2>2, <3>1, HandlersList DEF LInv
    <3>2. CASE ml_pc # "onmessage"
      <4>1. hook # "push" /\ ~StopReadingLog
        BY <3>2 DEF LInv, HookOK, StopReadingLog, InOnMessage
      <4>2. UNCHANGED listVars \/ \E m \in logs : Drop(m)
        BY <1>2, <4>1 DEF Handlers, IgnoreMessage, OpenLogFails, OpenLogLeaks, OpenLog, PushLog,
             LockToPurge, PurgeLog, EndPurge, UseClosedStream, OfClient
      <4>3. l \in logs /\ desc'[l].owner = desc[l].owner
        BY <2>2, <4>2, DropEffect DEF listVars, LInv, SameButPhase
      <4> QED
        BY <4>3
    <3> QED
      BY <3>1, <3>2
  <2> QED
    BY <2>1, <2>2
<1>3. CASE Run \/ RunSpuriousWakeup \/ SelectLogsInterrupted
  <2>1. UNCHANGED <<handshaked, ml_pc, cur>>
    BY <1>3, RunFds DEF LInv, WSInv, NotRun, mapVars, mlVars
  <2> QED
    BY <1>3, <2>1, RunList DEF LInv
<1>4. ASSUME NEW l \in Log, LineAppended(l) \/ TailExits(l) PROVE HandshakeOK'
  <2>1. UNCHANGED <<handshaked, ml_pc, cur>>
    BY <1>4 DEF LineAppended, TailExits, wsVars, mapVars, mlVars
  <2>2. logs' = logs /\ \A m \in logs : desc'[m].owner = desc[m].owner
    BY <1>4, OutsideEffect DEF LInv, ListTypeOK
  <2> QED
    BY <2>1, <2>2
<1>5. CASE UNCHANGED vars
  BY <1>5 DEF vars, wsVars, mapVars, mlVars, listVars
<1> QED
  BY <1>1, <1>2, <1>3, <1>4, <1>5 DEF Next

\* A client has logs only after its handshake: a line is never mixed with the
\* answer to it in send_buf, which two threads fill without a lock.
THEOREM HandshakeComesFirst == Spec => []LinesAfterHandshake
<1>1. Init => HandshakeOK
  BY DEF Init, WSInit, HandshakeOK, LinesAfterHandshake
<1>2. HandshakeOK => LinesAfterHandshake
  BY DEF HandshakeOK
<1> QED
  BY <1>1, <1>2, HandshakeStep, LInvariant, PTL DEF Spec

-----------------------------------------------------------------------------
(* Lost descriptors *)

\* What it is for a descriptor to be lost.
LEMMA UnownedIs ==
  ASSUME NEW f \in Fd
  PROVE  f \in Unowned <=> /\ fds[f] = "other" /\ f \notin {pend, pipe0, pipe1}
                           /\ \A l \in OpenLogs : desc[l].fd # f
BY DEF Unowned, OpenLogs

\* The same after a step.
LEMMA UnownedNext ==
  ASSUME NEW f \in Fd
  PROVE  f \in Unowned' <=> /\ fds'[f] = "other" /\ f \notin {pend', pipe0', pipe1'}
                            /\ \A l \in OpenLogs' : desc'[l].fd # f
BY DEF Unowned, OpenLogs

\* Nothing is lost or comes back while the logs keep what they have.
LEMMA UnownedSame ==
  ASSUME UNCHANGED <<pend, logs, pipe0, pipe1>>,
         \A l \in logs : /\ desc'[l].fd = desc[l].fd
                         /\ desc'[l].phase = "closed" <=> desc[l].phase = "closed",
         \A f \in Fd : fds'[f] = "other" <=> fds[f] = "other"
  PROVE  Unowned' = Unowned
<1>1. OpenLogs' = OpenLogs /\ \A l \in OpenLogs : desc'[l].fd = desc[l].fd
  BY DEF OpenLogs
<1>2. \A f \in Fd : f \in Unowned' <=> f \in Unowned
  BY <1>1, UnownedIs, UnownedNext
<1> QED
  BY <1>2 DEF Unowned

\* A log that is closed, and nothing else, gives its descriptor back.
LEMMA UnownedClose ==
  ASSUME LInv, NEW l \in OpenLogs, UNCHANGED <<pend, pipe0, pipe1>>,
         fds' = [fds EXCEPT ![desc[l].fd] = "free"],
         OpenLogs' = OpenLogs \ {l}, \A m \in OpenLogs' : desc'[m].fd = desc[m].fd
  PROVE  Unowned' = Unowned
<1>1. \A f \in Fd : f \in Unowned' <=> f \in Unowned
  <2> TAKE f \in Fd
  <2>1. CASE f = desc[l].fd
    BY <2>1, UnownedIs, UnownedNext DEF LInv, WSInv, WSTypeOK
  <2>2. CASE f # desc[l].fd
    <3>1. fds'[f] = fds[f]
      BY <2>2 DEF LInv, WSInv, WSTypeOK
    <3> QED
      BY <2>2, <3>1, UnownedIs, UnownedNext
  <2> QED
    BY <2>1, <2>2
<1> QED
  BY <1>1 DEF Unowned

\* So does one that is dropped.
LEMMA UnownedDrop ==
  ASSUME LInv, NEW l \in logs, Drop(l), UNCHANGED <<hookVars, pipeVars>>
  PROVE  Unowned' = Unowned
<1>1. /\ desc[l].phase # "closed" /\ logs' = logs \ {l}
      /\ fds' = [fds EXCEPT ![desc[l].fd] = "free"]
      /\ \A m \in logs' : /\ desc'[m].fd = desc[m].fd
                          /\ desc'[m].phase = "closed" <=> desc[m].phase = "closed"
  BY DropEffect DEF SameButPhase, LInv
<1>2. OpenLogs' = OpenLogs \ {l} /\ \A m \in OpenLogs' : desc'[m].fd = desc[m].fd
  BY <1>1 DEF OpenLogs
<1> QED
  BY <1>1, <1>2, UnownedClose DEF OpenLogs, hookVars, pipeVars

\* The handlers lose what they open when fdopen fails; otherwise what
\* StartReadingLog opens becomes a log's.
LEMMA UnownedHandlers ==
  ASSUME LInv, Handlers, Unowned' # Unowned
  PROVE  /\ InOnMessage("add") /\ ml_pc' # "onmessage" /\ logs' = logs
         /\ \E f \in Fd \ Unowned : Unowned' = Unowned \cup {f}
<1> USE DEF LInv
<1>0. -1 \notin Fd /\ fds \in [Fd -> {"free", "socket", "other"}] /\ UNCHANGED <<pipe0, pipe1>>
  BY FdAssumption, HandlersLeaveRun DEF WSInv, WSTypeOK
<1>1. CASE IgnoreMessage \/ OpenLogFails \/ LockToPurge \/ EndPurge
  BY <1>0, <1>1, UnownedSame
     DEF IgnoreMessage, OpenLogFails, LockToPurge, EndPurge, wsVars, hookVars, listVars
<1>2. CASE OpenLog \/ OpenLogLeaks
  <2>1. PICK f \in Fd : /\ fds[f] = "free" /\ fds' = [fds EXCEPT ![f] = "other"]
                        /\ pend' = f \/ (pend' = pend /\ OpenLogLeaks)
    BY <1>2 DEF OpenLog, OpenLogLeaks, FreeFds, hookVars
  <2>2. UNCHANGED listVars /\ pend = -1 /\ InOnMessage("add")
    BY <1>2 DEF OpenLog, OpenLogLeaks, InOnMessage, HookOK
  <2>3. OpenLogs' = OpenLogs /\ UNCHANGED desc
    BY <2>2 DEF OpenLogs, listVars
  <2>4. f \notin Unowned
    BY <2>1, UnownedIs
  <2>5. f \in Unowned' <=> pend' # f
    BY <1>0, <2>1, <2>3, UnownedNext DEF FdsOK
  <2>6. \A g \in Fd : g # f => (g \in Unowned' <=> g \in Unowned)
    BY <1>0, <2>1, <2>2, <2>3, UnownedIs, UnownedNext
  <2>7. Unowned \subseteq Fd /\ Unowned' \subseteq Fd
    BY DEF Unowned
  <2>8. pend' # f /\ Unowned' = Unowned \cup {f}
    BY <2>4, <2>5, <2>6, <2>7
  <2>9. ml_pc' # "onmessage"
    BY <2>1, <2>8 DEF OpenLogLeaks, ReturnFromOnMessage
  <2> QED
    BY <2>2, <2>4, <2>8, <2>9 DEF listVars
<1>3. ASSUME NEW l \in Log, NEW n \in 0 .. MaxLines, PushLog(l, n) PROVE Unowned' = Unowned
  <2>1. /\ l \notin logs /\ logs' = logs \cup {l} /\ pend' = -1 /\ UNCHANGED fds
        /\ desc'[l].fd = pend /\ desc'[l].phase = "file"
        /\ \A m \in Log \ {l} : desc'[m] = desc[m]
    BY <1>3 DEF PushLog, ListTypeOK
  <2>2. OpenLogs' = OpenLogs \cup {l} /\ l \notin OpenLogs
        /\ \A m \in OpenLogs : desc'[m].fd = desc[m].fd
    BY <2>1 DEF OpenLogs, ListTypeOK
  <2>3. \A g \in Fd : g \in Unowned' <=> g \in Unowned
    BY <1>0, <2>1, <2>2, UnownedIs, UnownedNext
  <2> QED
    BY <2>3 DEF Unowned
<1>4. CASE StopReadingLog \/ \E l \in Log : PurgeLog(l)
  <2>1. UNCHANGED <<hookVars, pipeVars>>
    BY <1>4 DEF StopReadingLog, PurgeLog, runVars, pipeVars
  <2>2. CASE \E l \in logs : Drop(l)
    BY <2>1, <2>2, UnownedDrop
  <2>3. CASE UNCHANGED <<fds, listVars>>
    BY <1>0, <2>1, <2>3, UnownedSame DEF hookVars, listVars
  <2> QED
    BY <1>4, <2>2, <2>3 DEF StopReadingLog, PurgeLog, Requested, OfClient, UseClosedStream
<1> QED
  BY <1>1, <1>2, <1>3, <1>4 DEF Handlers

\* Reading loses the ends of a pipe if the fork fails, and none otherwise.
LEMMA UnownedRead ==
  ASSUME LInv, GetNextLine, Unowned' # Unowned
  PROVE  /\ run_pc = "fork" /\ desc'[it].phase = "closed"
         /\ Unowned' = Unowned \cup {pipe0, pipe1}
<1> USE DEF LInv
<1>1. /\ it \in logs /\ logs' = logs /\ UNCHANGED pend
      /\ \A m \in Log \ {it} : desc'[m] = desc[m]
      /\ it \in Log /\ desc[it].fd \in Fd /\ logs \subseteq Log
      /\ desc[it] \in Desc /\ desc'[it] \in Desc
  BY ReadEffect DEF ListTypeOK, Desc, GetNextLine, ReadLine, CloseFile, MakePipe, PipeFails,
     ForkFails, StartTail, TailFdopenFails, ReadTailFails, ReadClosed, InGetNextLine, NotRun,
     hookVars
<1>2. fds \in [Fd -> {"free", "socket", "other"}] /\ -1 \notin Fd
  BY FdAssumption DEF WSInv, WSTypeOK
<1>3. CASE ReadLine
  <2>1. desc' = [desc EXCEPT ![it].lines = @ - 1] /\ UNCHANGED <<fds, pipe0, pipe1>>
    BY <1>3 DEF ReadLine, pipeVars
  <2>2. desc'[it].fd = desc[it].fd /\ desc'[it].phase = desc[it].phase
    BY <1>1, <2>1 DEF ListTypeOK, Desc
  <2> QED
    BY <1>1, <2>1, <2>2, UnownedSame
<1>4. CASE ReadClosed \/ PipeFails \/ TailFdopenFails
  BY <1>1, <1>4, UnownedSame
     DEF ReadClosed, UseClosedStream, PipeFails, TailFdopenFails, listVars, pipeVars
<1>5. CASE CloseFile \/ ReadTailFails
  <2>1. /\ desc[it].phase # "closed" /\ desc' = [desc EXCEPT ![it].phase = "closed"]
        /\ fds' = [fds EXCEPT ![desc[it].fd] = "free"] /\ UNCHANGED <<pipe0, pipe1>>
    BY <1>5 DEF CloseFile, ReadTailFails, CloseStream, pipeVars
  <2>2. desc'[it].phase = "closed"
    BY <1>1, <2>1 DEF ListTypeOK, Desc
  <2>3. it \in OpenLogs /\ OpenLogs' = OpenLogs \ {it}
    BY <1>1, <2>1, <2>2 DEF OpenLogs
  <2>4. \A m \in OpenLogs' : desc'[m].fd = desc[m].fd
    BY <1>1, <2>3 DEF OpenLogs
  <2> QED
    BY <1>1, <2>1, <2>3, <2>4, UnownedClose
<1>6. CASE MakePipe
  <2>1. PICK f, g \in Fd : /\ fds[f] = "free" /\ fds[g] = "free"
                           /\ fds' = [fds EXCEPT ![f] = "other", ![g] = "other"]
                           /\ pipe0' = f /\ pipe1' = g
    BY <1>6 DEF MakePipe, FreeFds
  <2>2. OpenLogs' = OpenLogs /\ UNCHANGED desc /\ pipe0 = -1 /\ pipe1 = -1
    BY <1>1, <1>6 DEF MakePipe, InGetNextLine, OpenLogs, RunOK
  <2>3. \A h \in Fd : h \in Unowned' <=> h \in Unowned
    <3> TAKE h \in Fd
    <3>1. CASE h \in {f, g}
      BY <2>1, <3>1, UnownedIs, UnownedNext
    <3>2. CASE h \notin {f, g}
      <4>1. fds'[h] = fds[h]
        BY <1>2, <2>1, <3>2
      <4> QED
        BY <1>1, <1>2, <2>1, <2>2, <3>2, <4>1, UnownedIs, UnownedNext
    <3> QED
      BY <3>1, <3>2
  <2> QED
    BY <2>3 DEF Unowned
<1>7. CASE StartTail
  <2>1. /\ fds' = [fds EXCEPT ![pipe1] = "free"] /\ pipe0' = -1 /\ pipe1' = -1
        /\ desc' = [desc EXCEPT ![it].fd = pipe0, ![it].phase = "tail"]
        /\ desc[it].phase = "closed" /\ pipe0 # pipe1 /\ pipe0 \in Fd /\ pipe1 \in Fd
    BY <1>7 DEF StartTail, ForgetPipe, InGetNextLine, RunOK, FdsOK, ListTypeOK
  <2>2. desc'[it].fd = pipe0 /\ desc'[it].phase = "tail"
    BY <1>1, <2>1 DEF ListTypeOK, Desc
  <2>3. /\ OpenLogs' = OpenLogs \cup {it} /\ it \notin OpenLogs
        /\ \A m \in OpenLogs : desc'[m].fd = desc[m].fd
    BY <1>1, <2>1, <2>2 DEF OpenLogs
  <2>4. \A h \in Fd : h \in Unowned' <=> h \in Unowned
    <3> TAKE h \in Fd
    <3>1. CASE h = pipe0
      BY <2>2, <2>3, <3>1, UnownedIs, UnownedNext
    <3>2. CASE h = pipe1
      <4>1. fds'[h] = "free"
        BY <1>2, <2>1, <3>2
      <4> QED
        BY <3>2, <4>1, UnownedIs, UnownedNext
    <3>3. CASE h \notin {pipe0, pipe1}
      <4>1. fds'[h] = fds[h]
        BY <1>2, <2>1, <3>3
      <4>2. (\A m \in OpenLogs' : desc'[m].fd # h) <=> \A m \in OpenLogs : desc[m].fd # h
        BY <2>2, <2>3, <3>3
      <4> QED
        BY <1>1, <1>2, <2>1, <3>3, <4>1, <4>2, UnownedIs, UnownedNext
    <3> QED
      BY <3>1, <3>2, <3>3
  <2> QED
    BY <2>4 DEF Unowned
<1>8. CASE ForkFails
  <2>1. /\ UNCHANGED <<fds, desc>> /\ OpenLogs' = OpenLogs /\ pipe0' = -1 /\ pipe1' = -1
        /\ run_pc = "fork" /\ desc[it].phase = "closed"
    BY <1>1, <1>8 DEF ForkFails, ForgetPipe, InGetNextLine, OpenLogs, RunOK
  <2>2. /\ pipe0 \in Fd /\ pipe1 \in Fd /\ fds[pipe0] = "other" /\ fds[pipe1] = "other"
        /\ pend \notin {pipe0, pipe1} /\ \A m \in OpenLogs : desc[m].fd \notin {pipe0, pipe1}
    BY <2>1 DEF RunOK, FdsOK, ListTypeOK
  <2>3. pipe0 \in Unowned' /\ pipe1 \in Unowned'
    BY <1>1, <1>2, <2>1, <2>2, UnownedNext
  <2>4. \A h \in Fd : h \notin {pipe0, pipe1} => (h \in Unowned' <=> h \in Unowned)
    BY <1>1, <1>2, <2>1, UnownedIs, UnownedNext
  <2>5. Unowned \subseteq Fd /\ Unowned' \subseteq Fd
    BY DEF Unowned
  <2> QED
    BY <2>1, <2>2, <2>3, <2>4, <2>5
<1> QED
  BY <1>3, <1>4, <1>5, <1>6, <1>7, <1>8 DEF GetNextLine

\* A fork that fails loses both ends of its pipe, and a file that is opened but
\* gets no stream its descriptor; nothing else loses one, and none comes back.
THEOREM DescriptorsLostByFailures == Spec => LeaksAreFailures
<1> DEFINE Lost ==
      \/ /\ run_pc = "fork" /\ desc'[it].phase = "closed"
         /\ Unowned' = Unowned \cup {pipe0, pipe1}
      \/ /\ InOnMessage("add") /\ ml_pc' # "onmessage" /\ logs' = logs
         /\ \E f \in Fd \ Unowned : Unowned' = Unowned \cup {f}
<1>1. ASSUME LInv, Next PROVE Unowned' # Unowned => Lost
  <2>1. CASE ServerStep /\ UNCHANGED <<listVars, hookVars, runVars>>
    BY <1>1, <2>1, ServerEffect, UnownedSame DEF LInv, listVars, hookVars, runVars
  <2>2. CASE Handlers
    BY <1>1, <2>2, UnownedHandlers
  <2>3. CASE GetNextLine
    BY <1>1, <2>3, UnownedRead
  <2>4. ASSUME NEW l \in logs, Drop(l) \/ UseClosedStream(l), NotRun, UNCHANGED pipeVars
        PROVE  Unowned' = Unowned
    BY <1>1, <2>4, UnownedDrop, UnownedSame
       DEF UseClosedStream, NotRun, hookVars, listVars, pipeVars
  <2>5. CASE (\E l \in Log : ClientMissing(l)) \/ Exception
    BY <1>1, <2>4, <2>5 DEF ClientMissing, Exception, LInv, RunOK, AtLog
  <2>6. CASE (Run \/ RunSpuriousWakeup \/ SelectLogsInterrupted) /\ ~GetNextLine
             /\ ~(\E l \in Log : ClientMissing(l)) /\ ~Exception
    <3>1. UNCHANGED <<fds, listVars, pend, pipe0, pipe1>>
      BY <2>6 DEF Run, RunSpuriousWakeup, SelectLogsInterrupted, SleepOnEmptyList, FillReadFds,
         SelectLogsReturns, SelectOnClosedFd, SelectLogsReady, SelectLogsTimeout, RelockLogs,
         Visit, ClientFound, EndLogsPass, StartSend, HangInSend, FinishSend, NoException,
         NotRun, hookVars, pipeVars
    <3> QED
      BY <3>1, UnownedSame DEF listVars
  <2>7. CASE \E l \in Log : LineAppended(l) \/ TailExits(l)
    <3>1. PICK l \in Log : LineAppended(l) \/ TailExits(l)
      BY <2>7
    <3>2. /\ UNCHANGED <<fds, pend, logs, pipe0, pipe1>>
          /\ \A m \in logs : /\ desc'[m].fd = desc[m].fd
                             /\ desc'[m].phase = "closed" <=> desc[m].phase = "closed"
      BY <1>1, <3>1, OutsideEffect
         DEF LineAppended, TailExits, wsVars, hookVars, runVars, LInv, ListTypeOK
    <3> QED
      BY <3>2, UnownedSame
  <2> QED
    BY <1>1, <2>1, <2>2, <2>3, <2>5, <2>6, <2>7 DEF Next
<1>2. LInv /\ [Next]_vars => [Unowned' # Unowned => Lost]_vars
  BY <1>1
<1> QED
  BY <1>2, LInvariant, PTL DEF Spec, LeaksAreFailures

-----------------------------------------------------------------------------
(* Subscriptions: every step of the three threads is a step of that         *)
(* specification, or nothing to the clients.                                *)

\* What members, subs and sending of Subscriptions stand for.
Subs    == {Subscription(l) : l \in logs}
Line    == [sub |-> Subscription(it), to |-> client_it]
Sending == IF run_pc \in {"send", "write", "hung"} THEN {Line} ELSE {}

\* Run is not sending.
NoLine == run_pc \notin {"send", "write", "hung"}

-----------------------------------------------------------------------------
(* What the list says of the subscriptions *)

\* A node is one subscription.
LEMMA SubscriptionsDiffer ==
  \A l, m : Subscription(l) = Subscription(m) => l = m
BY DEF Subscription

\* Descriptions that keep the client and the file keep the subscription.
LEMMA SubscriptionKept ==
  ASSUME NEW l, desc'[l].owner = desc[l].owner, desc'[l].file = desc[l].file
  PROVE  Subscription(l)' = Subscription(l)
BY DEF Subscription

\* A list that keeps its nodes keeps the subscriptions.
LEMMA SubsSame ==
  ASSUME logs' = logs,
         \A l \in logs : desc'[l].owner = desc[l].owner /\ desc'[l].file = desc[l].file
  PROVE  Subs' = Subs
BY DEF Subs, Subscription

\* A list that loses a node loses its subscription and no other.
LEMMA SubsDrop ==
  ASSUME ListTypeOK, NEW l \in logs, Drop(l)
  PROVE  Subs' = Subs \ {Subscription(l)}
<1>1. logs' = logs \ {l}
  BY DEF Drop
<1>2. \A m \in logs' : desc'[m].owner = desc[m].owner /\ desc'[m].file = desc[m].file
  BY DropEffect DEF SameButPhase
<1>3. \A m \in logs' : Subscription(m)' = Subscription(m)
  BY <1>2, SubscriptionKept
<1>4. \A m \in logs : m # l => Subscription(m) # Subscription(l)
  BY SubscriptionsDiffer
<1> QED
  BY <1>1, <1>3, <1>4 DEF Subs

\* The line on its way is the same while Run is where it was and the log it is
\* at keeps client and file.
LEMMA SendingSame ==
  ASSUME UNCHANGED <<run_pc, it, client_it>>,
         NoLine \/ (desc'[it].owner = desc[it].owner /\ desc'[it].file = desc[it].file)
  PROVE  Sending' = Sending
BY DEF Sending, NoLine, Line, Subscription

\* Two moments at which Run is not sending are the same to the clients.
LEMMA SendingNone ==
  ASSUME NoLine, NoLine'
  PROVE  Sending' = Sending /\ Sending = {}
BY DEF Sending, NoLine

-----------------------------------------------------------------------------
(* Steps *)

\* Dropping a log while Run is not sending ends its subscription.
LEMMA DropEnds ==
  ASSUME ListTypeOK, NEW l \in logs, Drop(l), NoLine, NoLine', UNCHANGED clients
  PROVE  \E s \in Subs : Promise!End(s)
<1>1. Subs' = Subs \ {Subscription(l)} /\ Subscription(l) \in Subs
  BY SubsDrop DEF Subs
<1>2. Sending' = Sending /\ Sending = {}
  BY SendingNone
<1> QED
  BY <1>1, <1>2 DEF Promise!End, Subs, Sending, Line

\* The base class lets clients join, and leave when nothing of theirs is left.
LEMMA ServerPromise ==
  ASSUME LInv, Next, ServerStep, UNCHANGED <<listVars, hookVars, runVars>>
  PROVE  [Promise!Next]_(Promise!vars)
<1>1. Subs' = Subs /\ Sending' = Sending
  BY SubsSame, SendingSame DEF listVars, runVars
<1>2. CASE Insert
  <2>1. /\ cl_conn \in Conn /\ cl_conn \notin clients
        /\ clients' = clients \cup {cl_conn}
    BY <1>2 DEF Insert, LInv, WSInv, WSTypeOK, ThreadsOK
  <2>2. Promise!Join(cl_conn)
    BY <1>1, <2>1 DEF Promise!Join, Subs, Sending, Line
  <2> QED
    BY <2>1, <2>2 DEF Promise!Next
<1>3. CASE Erase
  <2>1. /\ cur \in clients /\ clients' = clients \ {cur}
        /\ \A l \in logs : desc[l].owner # cur
    BY <1>3 DEF Erase, LInv, WSInv, WSTypeOK, ThreadsOK, AtClient, LogsHaveClients
  <2>2. Promise!Leave(cur)
    BY <1>1, <2>1 DEF Promise!Leave, Subs, Sending, Line, Subscription
  <2> QED
    BY <2>1, <2>2 DEF Promise!Next
<1>4. CASE UNCHANGED <<clients, id>>
  BY <1>1, <1>4 DEF Promise!vars, Subs, Sending, Line
<1>5. WSNext
  BY DEF Next, WSNext
<1> QED
  BY <1>2, <1>3, <1>4, <1>5, MapChanges

\* A request subscribes the client it came from, or ends a subscription; the
\* purge ends one after the other.
LEMMA HandlersPromise ==
  ASSUME LInv, Handlers
  PROVE  [Promise!Next]_(Promise!vars)
<1> USE DEF LInv
<1>1. UNCHANGED clients
  BY HandlersList
<1>2. ASSUME UNCHANGED <<listVars, runVars>> PROVE UNCHANGED Promise!vars
  <2>1. Subs' = Subs /\ Sending' = Sending
    BY <1>2, SubsSame, SendingSame DEF listVars, runVars
  <2> QED
    BY <1>1, <2>1 DEF Promise!vars, Subs, Sending, Line
<1>3. CASE IgnoreMessage \/ OpenLogFails \/ OpenLogLeaks \/ OpenLog \/ LockToPurge \/ EndPurge
  BY <1>2, <1>3 DEF IgnoreMessage, OpenLogFails, OpenLogLeaks, OpenLog, LockToPurge, EndPurge,
                    listVars
<1>4. ASSUME NEW l \in Log, NEW n \in 0 .. MaxLines, PushLog(l, n)
      PROVE  [Promise!Next]_(Promise!vars)
  <2> DEFINE new == [log |-> l, client |-> cur, file |-> text.file]
  <2>1. ml_pc = "onmessage" /\ NoLine /\ NoLine'
    BY <1>4 DEF PushLog, HookOK, LogsFree, Busy, AtLog, NoLine, RunSignalled
  <2>2. cur \in clients /\ text.file \in File /\ l \notin logs /\ logs' = logs \cup {l}
    BY <1>4, <2>1, TextIsRequest DEF PushLog
  <2>3. /\ desc'[l].owner = cur /\ desc'[l].file = text.file
        /\ \A m \in logs : desc'[m] = desc[m]
    BY <1>4 DEF PushLog, ListTypeOK
  <2>4. Subs' = Subs \cup {new}
    BY <2>2, <2>3 DEF Subs, Subscription
  <2>5. Sending' = Sending
    BY <2>1, SendingNone
  <2>6. \A s \in Subs : s.log # l
    BY <2>2 DEF Subs, Subscription
  <2>7. Promise!Subscribe(new)
    BY <1>1, <2>2, <2>4, <2>5, <2>6 DEF Promise!Subscribe, Subs, Sending, Line
  <2>8. new \in [log : Log, client : clients, file : File]
    BY <2>2
  <2> QED
    BY <2>7, <2>8 DEF Promise!Next
<1>5. ASSUME NEW l \in logs, Drop(l), UNCHANGED runVars, NoLine
      PROVE  [Promise!Next]_(Promise!vars)
  <2>1. NoLine'
    BY <1>5 DEF NoLine, runVars
  <2>2. \E s \in Subs : Promise!End(s)
    BY <1>1, <1>5, <2>1, DropEnds
  <2> QED
    BY <2>2 DEF Promise!Next, Subs
<1>6. CASE StopReadingLog \/ \E l \in Log : PurgeLog(l)
  <2>1. UNCHANGED runVars /\ NoLine
    BY <1>6 DEF StopReadingLog, PurgeLog, LogsFree, NoLine, HookOK, Busy, AtLog
  <2> QED
    BY <1>2, <1>5, <1>6, <2>1 DEF StopReadingLog, PurgeLog, Requested, OfClient, UseClosedStream
<1> QED
  BY <1>3, <1>4, <1>6 DEF Handlers

\* Reading a line puts it on its way to the client that asked for the log.
LEMMA ReadPromise ==
  ASSUME LInv, GetNextLine
  PROVE  [Promise!Next]_(Promise!vars)
<1> USE DEF LInv
<1>1. run_pc \in {"read", "pipe", "fork"} /\ UNCHANGED <<clients, it, client_it>>
  BY DEF GetNextLine, ReadLine, CloseFile, MakePipe, PipeFails, ForkFails, StartTail,
         TailFdopenFails, ReadTailFails, ReadClosed, InGetNextLine, NotRun, mapVars
<1>2. it \in logs /\ client_it = desc[it].owner
  BY <1>1 DEF DeliversToOwner, AtLog
<1>3. /\ logs' = logs
      /\ \A l \in logs : desc'[l].owner = desc[l].owner /\ desc'[l].file = desc[l].file
      /\ run_pc' \in AtLog \ {"write", "hung"}
  BY ReadEffect DEF ListTypeOK
<1>4. Subs' = Subs
  BY <1>3, SubsSame
<1>5. Sending = {} /\ NoLine
  BY <1>1 DEF Sending, NoLine
<1>6. CASE run_pc' = "send"
  <2> DEFINE s == Subscription(it)
  <2>1. Sending' = {[sub |-> s, to |-> s.client]}
    BY <1>1, <1>2, <1>3, <1>6, SubscriptionKept DEF Sending, Line, Subscription
  <2>2. Promise!Send(s) /\ s \in Subs
    BY <1>1, <1>2, <1>4, <1>5, <2>1 DEF Promise!Send, Subs, Sending, Line
  <2> QED
    BY <2>2 DEF Promise!Next, Subs
<1>7. CASE run_pc' # "send"
  <2>1. Sending' = Sending
    BY <1>3, <1>5, <1>7, SendingNone DEF NoLine, AtLog
  <2> QED
    BY <1>1, <1>4, <2>1 DEF Promise!vars, Subs, Sending, Line
<1> QED
  BY <1>6, <1>7

\* Run sends one line at a time and ends a subscription only between lines.
LEMMA RunPromise ==
  ASSUME LInv, Run \/ RunSpuriousWakeup \/ SelectLogsInterrupted
  PROVE  [Promise!Next]_(Promise!vars)
<1> USE DEF LInv
<1>1. UNCHANGED clients
  BY RunList
<1>2. ASSUME UNCHANGED listVars, Sending' = Sending PROVE UNCHANGED Promise!vars
  <2>1. Subs' = Subs
    BY <1>2, SubsSame DEF listVars
  <2> QED
    BY <1>1, <1>2, <2>1 DEF Promise!vars, Subs, Sending, Line
<1>3. CASE SleepOnEmptyList \/ RunSpuriousWakeup \/ SelectLogsInterrupted \/ FillReadFds
           \/ SelectLogsReturns \/ RelockLogs \/ (\E l \in Log : ClientFound(l))
           \/ EndLogsPass \/ NoException
  <2>1. NoLine /\ NoLine' /\ UNCHANGED listVars
    BY <1>3 DEF SleepOnEmptyList, RunSpuriousWakeup, SelectLogsInterrupted, FillReadFds,
         SelectLogsReturns, SelectOnClosedFd, SelectLogsReady, SelectLogsTimeout, RelockLogs,
         ClientFound, EndLogsPass, NoException, NoLine
  <2> QED
    BY <1>2, <2>1, SendingNone
<1>4. CASE StartSend \/ HangInSend
  <2>1. /\ UNCHANGED <<listVars, it, client_it>>
        /\ ~NoLine /\ ~NoLine'
    BY <1>4 DEF StartSend, HangInSend, NoLine
  <2>2. Sending' = Sending
    BY <2>1 DEF Sending, NoLine, Line, Subscription, listVars
  <2> QED
    BY <1>2, <2>1, <2>2
<1>5. CASE FinishSend
  <2>1. UNCHANGED listVars /\ run_pc = "write" /\ run_pc' = "except"
    BY <1>5 DEF FinishSend
  <2>2. Subs' = Subs /\ Sending # {} /\ Sending' = {}
    BY <2>1, SubsSame DEF Sending, listVars
  <2>3. Promise!Sent
    BY <1>1, <2>2 DEF Promise!Sent, Subs, Sending, Line
  <2> QED
    BY <2>3 DEF Promise!Next
<1>6. ASSUME NEW l \in logs, Drop(l) \/ UseClosedStream(l), NoLine, NoLine'
      PROVE  [Promise!Next]_(Promise!vars)
  <2>1. CASE Drop(l)
    <3>1. \E s \in Subs : Promise!End(s)
      BY <1>1, <1>6, <2>1, DropEnds
    <3> QED
      BY <3>1 DEF Promise!Next, Subs
  <2>2. CASE UseClosedStream(l)
    BY <1>2, <1>6, <2>2, SendingNone DEF UseClosedStream
  <2> QED
    BY <1>6, <2>1, <2>2
<1>7. CASE (\E l \in Log : ClientMissing(l)) \/ Exception
  <2>1. PICK l \in logs : Drop(l) \/ UseClosedStream(l)
    BY <1>7 DEF ClientMissing, Exception, RunOK, AtLog
  <2>2. NoLine /\ NoLine'
    BY <1>7 DEF ClientMissing, Exception, NoLine
  <2> QED
    BY <1>6, <2>1, <2>2
<1>8. CASE GetNextLine
  BY <1>8, ReadPromise
<1> QED
  BY <1>3, <1>4, <1>5, <1>7, <1>8 DEF Run, Visit

\* Every step is one of Subscriptions, or nothing to the clients.
LEMMA StepKeepsPromise == LInv /\ [Next]_vars => [Promise!Next]_(Promise!vars)
<1> SUFFICES ASSUME LInv, [Next]_vars PROVE [Promise!Next]_(Promise!vars)
  OBVIOUS
<1>1. CASE Next /\ ServerStep /\ UNCHANGED <<listVars, hookVars, runVars>>
  BY <1>1, ServerPromise
<1>2. CASE Handlers
  BY <1>2, HandlersPromise
<1>3. CASE Run \/ RunSpuriousWakeup \/ SelectLogsInterrupted
  BY <1>3, RunPromise
<1>4. ASSUME NEW l \in Log, LineAppended(l) \/ TailExits(l)
      PROVE  UNCHANGED Promise!vars
  <2>1. /\ UNCHANGED <<clients, logs, run_pc, it, client_it>>
        /\ \A m \in logs : desc'[m].owner = desc[m].owner /\ desc'[m].file = desc[m].file
    BY <1>4, OutsideEffect
       DEF LineAppended, TailExits, wsVars, mapVars, runVars, LInv, ListTypeOK
  <2>2. NoLine \/ it \in logs
    BY DEF LInv, NoLine, DeliversToOwner, AtLog
  <2>3. Subs' = Subs /\ Sending' = Sending
    BY <2>1, <2>2, SubsSame, SendingSame
  <2> QED
    BY <2>1, <2>3 DEF Promise!vars, Subs, Sending, Line
<1>5. CASE UNCHANGED vars
  <2>1. Subs' = Subs /\ Sending' = Sending /\ UNCHANGED clients
    BY <1>5, SubsSame, SendingSame DEF vars, wsVars, mapVars, listVars, runVars
  <2> QED
    BY <2>1 DEF Promise!vars, Subs, Sending, Line
<1> QED
  BY <1>1, <1>2, <1>3, <1>4, <1>5 DEF Next

\* LogServer implements Subscriptions.
THEOREM LogServerKeepsSubscriptions == Spec => KeepsSubscriptions
<1>1. Init => Promise!Init
  BY DEF Init, WSInit, Promise!Init
<1> QED
  BY <1>1, StepKeepsPromise, LInvariant, PTL DEF Spec, KeepsSubscriptions, Promise!Spec
=============================================================================

------------------------------ MODULE LogServer ------------------------------
(***************************************************************************)
(* class LogServer of log-server/log-server.cpp, derived from              *)
(* WebSocketServer: the list of logs the clients asked for, under          *)
(* logs_mutex; the handlers that the message reader calls (it holds        *)
(* clients_mutex then); and the main thread (Run), which reads the logs    *)
(* and sends the lines.  A log is read as a file up to its end and then    *)
(* through a pipe from a child process, tail -F.                           *)
(*                                                                         *)
(* The order of the list is not modelled: where the code goes through it   *)
(* the model takes its members in any order.                               *)
(***************************************************************************)
EXTENDS WebSocketServer

CONSTANTS
  Log,       \* nodes of the list; bound: logs that are open at once
  File,      \* names of log files
  NoLog,     \* no node
  NoFile,    \* the name of no file
  MaxLines,  \* bound: lines of a log waiting to be read
  Faults     \* what may fail: "fork", "fdopen", "tail exit"

ASSUME LogAssumption == NoLog \notin Log /\ NoFile \notin File
ASSUME RequestAssumption ==
  Text \subseteq [op : {"add", "del", "junk"}, file : File]
ASSUME LinesAssumption ==
  MaxLines \in Nat /\ Faults \subseteq {"fork", "fdopen", "tail exit"}

VARIABLES
  logs,        \* the nodes in the list
  desc,        \* the LogDescription of each node
  hook,        \* where the reader is in OnMessage or OnDisconnect
  pend,        \* the descriptor StartReadingLog has opened
  run_pc,      \* where Run is
  read_fds,    \* before select what to watch, after it what is readable
  except_fds,  \* after select, what has an exceptional condition
  todo,        \* logs the pass has still to visit
  it,          \* the log it is at
  client_it,   \* the client clients.find returned
  pipe0, pipe1 \* tailPipe of OpenTail: the ends for reading and for writing

listVars == <<logs, desc>>
hookVars == <<hook, pend>>
pipeVars == <<pipe0, pipe1>>
runVars  == <<run_pc, read_fds, except_fds, todo, it, client_it, pipe0, pipe1>>
vars     == <<wsVars, listVars, hookVars, runVars>>

-----------------------------------------------------------------------------
(* LogDescription *)

(* How a log is read.  "file": stream is the file.  "tail": a pipe, and the *)
(* child runs.  "exited": the child is dead and not waited for.  "reaped":  *)
(* somebody waited for it.  "closed": stream was closed, yet the node is    *)
(* still in the list; only on the way to a tail is it given another one.    *)
Phase == {"file", "tail", "exited", "reaped", "closed"}

(* client is client_id.  owner is not in the code: the connection that      *)
(* asked, which client_id stands for.                                       *)
Blank == [file |-> NoFile, client |-> -1, owner |-> NoConn, fd |-> -1,
          phase |-> "closed", lines |-> 0]

Desc == [file : File, client : Nat, owner : Conn, fd : Fd, phase : Phase,
         lines : 0 .. MaxLines]

In(p) == {l \in logs : desc[l].phase = p}

Mark(S, p) == [l \in Log |-> IF l \in S THEN [desc[l] EXCEPT !.phase = p] ELSE desc[l]]

(* What waitpid and kill in Cleanup do to the children of the other logs.   *)
(* With tail_pid = -1 they speak of every child: waitpid(-1) collects one   *)
(* that is dead; if all are running, kill(-1) ends them and the second      *)
(* waitpid collects one.                                                    *)
AfterCleanup(l) ==
  IF desc[l].phase # "file" THEN {desc}
  ELSE IF In("exited") # {} THEN {Mark({m}, "reaped") : m \in In("exited")}
  ELSE IF In("tail") = {} THEN {desc}
  ELSE {[Mark(In("tail"), "exited") EXCEPT ![m].phase = "reaped"] : m \in In("tail")}

CloseStream(l) == fds' = [fds EXCEPT ![desc[l].fd] = "free"]

DropWithoutErase(l) ==
  /\ desc[l].phase # "closed"
  /\ CloseStream(l)
  /\ \E d \in AfterCleanup(l) : desc' = [d EXCEPT ![l] = Blank]
  /\ logs' = logs
  /\ alive' = alive

(* Cleanup() of a log that is then erased from the list.                    *)
Drop(l) ==
  /\ desc[l].phase # "closed"
  /\ CloseStream(l)
  /\ \E d \in AfterCleanup(l) : desc' = [d EXCEPT ![l] = Blank]
  /\ logs' = logs \ {l}
  /\ alive' = alive

CloseAgain(l) ==
  /\ desc[l].phase = "closed"
  /\ CloseStream(l)
  /\ UNCHANGED <<alive, listVars>>

(* fclose or fgets on a stream that was closed before.  It is undefined:    *)
(* the C library usually aborts, or the memory is the stream of another log *)
(* by now.  Nothing is modelled after it, and nothing claimed.              *)
UseClosedStream(l) ==
  /\ desc[l].phase = "closed"
  /\ alive' = FALSE
  /\ UNCHANGED <<fds, listVars>>

\* Where Run is at a log, and where it holds logs_mutex.
AtLog == {"read", "pipe", "fork", "send", "write", "hung", "except"}
Busy  == AtLog \cup {"pass"}

LogsFreeWhileSending ==
  /\ run_pc \notin Busy \ {"send", "write", "hung"}
  /\ hook # "purge"

LogsFree ==
  /\ run_pc \notin Busy
  /\ hook # "purge"

Init ==
  /\ WSInit
  /\ logs = {} /\ desc = [l \in Log |-> Blank]
  /\ hook = "idle" /\ pend = -1
  /\ run_pc = "wait" /\ read_fds = {} /\ except_fds = {} /\ todo = {}
  /\ it = NoLog /\ client_it = NoConn /\ pipe0 = -1 /\ pipe1 = -1

-----------------------------------------------------------------------------
(* The files and the children *)

LineAppended(l) ==
  /\ l \in logs /\ desc[l].phase \in {"file", "tail"}
  /\ desc[l].lines < MaxLines
  /\ desc' = [desc EXCEPT ![l].lines = @ + 1]
  /\ UNCHANGED <<wsVars, logs, hookVars, runVars>>

TailExits(l) ==
  /\ "tail exit" \in Faults
  /\ l \in In("tail")
  /\ desc' = [desc EXCEPT ![l].phase = "exited"]
  /\ UNCHANGED <<wsVars, logs, hookVars, runVars>>

-----------------------------------------------------------------------------
(* OnMessage and OnDisconnect, called by the reader for the client cur *)

InOnMessage(op) == ml_pc = "onmessage" /\ hook = "idle" /\ text.op = op

IgnoreMessage ==
  /\ InOnMessage("junk")
  /\ ReturnFromOnMessage
  /\ UNCHANGED <<fds, listVars, hookVars, runVars>>

OpenLogFails ==
  /\ InOnMessage("add")
  /\ ReturnFromOnMessage
  /\ UNCHANGED <<fds, listVars, hookVars, runVars>>

\* The file is opened, but fdopen fails: nobody closes the descriptor.
OpenLogLeaks ==
  /\ "fdopen" \in Faults
  /\ InOnMessage("add")
  /\ \E f \in FreeFds :
       /\ Lowest(f, FreeFds)
       /\ fds' = [fds EXCEPT ![f] = "other"]
  /\ ReturnFromOnMessage
  /\ UNCHANGED <<listVars, hookVars, runVars>>

\* StartReadingLog opens the file before it takes logs_mutex.
OpenLog ==
  /\ InOnMessage("add")
  /\ \E f \in FreeFds :
       /\ Lowest(f, FreeFds)
       /\ fds' = [fds EXCEPT ![f] = "other"]
       /\ pend' = f
  /\ hook' = "push"
  /\ UNCHANGED <<alive, socket, peerVars, mapVars, clVars, mlVars, listVars, runVars>>

RunNotSignalled == run_pc

\* TellThatLogsListIsNotEmpty wakes Run if it waits.
RunSignalled == IF run_pc = "asleep" THEN "woken" ELSE run_pc

PushLog(l, n) ==
  /\ hook = "push" /\ LogsFree
  /\ l \in Log \ logs
  /\ logs' = logs \cup {l}
  /\ desc' = [desc EXCEPT ![l] = [file |-> text.file, client |-> id[cur], owner |-> cur,
                                  fd |-> pend, phase |-> "file", lines |-> n]]
  /\ run_pc' = IF logs' = {l} THEN RunSignalled ELSE run_pc
  /\ hook' = "idle" /\ pend' = -1
  /\ ReturnFromOnMessage
  /\ UNCHANGED <<fds, read_fds, except_fds, todo, it, client_it, pipeVars>>

RequestedByAnybody(l, c, file) == l \in logs /\ desc[l].file = file

Requested(l, c, file) == l \in logs /\ desc[l].client = id[c] /\ desc[l].file = file

StopReadingLog ==
  /\ InOnMessage("del") /\ LogsFree
  /\ \/ /\ \E l \in Log : Requested(l, cur, text.file) /\ Drop(l)
        /\ ReturnFromOnMessage
     \/ /\ \E l \in Log : Requested(l, cur, text.file) /\ UseClosedStream(l)
        /\ UNCHANGED <<socket, peerVars, mapVars, clVars, mlVars>>
     \/ /\ \A l \in Log : ~Requested(l, cur, text.file)
        /\ ReturnFromOnMessage
        /\ UNCHANGED <<fds, listVars>>
  /\ UNCHANGED <<hookVars, runVars>>

LockToPurge ==
  /\ ml_pc = "ondisconnect" /\ hook = "idle" /\ LogsFree
  /\ hook' = "purge"
  /\ UNCHANGED <<wsVars, listVars, pend, runVars>>

OfClient(l, i) == l \in logs /\ desc[l].client = i

PurgeLog(l) ==
  /\ hook = "purge" /\ OfClient(l, id[cur])
  /\ Drop(l) \/ UseClosedStream(l)
  /\ UNCHANGED <<socket, peerVars, mapVars, clVars, mlVars, hookVars, runVars>>

EndPurgeEarly ==
  /\ hook = "purge"
  /\ hook' = "idle"
  /\ ReturnFromOnDisconnect
  /\ UNCHANGED <<fds, listVars, pend, runVars>>

EndPurge ==
  /\ hook = "purge" /\ \A l \in Log : ~OfClient(l, id[cur])
  /\ hook' = "idle"
  /\ ReturnFromOnDisconnect
  /\ UNCHANGED <<fds, listVars, pend, runVars>>

Handlers ==
  \/ IgnoreMessage \/ OpenLogFails \/ OpenLogLeaks \/ OpenLog
  \/ \E l \in Log, n \in 0 .. MaxLines : PushLog(l, n)
  \/ StopReadingLog
  \/ LockToPurge \/ (\E l \in Log : PurgeLog(l)) \/ EndPurge

-----------------------------------------------------------------------------
(* Run *)

\* What every step of Run leaves alone.
NotRun == UNCHANGED <<socket, peerVars, mapVars, clVars, mlVars, hookVars>>

SleepOnEmptyList ==
  /\ run_pc = "wait" /\ LogsFree /\ logs = {}
  /\ run_pc' = "asleep"
  /\ NotRun
  /\ UNCHANGED <<alive, fds, listVars, read_fds, except_fds, todo, it, client_it, pipeVars>>

RunSpuriousWakeup ==
  /\ run_pc = "asleep"
  /\ run_pc' = "woken"
  /\ NotRun
  /\ UNCHANGED <<alive, fds, listVars, read_fds, except_fds, todo, it, client_it, pipeVars>>

FillReadFds ==
  /\ run_pc = "woken" \/ (run_pc = "wait" /\ logs # {})
  /\ LogsFree
  /\ read_fds' = {desc[l].fd : l \in logs}
  /\ run_pc' = "select"
  /\ NotRun
  /\ UNCHANGED <<alive, fds, listVars, except_fds, todo, it, client_it, pipeVars>>

\* A descriptor of the set has been closed: select fails with EBADF and
\* leaves both sets as they were filled.
SelectOnClosedFd ==
  /\ run_pc = "select"
  /\ \E f \in read_fds : fds[f] = "free"
  /\ except_fds' = read_fds
  /\ run_pc' = "relock"
  /\ NotRun
  /\ UNCHANGED <<alive, fds, listVars, read_fds, todo, it, client_it, pipeVars>>

\* Files and pipes whose writer is gone are always readable.  A pipe with
\* lines may be (stdio may already have them all in its buffer), and so may a
\* descriptor that a closed log had and something else has now.
AlwaysReadable == {desc[l].fd : l \in In("file") \cup In("exited") \cup In("reaped")}
NeverReadable  == {desc[l].fd : l \in {m \in In("tail") : desc[m].lines = 0}}

SelectLogsReady ==
  /\ run_pc = "select"
  /\ \A f \in read_fds : fds[f] # "free"
  /\ \E ready \in SUBSET (read_fds \ NeverReadable) :
       /\ ready # {}
       /\ read_fds \cap AlwaysReadable \subseteq ready
       /\ read_fds' = ready
  /\ run_pc' = "relock"
  /\ NotRun
  /\ UNCHANGED <<alive, fds, listVars, except_fds, todo, it, client_it, pipeVars>>

SelectLogsWithoutTimeout == FALSE

\* Two seconds have passed.
SelectLogsTimeout ==
  /\ run_pc = "select"
  /\ read_fds \cap AlwaysReadable = {}
  /\ read_fds' = {}
  /\ run_pc' = "wait"
  /\ NotRun
  /\ UNCHANGED <<alive, fds, listVars, except_fds, todo, it, client_it, pipeVars>>

\* EINTR.
SelectLogsInterrupted ==
  /\ run_pc = "select"
  /\ read_fds' = {}
  /\ run_pc' = "wait"
  /\ NotRun
  /\ UNCHANGED <<alive, fds, listVars, except_fds, todo, it, client_it, pipeVars>>

RelockLogs ==
  /\ run_pc = "relock" /\ LogsFree
  /\ todo' = {l \in logs : desc[l].fd \in read_fds}
  /\ run_pc' = "pass"
  /\ NotRun
  /\ UNCHANGED <<alive, fds, listVars, read_fds, except_fds, it, client_it, pipeVars>>

\* clients.find is called without clients_mutex.  While another thread turns
\* nodes of the tree round, or frees the one the search stands on, it may miss
\* any client.  The first two nodes are put in without turning any.
MapChanging ==
  \/ cl_pc = "insert" /\ \E c, d \in clients : c # d
  \/ ml_pc = "erase"
Named(l) == {c \in clients : id[c] = desc[l].client}

ClientFound(l) ==
  /\ run_pc = "pass" /\ l \in todo
  /\ client_it' \in Named(l)
  /\ it' = l
  /\ todo' = todo \ {l}
  /\ run_pc' = "read"
  /\ NotRun
  /\ UNCHANGED <<alive, fds, listVars, read_fds, except_fds, pipeVars>>

ClientMissing(l) ==
  /\ run_pc = "pass" /\ l \in todo
  /\ Named(l) = {} \/ MapChanging
  /\ Drop(l) \/ UseClosedStream(l)
  /\ todo' = todo \ {l}
  /\ NotRun
  /\ UNCHANGED <<run_pc, read_fds, except_fds, it, client_it, pipeVars>>

EndLogsPass ==
  /\ run_pc = "pass" /\ todo = {}
  /\ read_fds' = {} /\ except_fds' = {}
  /\ run_pc' = "wait"
  /\ NotRun
  /\ UNCHANGED <<alive, fds, listVars, todo, it, client_it, pipeVars>>

\* What every step of GetNextLine leaves alone.
InGetNextLine(pc) ==
  /\ run_pc = pc
  /\ NotRun
  /\ UNCHANGED <<logs, read_fds, except_fds, todo, it, client_it>>

ReadLine ==
  /\ InGetNextLine("read")
  /\ desc[it].phase # "closed" /\ desc[it].lines > 0
  /\ desc' = [desc EXCEPT ![it].lines = @ - 1]
  /\ run_pc' = "send"
  /\ UNCHANGED <<alive, fds, pipeVars>>

\* The end of the file: it is closed.
CloseFile ==
  /\ InGetNextLine("read")
  /\ desc[it].phase = "file" /\ desc[it].lines = 0
  /\ CloseStream(it)
  /\ desc' = [desc EXCEPT ![it].phase = "closed"]
  /\ run_pc' = "pipe"
  /\ UNCHANGED <<alive, pipeVars>>

\* OpenTail.  The other threads open and accept meanwhile.
MakePipe ==
  /\ InGetNextLine("pipe")
  /\ \E f, g \in FreeFds :
       /\ Lowest(f, FreeFds) /\ Lowest(g, FreeFds \ {f})
       /\ fds' = [fds EXCEPT ![f] = "other", ![g] = "other"]
       /\ pipe0' = f /\ pipe1' = g
  /\ run_pc' = "fork"
  /\ UNCHANGED <<alive, desc>>

\* No two descriptors for the pipe.
PipeFails ==
  /\ InGetNextLine("pipe")
  /\ \A f, g \in FreeFds : f = g
  /\ run_pc' = "except"
  /\ UNCHANGED <<alive, fds, desc, pipeVars>>

ForgetPipe == pipe0' = -1 /\ pipe1' = -1

\* Both ends of the pipe stay open.
ForkFails ==
  /\ "fork" \in Faults
  /\ InGetNextLine("fork")
  /\ ForgetPipe
  /\ run_pc' = "except"
  /\ UNCHANGED <<alive, fds, desc>>

StartTailKeepsFd ==
  /\ InGetNextLine("fork")
  /\ fds' = [fds EXCEPT ![pipe1] = "free"]
  /\ desc' = [desc EXCEPT ![it].phase = "tail"]
  /\ ForgetPipe
  /\ run_pc' \in {"send", "except"}
  /\ UNCHANGED alive

StartTailKeepsPipe ==
  /\ InGetNextLine("fork")
  /\ desc' = [desc EXCEPT ![it].fd = pipe0, ![it].phase = "tail"]
  /\ ForgetPipe
  /\ run_pc' \in {"send", "except"}
  /\ UNCHANGED <<alive, fds>>

\* The child has the other end.  The line tail may already have written is
\* read at once.
StartTail ==
  /\ InGetNextLine("fork")
  /\ fds' = [fds EXCEPT ![pipe1] = "free"]
  /\ desc' = [desc EXCEPT ![it].fd = pipe0, ![it].phase = "tail"]
  /\ ForgetPipe
  /\ run_pc' \in {"send", "except"}
  /\ UNCHANGED alive

\* fdopen gives no stream, and Cleanup closes it.
TailFdopenFails ==
  /\ "fdopen" \in Faults
  /\ InGetNextLine("fork")
  /\ alive' = FALSE
  /\ UNCHANGED <<fds, desc, run_pc, pipeVars>>

\* Nothing to read from the pipe, whatever the reason: Cleanup, and the log
\* stays in the list.
ReadTailFails ==
  /\ InGetNextLine("read")
  /\ desc[it].phase \in {"tail", "exited", "reaped"} /\ desc[it].lines = 0
  /\ CloseStream(it)
  /\ desc' = [desc EXCEPT ![it].phase = "closed"]
  /\ run_pc' = "except"
  /\ UNCHANGED <<alive, pipeVars>>

ReadClosed ==
  /\ InGetNextLine("read")
  /\ UseClosedStream(it)
  /\ UNCHANGED <<run_pc, pipeVars>>

SendSelectsTooFew ==
  /\ run_pc = "send"
  /\ run_pc' = "hung"
  /\ NotRun
  /\ UNCHANGED <<alive, fds, listVars, read_fds, except_fds, todo, it, client_it, pipeVars>>

\* Send.  SendFrame waits with select until the socket can be written, and
\* waits for ever if the client has no socket any more.
StartSend ==
  /\ run_pc = "send"
  /\ run_pc' = IF socket[client_it] = -1 THEN "hung" ELSE "write"
  /\ NotRun
  /\ UNCHANGED <<alive, fds, listVars, read_fds, except_fds, todo, it, client_it, pipeVars>>

\* The SSL object is not protected against Disconnect in the other thread,
\* and writing to a peer that is gone may raise SIGPIPE.
MayDie == client_it \in left \/ (ml_pc = "disconnect" /\ cur = client_it)

\* SendFrame reads socket again before and after select: closed by then, it
\* waits for nothing, for ever.
HangInSend ==
  /\ run_pc = "write"
  /\ socket[client_it] = -1
  /\ run_pc' = "hung"
  /\ NotRun
  /\ UNCHANGED <<alive, fds, listVars, read_fds, except_fds, todo, it, client_it, pipeVars>>

\* The line is written; a socket closed by then was closed after the last look
\* at it.
FinishSend ==
  /\ run_pc = "write"
  /\ client_it \notin stalled \/ socket[client_it] = -1
  /\ alive' \in (IF MayDie THEN {TRUE, FALSE} ELSE {TRUE})
  /\ run_pc' = "except"
  /\ NotRun
  /\ UNCHANGED <<fds, listVars, read_fds, except_fds, todo, it, client_it, pipeVars>>

NoException ==
  /\ run_pc = "except"
  /\ desc[it].fd \notin except_fds
  /\ run_pc' = "pass" /\ it' = NoLog /\ client_it' = NoConn
  /\ NotRun
  /\ UNCHANGED <<alive, fds, listVars, read_fds, except_fds, todo, pipeVars>>

Exception ==
  /\ run_pc = "except"
  /\ desc[it].fd \in except_fds
  /\ Drop(it) \/ UseClosedStream(it)
  /\ run_pc' = "pass" /\ it' = NoLog /\ client_it' = NoConn
  /\ NotRun
  /\ UNCHANGED <<read_fds, except_fds, todo, pipeVars>>

SelectLogsReturns == SelectOnClosedFd \/ SelectLogsReady \/ SelectLogsTimeout

GetNextLine ==
  \/ ReadLine \/ ReadTailFails \/ ReadClosed
  \/ CloseFile \/ MakePipe \/ PipeFails \/ ForkFails \/ StartTail \/ TailFdopenFails

Visit == \/ \E l \in Log : ClientFound(l) \/ ClientMissing(l)
         \/ EndLogsPass
         \/ GetNextLine \/ StartSend \/ NoException \/ Exception

Run ==
  \/ SleepOnEmptyList \/ FillReadFds
  \/ SelectLogsReturns
  \/ RelockLogs \/ Visit \/ HangInSend \/ FinishSend

-----------------------------------------------------------------------------
(* The specification *)

Next ==
  alive /\ \/ ServerStep /\ UNCHANGED <<listVars, hookVars, runVars>>
           \/ Handlers
           \/ Run \/ RunSpuriousWakeup \/ SelectLogsInterrupted
           \/ \E l \in Log : LineAppended(l) \/ TailExits(l)

Spec == Init /\ [][Next]_vars

Inherited(A) == alive /\ A /\ UNCHANGED <<listVars, hookVars, runVars>>

\* As for the base class, and for logs_mutex what is assumed of clients_mutex:
\* the mutexes are not fair, but each is released again and again.
Fairness ==
  /\ WF_vars(Inherited(\E c \in Conn : Accept(c)))
  /\ SF_vars(Inherited(LockToInsert))
  /\ WF_vars(Inherited(Insert))
  /\ WF_vars(Inherited(ReadMessages))
  /\ SF_vars(Inherited(ReceiveHandshake \/ Disconnect))
  /\ SF_vars(alive /\ Handlers)
  /\ \A c \in Conn : WF_vars(Inherited(PeerResumes(c)))
  /\ WF_vars(alive /\ Visit)
  /\ SF_vars(alive /\ (SleepOnEmptyList \/ FillReadFds))
  /\ SF_vars(alive /\ SelectLogsReturns)
  /\ SF_vars(alive /\ RelockLogs)
  /\ SF_vars(alive /\ FinishSend)

FairSpec == Spec /\ Fairness

-----------------------------------------------------------------------------
(* Properties *)

\* Every variable has the type its declaration gives it, and a node has a
\* description exactly while it is in the list.
TypeOK ==
  /\ WSTypeOK
  /\ logs \subseteq Log
  /\ desc \in [Log -> Desc \cup {Blank}]
  /\ \A l \in logs : desc[l] \in Desc
  /\ \A l \in Log \ logs : desc[l] = Blank
  /\ hook \in {"idle", "push", "purge"}
  /\ pend \in Fd \cup {-1}
  /\ run_pc \in {"wait", "asleep", "woken", "select", "relock"} \cup Busy
  /\ read_fds \subseteq Fd /\ except_fds \subseteq Fd
  /\ todo \subseteq Log
  /\ it \in Log \cup {NoLog}
  /\ client_it \in Conn \cup {NoConn}
  /\ pipe0 \in Fd \cup {-1} /\ pipe1 \in Fd \cup {-1}

\* A log never outlives the client that asked for it: it goes before the
\* client leaves the map, although ids are given out again and the two lists
\* have their own mutexes.  This is what the comment in Run expects ("we
\* delete all requests from client when he disconnects").
LogsHaveClients ==
  \A l \in logs :
    /\ desc[l].owner \in clients
    /\ desc[l].client = id[desc[l].owner]
    /\ ~(ml_pc = "erase" /\ desc[l].owner = cur)

\* While Run reads a log and sends its line it uses an iterator into the map
\* of clients without clients_mutex.  The client it points to is still in the
\* map, and is the one that asked for the log.
DeliversToOwner ==
  run_pc \in AtLog \ {"except"} =>
    /\ it \in logs
    /\ client_it = desc[it].owner
    /\ client_it \in clients

\* Run is not left waiting on logs_not_empty_cond while there are logs.
NoLostLogsWakeup == run_pc = "asleep" => logs = {}

\* Two logs never read from the same descriptor, and it is never one of a
\* client's: descriptors are closed by two threads and reused at once.
LogsOwnDescriptors ==
  LET open == {l \in logs : desc[l].phase # "closed"}
  IN  /\ \A l \in open : fds[desc[l].fd] = "other" /\ desc[l].fd # pend
      /\ \A l, m \in open : desc[l].fd = desc[m].fd => l = m

\* A client's messages and its leaving touch no log of another client, and
\* only Run, inside its pass, ends the log of a client on its own account.
OnlyOwnLogsEnd ==
  [][\A l \in logs \ logs' :
       desc[l].owner = cur \/ run_pc \in {"pass", "except"}]_vars

\* Run hangs in a send only to a client whose socket the reader has closed
\* just before and whose logs it has not purged yet; the reader is about to
\* wait for logs_mutex, which Run holds.
HangsOnLeaver ==
  run_pc = "hung" => /\ ml_pc = "ondisconnect" /\ hook = "idle"
                     /\ client_it = cur /\ it \in logs

\* Then nothing goes on: no thread takes another step in the list or the map,
\* no client is inserted or erased, no message handled, no log added or read.
HangIsForGood ==
  [][run_pc = "hung" =>
       UNCHANGED <<alive, mapVars, mlVars, logs, hookVars, runVars>>]_vars

\* Run and the reader fill the client's send_buf and use its SSL object without
\* a lock.  A client has logs only after its handshake, so a line can never be
\* mixed with the answer to it; what is left is the closing frame (MayDie).
LinesAfterHandshake == \A l \in logs : handshaked[desc[l].owner]

\* "Maybe it's worth deleting this check as we delete all requests from client
\* when he disconnects": the pass finds a client missing only when it searches
\* the map while another thread is changing it, never because one has left.
MissingOnlyInRace ==
  [][\A l \in logs \ logs' : run_pc = "pass" => MapChanging]_vars

\* Descriptors the server opened and keeps nowhere any more.
Unowned ==
  {f \in Fd : fds[f] = "other"}
    \ ({desc[l].fd : l \in {m \in logs : desc[m].phase # "closed"}}
         \cup {pend, pipe0, pipe1})

\* A fork that fails loses both ends of the pipe, and a file that is opened but
\* gets no stream its descriptor.  No other step loses one, however a log ends,
\* and none that was lost comes back.
LeaksAreFailures ==
  [][Unowned' # Unowned =>
       \/ /\ run_pc = "fork" /\ desc'[it].phase = "closed"
          /\ Unowned' = Unowned \cup {pipe0, pipe1}
       \/ /\ InOnMessage("add") /\ ml_pc' # "onmessage" /\ logs' = logs
          /\ \E f \in Fd \ Unowned : Unowned' = Unowned \cup {f}]_vars

\* A log as the client sees it.
Subscription(l) == [log |-> l, client |-> desc[l].owner, file |-> desc[l].file]

Promise == INSTANCE Subscriptions WITH
  Client  <- Conn,
  members <- clients,
  subs    <- {Subscription(l) : l \in logs},
  sending <- IF run_pc \in {"send", "write", "hung"}
             THEN {[sub |-> Subscription(it), to |-> client_it]} ELSE {}

\* Two lists under two mutexes, three threads, ids that are reused: to the
\* clients it is as if each subscription were kept and served by itself.
KeepsSubscriptions == Promise!Spec

\* "This has a 2 seconds timeout so when new log is added to the list we will
\* read it as well": a log that was added is read, or goes with its client.
NewLogIsRead ==
  \A l \in Log :
    l \in In("file") /\ it # l ~>
      (it = l /\ run_pc = "read") \/ l \notin logs \/ ~alive

\* A message to the server is handled: the reader comes back from OnMessage,
\* though Run holds logs_mutex while it sends.
MessageIsHandled == ml_pc = "onmessage" ~> ml_pc # "onmessage" \/ ~alive

\* Select waits "until one or more logs have new lines or error happens", and
\* an exception ends the log: only one whose tail is gone.
ExceptionMeansError ==
  [][\A l \in logs \ logs' :
       run_pc = "except" => desc[l].phase \in {"exited", "reaped", "closed"}]_vars

\* Cleanup leaves alone what "is not a child process" of its log: while no
\* tail exits by itself, a log in the list loses its tail only when it is
\* closed itself.
TailsEndWithTheirLog ==
  [][\A l \in logs \cap logs' :
       desc[l].phase = "tail" => desc'[l].phase \in {"tail", "closed"}]_vars

=============================================================================

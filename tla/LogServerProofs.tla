--------------------------- MODULE LogServerProofs ---------------------------
(***************************************************************************)
(* Proofs about LogServer, for any number of clients, logs, descriptors,   *)
(* files and lines, and whatever fails.                                    *)
(***************************************************************************)
EXTENDS LogServer, WebSocketServerProofs

\* The types of what LogServer adds to its base class.
ListTypeOK ==
  /\ logs \subseteq Log
  /\ desc \in [Log -> Desc \cup {Blank}]
  /\ \A l \in logs : desc[l] \in Desc
  /\ \A l \in Log \ logs : desc[l] = Blank
  /\ hook \in {"idle", "push", "purge"}
  /\ pend \in Fd \cup {-1}
  /\ run_pc \in {"wait", "asleep", "woken", "select", "relock"} \cup Busy
  /\ read_fds \subseteq Fd /\ except_fds \subseteq Fd
  /\ todo \subseteq Log
  /\ it \in Log \cup {NoLog}
  /\ client_it \in Conn \cup {NoConn}
  /\ pipe0 \in Fd \cup {-1} /\ pipe1 \in Fd \cup {-1}

\* Where the reader is in the handlers, and that a purge and a pass of Run
\* exclude each other.
HookOK ==
  /\ hook = "push" <=> pend # -1
  /\ hook = "push" => ml_pc = "onmessage" /\ fds[pend] = "other"
  /\ hook = "purge" => ml_pc = "ondisconnect" /\ run_pc \notin Busy

\* Where Run is in the list, and on the way from a file to its tail.
RunOK ==
  /\ it # NoLog <=> run_pc \in AtLog
  /\ it # NoLog => it \in logs \ todo /\ client_it \in Conn
  /\ todo \subseteq logs
  /\ todo # {} => run_pc \in Busy
  /\ run_pc \in {"pipe", "fork"} => desc[it].phase = "closed"
  /\ pipe0 # -1 <=> run_pc = "fork"
  /\ pipe1 # -1 <=> run_pc = "fork"

\* A log whose stream is open has a descriptor of its own, and so has each end
\* of a pipe that is not a log's yet.
OpenLogs == {l \in logs : desc[l].phase # "closed"}
FdsOK ==
  /\ \A l \in OpenLogs : /\ fds[desc[l].fd] = "other"
                          /\ desc[l].fd \notin {pend, pipe0, pipe1}
  /\ \A l, m \in OpenLogs : desc[l].fd = desc[m].fd => l = m
  /\ pipe0 # -1 => fds[pipe0] = "other" /\ pipe0 \notin {pend, pipe1}
  /\ pipe1 # -1 => fds[pipe1] = "other" /\ pipe1 # pend

LInv == /\ WSInv /\ ListTypeOK /\ HookOK /\ RunOK /\ FdsOK
        /\ LogsHaveClients /\ DeliversToOwner /\ NoLostLogsWakeup

-----------------------------------------------------------------------------
(* Lemmas about descriptions *)

\* Logs that differ only in the phase.
SameButPhase(d, e) ==
  /\ d.file = e.file /\ d.client = e.client /\ d.owner = e.owner
  /\ d.fd = e.fd /\ d.lines = e.lines

\* The number of lines that wait can go up to its bound and down to zero.
LEMMA LinesUpDown ==
  ASSUME NEW n \in 0 .. MaxLines
  PROVE  /\ n < MaxLines => n + 1 \in 0 .. MaxLines
         /\ n > 0 => n - 1 \in 0 .. MaxLines
<1>1. MaxLines \in Nat
  BY LinesAssumption
<1>2. n \in Nat /\ n <= MaxLines
  BY <1>1
<1> QED
  BY <1>1, <1>2

\* Changing the phase of a description leaves the rest of it.
LEMMA PhaseChange ==
  ASSUME NEW d \in Desc, NEW p \in Phase
  PROVE  /\ [d EXCEPT !.phase = p] \in Desc
         /\ [d EXCEPT !.phase = p].phase = p
         /\ SameButPhase([d EXCEPT !.phase = p], d)
BY DEF Desc, SameButPhase

\* So does changing the number of lines that wait.
LEMMA LinesChange ==
  ASSUME NEW d \in Desc, NEW n \in 0 .. MaxLines
  PROVE  /\ [d EXCEPT !.lines = n] \in Desc
         /\ [d EXCEPT !.lines = n].phase = d.phase /\ [d EXCEPT !.lines = n].fd = d.fd
         /\ [d EXCEPT !.lines = n].owner = d.owner
         /\ [d EXCEPT !.lines = n].client = d.client
         /\ [d EXCEPT !.lines = n].file = d.file
BY DEF Desc

\* What Cleanup does to the children changes phases only, of tails, and closes
\* no stream.
LEMMA CleanupEffect ==
  ASSUME ListTypeOK, NEW l \in logs, NEW d \in AfterCleanup(l)
  PROVE  /\ d \in [Log -> Desc \cup {Blank}]
         /\ \A m \in logs : /\ d[m] \in Desc
                            /\ SameButPhase(d[m], desc[m])
                            /\ d[m].phase = "closed" <=> desc[m].phase = "closed"
         /\ \A m \in Log \ logs : d[m] = Blank
<1> USE DEF ListTypeOK
<1>1. CASE d = desc
  BY <1>1 DEF SameButPhase
<1>2. CASE \E m \in In("exited") : d = Mark({m}, "reaped")
  <2>1. PICK m \in logs : desc[m].phase = "exited" /\ d = Mark({m}, "reaped")
    BY <1>2 DEF In
  <2>2. d = [n \in Log |-> IF n \in {m} THEN [desc[n] EXCEPT !.phase = "reaped"] ELSE desc[n]]
    BY <2>1 DEF Mark
  <2>3. "reaped" \in Phase
    BY DEF Phase
  <2>4. d[m] = [desc[m] EXCEPT !.phase = "reaped"] /\ \A n \in Log \ {m} : d[n] = desc[n]
    BY <2>2
  <2>5. /\ d[m] \in Desc /\ d[m].phase = "reaped" /\ SameButPhase(d[m], desc[m])
    BY <2>3, <2>4, PhaseChange
  <2>6. \A n \in Log : n # m => d[n] = desc[n] /\ SameButPhase(d[n], desc[n])
    BY <2>4 DEF SameButPhase
  <2>7. d \in [Log -> Desc \cup {Blank}]
    BY <2>2, <2>4, <2>5
  <2> QED
    BY <2>1, <2>4, <2>5, <2>6, <2>7
<1>3. CASE \E m \in In("tail") :
             d = [Mark(In("tail"), "exited") EXCEPT ![m].phase = "reaped"]
  <2>1. PICK m \in In("tail") : d = [Mark(In("tail"), "exited") EXCEPT ![m].phase = "reaped"]
    BY <1>3
  <2> DEFINE e == Mark(In("tail"), "exited")
  <2>2. e = [n \in Log |-> IF n \in In("tail") THEN [desc[n] EXCEPT !.phase = "exited"]
                                               ELSE desc[n]]
    BY DEF Mark
  <2>3. "reaped" \in Phase /\ "exited" \in Phase
    BY DEF Phase
  <2>4. \A n \in In("tail") : /\ n \in logs /\ desc[n].phase = "tail"
                              /\ e[n] \in Desc /\ e[n].phase = "exited"
                              /\ SameButPhase(e[n], desc[n])
    <3> TAKE n \in In("tail")
    <3>1. n \in logs /\ desc[n].phase = "tail" /\ n \in Log /\ desc[n] \in Desc
      BY DEF In
    <3>2. e[n] = [desc[n] EXCEPT !.phase = "exited"]
      BY <2>2, <3>1
    <3>3. /\ [desc[n] EXCEPT !.phase = "exited"] \in Desc
          /\ [desc[n] EXCEPT !.phase = "exited"].phase = "exited"
          /\ SameButPhase([desc[n] EXCEPT !.phase = "exited"], desc[n])
      BY <2>3, <3>1, PhaseChange
    <3> QED
      BY <3>1, <3>2, <3>3
  <2>5. \A n \in Log : n \notin In("tail") => e[n] = desc[n]
    BY <2>2
  <2>6. d = [e EXCEPT ![m] = [e[m] EXCEPT !.phase = "reaped"]]
    BY <2>1
  <2>7. d[m] = [e[m] EXCEPT !.phase = "reaped"] /\ \A n \in Log \ {m} : d[n] = e[n]
    BY <2>2, <2>4, <2>6
  <2>8. d[m] \in Desc /\ d[m].phase = "reaped" /\ SameButPhase(d[m], desc[m])
    BY <2>3, <2>4, <2>7, PhaseChange DEF SameButPhase
  <2>9. d \in [Log -> Desc \cup {Blank}]
    BY <2>2, <2>4, <2>5, <2>6, <2>7, <2>8
  <2>10. ASSUME NEW n \in logs
         PROVE  /\ d[n] \in Desc /\ SameButPhase(d[n], desc[n])
                /\ d[n].phase = "closed" <=> desc[n].phase = "closed"
    <3>1. CASE n = m
      BY <2>1, <2>4, <2>8, <3>1
    <3>2. CASE n # m /\ n \in In("tail")
      BY <2>4, <2>7, <3>2
    <3>3. CASE n # m /\ n \notin In("tail")
      <4>1. d[n] = desc[n]
        BY <2>5, <2>7, <3>3
      <4> QED
        BY <4>1 DEF SameButPhase
    <3> QED
      BY <3>1, <3>2, <3>3
  <2>11. \A n \in Log \ logs : d[n] = Blank
    BY <2>4, <2>5, <2>7
  <2> QED
    BY <2>9, <2>10, <2>11
<1> QED
  BY <1>1, <1>2, <1>3 DEF AfterCleanup

\* A log that is dropped leaves the list and closes its descriptor; the others
\* keep everything but, maybe, the phase.
LEMMA DropEffect ==
  ASSUME ListTypeOK, NEW l \in logs, Drop(l)
  PROVE  /\ desc[l].phase # "closed"
         /\ logs' = logs \ {l}
         /\ fds' = [fds EXCEPT ![desc[l].fd] = "free"]
         /\ alive' = alive
         /\ desc' \in [Log -> Desc \cup {Blank}]
         /\ \A m \in logs' : /\ desc'[m] \in Desc
                             /\ SameButPhase(desc'[m], desc[m])
                             /\ desc'[m].phase = "closed" <=> desc[m].phase = "closed"
         /\ \A m \in Log \ logs' : desc'[m] = Blank
<1>1. PICK d \in AfterCleanup(l) : desc' = [d EXCEPT ![l] = Blank]
  BY DEF Drop
<1>2. /\ d \in [Log -> Desc \cup {Blank}]
      /\ \A m \in logs : /\ d[m] \in Desc
                         /\ SameButPhase(d[m], desc[m])
                         /\ d[m].phase = "closed" <=> desc[m].phase = "closed"
      /\ \A m \in Log \ logs : d[m] = Blank
  BY CleanupEffect
<1>3. l \in Log /\ logs' = logs \ {l} /\ logs \subseteq Log
  BY DEF Drop, ListTypeOK
<1>4. desc'[l] = Blank /\ \A m \in Log \ {l} : desc'[m] = d[m]
  BY <1>1, <1>2, <1>3
<1> QED
  BY <1>1, <1>2, <1>3, <1>4 DEF Drop, CloseStream

\* A request in OnMessage is a request.
LEMMA TextIsRequest ==
  ASSUME WSInv, ml_pc = "onmessage"
  PROVE  /\ text.file \in File
         /\ cur \in Conn /\ cur \in clients /\ id[cur] \in Nat
<1>1. text \in [op : {"add", "del", "junk"}, file : File]
  BY RequestAssumption DEF WSInv, ThreadsOK
<1>2. cur \in clients
  BY DEF WSInv, ThreadsOK, AtClient
<1> QED
  BY <1>1, <1>2 DEF WSInv, WSTypeOK, IdsOK

-----------------------------------------------------------------------------
(* Types *)

\* The handlers keep the types.
LEMMA ListTypeHandlers ==
  ASSUME WSInv, ListTypeOK, HookOK, Handlers
  PROVE  ListTypeOK'
<1> USE DEF ListTypeOK, AtLog, Busy, runVars, pipeVars, hookVars, listVars
<1>1. CASE IgnoreMessage \/ OpenLogFails \/ OpenLogLeaks
  BY <1>1 DEF IgnoreMessage, OpenLogFails, OpenLogLeaks
<1>2. CASE OpenLog
  BY <1>2 DEF OpenLog, FreeFds, Lowest
<1>3. ASSUME NEW l \in Log, NEW n \in 0 .. MaxLines, PushLog(l, n) PROVE ListTypeOK'
  <2> DEFINE new == [file |-> text.file, client |-> id[cur], owner |-> cur,
                     fd |-> pend, phase |-> "file", lines |-> n]
  <2>1. ml_pc = "onmessage" /\ pend \in Fd
    BY <1>3 DEF PushLog, HookOK
  <2>2. new \in Desc
    BY <2>1, TextIsRequest DEF Desc, Phase
  <2>3. logs' = logs \cup {l} /\ desc' = [desc EXCEPT ![l] = new]
    BY <1>3 DEF PushLog
  <2>4. /\ desc' \in [Log -> Desc \cup {Blank}]
        /\ \A m \in logs' : desc'[m] \in Desc
        /\ \A m \in Log \ logs' : desc'[m] = Blank
    BY <2>2, <2>3
  <2>5. run_pc' \in {run_pc, "woken"} /\ hook' = "idle" /\ pend' = -1
        /\ UNCHANGED <<read_fds, except_fds, todo, it, client_it, pipe0, pipe1>>
    BY <1>3 DEF PushLog, RunSignalled
  <2> QED
    BY <2>3, <2>4, <2>5
<1>4. CASE StopReadingLog
  <2>1. UNCHANGED <<hookVars, runVars>>
    BY <1>4 DEF StopReadingLog
  <2>2. CASE \E l \in logs : Drop(l)
    BY <2>1, <2>2, DropEffect
  <2>3. CASE UNCHANGED listVars
    BY <2>1, <2>3
  <2> QED
    BY <1>4, <2>2, <2>3 DEF StopReadingLog, Requested, UseClosedStream
<1>5. CASE LockToPurge \/ EndPurge
  BY <1>5 DEF LockToPurge, EndPurge
<1>6. ASSUME NEW l \in Log, PurgeLog(l) PROVE ListTypeOK'
  <2>1. UNCHANGED <<hookVars, runVars>> /\ l \in logs
    BY <1>6 DEF PurgeLog, OfClient
  <2>2. CASE Drop(l)
    BY <2>1, <2>2, DropEffect
  <2>3. CASE UseClosedStream(l)
    BY <2>1, <2>3 DEF UseClosedStream
  <2> QED
    BY <1>6, <2>2, <2>3 DEF PurgeLog
<1> QED
  BY <1>1, <1>2, <1>3, <1>4, <1>5, <1>6 DEF Handlers

\* GetNextLine changes the description of the log it reads, not whose it is.
LEMMA ReadEffect ==
  ASSUME ListTypeOK, RunOK, GetNextLine
  PROVE  /\ it \in logs /\ logs' = logs
         /\ desc' \in [Log -> Desc \cup {Blank}]
         /\ desc'[it] \in Desc
         /\ desc'[it].owner = desc[it].owner /\ desc'[it].client = desc[it].client
         /\ desc'[it].file = desc[it].file
         /\ \A m \in Log \ {it} : desc'[m] = desc[m]
         /\ run_pc \in {"read", "pipe", "fork"}
         /\ run_pc' \in AtLog \ {"write", "hung"}
<1> USE DEF ListTypeOK, listVars, AtLog
<1>1. /\ run_pc \in {"read", "pipe", "fork"} /\ logs' = logs
      /\ it \in logs /\ it \in Log /\ desc[it] \in Desc
  BY DEF GetNextLine, ReadLine, CloseFile, MakePipe, PipeFails,
     ForkFails, StartTail, TailFdopenFails, ReadTailFails, ReadClosed, InGetNextLine, RunOK, AtLog
<1>2. CASE ReadLine
  <2> DEFINE e == [desc[it] EXCEPT !.lines = desc[it].lines - 1]
  <2>1. /\ desc' = [desc EXCEPT ![it] = e] /\ run_pc' = "send"
        /\ desc[it].lines > 0
    BY <1>2 DEF ReadLine
  <2>2. desc[it].lines - 1 \in 0 .. MaxLines
    <3>1. desc[it].lines \in 0 .. MaxLines
      BY <1>1 DEF Desc
    <3> QED
      BY <2>1, <3>1, LinesUpDown
  <2>3. /\ e \in Desc /\ e.owner = desc[it].owner /\ e.client = desc[it].client
        /\ e.file = desc[it].file
    BY <1>1, <2>2, LinesChange
  <2> HIDE DEF e
  <2>4. desc'[it] = e /\ desc' \in [Log -> Desc \cup {Blank}]
        /\ \A m \in Log \ {it} : desc'[m] = desc[m]
    BY <1>1, <2>1, <2>3
  <2> QED
    BY <1>1, <2>1, <2>3, <2>4
<1>3. CASE StartTail
  <2>1. /\ pipe0 \in Fd
        /\ desc' = [desc EXCEPT ![it] = [desc[it] EXCEPT !.fd = pipe0, !.phase = "tail"]]
    BY <1>1, <1>3 DEF StartTail, InGetNextLine, RunOK
  <2>2. [desc[it] EXCEPT !.fd = pipe0, !.phase = "tail"] \in Desc
    BY <1>1, <2>1 DEF Desc, Phase
  <2> QED
    BY <1>1, <1>3, <2>1, <2>2 DEF Desc, StartTail
<1>4. CASE CloseFile \/ ReadTailFails
  <2>1. /\ desc' = [desc EXCEPT ![it] = [desc[it] EXCEPT !.phase = "closed"]]
        /\ run_pc' \in {"pipe", "except"}
    BY <1>4 DEF CloseFile, ReadTailFails
  <2>2. [desc[it] EXCEPT !.phase = "closed"] \in Desc
    BY <1>1 DEF Desc, Phase
  <2> QED
    BY <1>1, <2>1, <2>2 DEF Desc
<1>5. CASE ReadClosed \/ MakePipe \/ PipeFails \/ ForkFails \/ TailFdopenFails
  BY <1>1, <1>5 DEF ReadClosed, UseClosedStream, MakePipe, PipeFails, ForkFails, TailFdopenFails
<1> QED
  BY <1>2, <1>3, <1>4, <1>5 DEF GetNextLine

\* Run keeps the types.
LEMMA ListTypeRun ==
  ASSUME WSTypeOK, ListTypeOK, RunOK, Run \/ RunSpuriousWakeup \/ SelectLogsInterrupted
  PROVE  ListTypeOK'
<1> USE DEF ListTypeOK, AtLog, Busy, runVars, pipeVars, hookVars, listVars, NotRun
<1>1. CASE SleepOnEmptyList \/ RunSpuriousWakeup \/ SelectLogsInterrupted
  BY <1>1 DEF SleepOnEmptyList, RunSpuriousWakeup, SelectLogsInterrupted
<1>2. CASE FillReadFds
  <2>1. {desc[l].fd : l \in logs} \subseteq Fd
    BY DEF Desc
  <2> QED
    BY <1>2, <2>1 DEF FillReadFds
<1>3. CASE SelectLogsReturns
  BY <1>3 DEF SelectLogsReturns, SelectOnClosedFd, SelectLogsReady, SelectLogsTimeout
<1>4. CASE RelockLogs
  BY <1>4 DEF RelockLogs
<1>5. ASSUME NEW l \in Log, ClientFound(l) PROVE ListTypeOK'
  BY <1>5 DEF ClientFound, Named, WSTypeOK
<1>6. ASSUME NEW l \in Log, ClientMissing(l) PROVE ListTypeOK'
  <2>1. l \in logs /\ todo' \subseteq Log
        /\ UNCHANGED <<hookVars, run_pc, read_fds, except_fds, it, client_it, pipeVars>>
    BY <1>6 DEF ClientMissing, RunOK
  <2>2. CASE Drop(l)
    BY <2>1, <2>2, DropEffect
  <2>3. CASE UseClosedStream(l)
    BY <2>1, <2>3 DEF UseClosedStream
  <2> QED
    BY <1>6, <2>2, <2>3 DEF ClientMissing
<1>7. CASE EndLogsPass
  BY <1>7 DEF EndLogsPass
<1>8. CASE GetNextLine
  <2>1. /\ UNCHANGED <<hookVars, read_fds, except_fds, todo, it, client_it>>
        /\ pipe0' \in Fd \cup {-1} /\ pipe1' \in Fd \cup {-1}
    BY <1>8 DEF ForgetPipe, FreeFds, GetNextLine, ReadLine, CloseFile, MakePipe, PipeFails,
     ForkFails, StartTail, TailFdopenFails, ReadTailFails, ReadClosed, InGetNextLine
  <2> QED
    BY <1>8, <2>1, ReadEffect
<1>9. CASE StartSend \/ HangInSend \/ FinishSend \/ NoException
  BY <1>9 DEF StartSend, HangInSend, FinishSend, NoException
<1>10. CASE Exception
  <2>1. it \in logs /\ UNCHANGED <<hookVars, read_fds, except_fds, todo, pipeVars>>
        /\ run_pc' = "pass" /\ it' = NoLog /\ client_it' = NoConn
    BY <1>10 DEF Exception, RunOK
  <2>2. CASE Drop(it)
    BY <2>1, <2>2, DropEffect
  <2>3. CASE UseClosedStream(it)
    BY <2>1, <2>3 DEF UseClosedStream
  <2> QED
    BY <1>10, <2>2, <2>3 DEF Exception
<1> QED
  BY <1>1, <1>2, <1>3, <1>4, <1>5, <1>6, <1>7, <1>8, <1>9, <1>10 DEF Run, Visit

\* A line more, and a tail less, change the description of one log.
LEMMA OutsideEffect ==
  ASSUME ListTypeOK, NEW l \in Log, LineAppended(l) \/ TailExits(l)
  PROVE  /\ l \in logs /\ logs' = logs
         /\ desc' \in [Log -> Desc \cup {Blank}]
         /\ desc'[l] \in Desc
         /\ desc'[l].owner = desc[l].owner /\ desc'[l].client = desc[l].client
         /\ desc'[l].fd = desc[l].fd /\ desc'[l].file = desc[l].file
         /\ desc'[l].phase = "closed" <=> desc[l].phase = "closed"
         /\ \A m \in Log \ {l} : desc'[m] = desc[m]
<1> USE DEF ListTypeOK
<1>1. l \in logs /\ logs' = logs /\ desc[l] \in Desc
  BY DEF LineAppended, TailExits, In
<1>2. CASE LineAppended(l)
  <2>1. desc' = [desc EXCEPT ![l] = [desc[l] EXCEPT !.lines = desc[l].lines + 1]]
        /\ desc[l].lines < MaxLines
    BY <1>2 DEF LineAppended
  <2>2. desc[l].lines + 1 \in 0 .. MaxLines
    <3>1. desc[l].lines \in 0 .. MaxLines
      BY <1>1 DEF Desc
    <3> QED
      BY <2>1, <3>1, LinesUpDown
  <2> DEFINE e == [desc[l] EXCEPT !.lines = desc[l].lines + 1]
  <2>3. /\ e \in Desc /\ e.phase = desc[l].phase /\ e.fd = desc[l].fd
        /\ e.owner = desc[l].owner /\ e.client = desc[l].client /\ e.file = desc[l].file
    BY <1>1, <2>2, LinesChange
  <2>4. desc' = [desc EXCEPT ![l] = e]
    BY <2>1
  <2> HIDE DEF e
  <2>5. desc'[l] = e
    BY <2>4
  <2>6. desc' \in [Log -> Desc \cup {Blank}] /\ \A m \in Log \ {l} : desc'[m] = desc[m]
    BY <2>3, <2>4
  <2> QED
    BY <1>1, <2>3, <2>5, <2>6
<1>3. CASE TailExits(l)
  <2>1. desc' = [desc EXCEPT ![l] = [desc[l] EXCEPT !.phase = "exited"]]
        /\ desc[l].phase = "tail"
    BY <1>3 DEF TailExits, In
  <2> QED
    BY <1>1, <2>1 DEF Desc, Phase
<1> QED
  BY <1>2, <1>3
-----------------------------------------------------------------------------
(* Descriptors *)

\* Dropping a log gives back its own descriptor and no other.
LEMMA DropFds ==
  ASSUME WSTypeOK, ListTypeOK, HookOK, FdsOK, NEW l \in logs, Drop(l),
         UNCHANGED <<hookVars, pipeVars>>
  PROVE  /\ FdsOK' /\ OwnDescriptors
         /\ pend # -1 => fds'[pend] = fds[pend]
<1> USE DEF hookVars, pipeVars
<1>1. /\ desc[l].phase # "closed" /\ logs' = logs \ {l}
      /\ fds' = [fds EXCEPT ![desc[l].fd] = "free"]
      /\ \A m \in logs' : /\ desc'[m].fd = desc[m].fd
                          /\ desc'[m].phase = "closed" <=> desc[m].phase = "closed"
  BY DropEffect DEF SameButPhase
<1>2. l \in OpenLogs /\ desc[l].fd \in Fd /\ fds[desc[l].fd] = "other"
      /\ desc[l].fd \notin {pend, pipe0, pipe1}
  BY <1>1 DEF OpenLogs, FdsOK, ListTypeOK, Desc
<1>3. \A m \in OpenLogs' : /\ m \in OpenLogs /\ m # l /\ desc'[m].fd = desc[m].fd
                           /\ desc[m].fd \in Fd
  BY <1>1 DEF OpenLogs, ListTypeOK, Desc
<1>4. \A m \in OpenLogs' : fds'[desc'[m].fd] = "other" /\ desc'[m].fd \notin {pend, pipe0, pipe1}
  <2> TAKE m \in OpenLogs'
  <2>1. /\ desc[m].fd # desc[l].fd /\ fds[desc[m].fd] = "other"
        /\ desc[m].fd \notin {pend, pipe0, pipe1}
    BY <1>2, <1>3 DEF FdsOK
  <2> QED
    BY <1>1, <1>3, <2>1 DEF WSTypeOK
<1>5. \A m, n \in OpenLogs' : desc'[m].fd = desc'[n].fd => m = n
  BY <1>3 DEF FdsOK
<1>6. OwnDescriptors
  BY <1>1, <1>2 DEF OwnDescriptors, WSTypeOK
<1>7. /\ pend # -1 => fds'[pend] = fds[pend]
      /\ pipe0 # -1 => fds'[pipe0] = fds[pipe0]
      /\ pipe1 # -1 => fds'[pipe1] = fds[pipe1]
  BY <1>1, <1>2 DEF ListTypeOK, WSTypeOK
<1> QED
  BY <1>4, <1>5, <1>6, <1>7 DEF FdsOK

\* So does reading: a log's file gives back its descriptor, the pipe takes two
\* that were free, and the log keeps one of them.
LEMMA ReadFds ==
  ASSUME WSTypeOK, ListTypeOK, HookOK, RunOK, FdsOK, GetNextLine
  PROVE  /\ FdsOK' /\ OwnDescriptors
         /\ pend # -1 => fds'[pend] = fds[pend]
<1>0. -1 \notin Fd
  BY FdAssumption
<1>1. /\ it \in logs /\ logs' = logs /\ UNCHANGED pend
      /\ \A m \in Log \ {it} : desc'[m] = desc[m]
      /\ it \in Log /\ desc[it] \in Desc /\ desc[it].fd \in Fd
  BY ReadEffect DEF ListTypeOK, Desc, GetNextLine, ReadLine, CloseFile, MakePipe, PipeFails,
     ForkFails, StartTail, TailFdopenFails, ReadTailFails, ReadClosed, InGetNextLine, NotRun,
     hookVars
<1>2. \A m \in OpenLogs : /\ m \in Log /\ desc[m].fd \in Fd /\ fds[desc[m].fd] = "other"
                          /\ desc[m].fd \notin {pend, pipe0, pipe1}
  BY DEF OpenLogs, FdsOK, ListTypeOK, Desc
<1>3. /\ pend # -1 => pend \in Fd /\ fds[pend] = "other"
      /\ pipe0 # -1 => pipe0 \in Fd
      /\ pipe1 # -1 => pipe1 \in Fd
  BY DEF HookOK, ListTypeOK
<1>4. CASE ReadLine \/ ReadClosed \/ PipeFails \/ ForkFails \/ TailFdopenFails
  <2>1. UNCHANGED fds /\ (UNCHANGED pipeVars \/ ForgetPipe)
    BY <1>4 DEF ReadLine, ReadClosed, PipeFails, ForkFails, TailFdopenFails, UseClosedStream
  <2>2. desc'[it].phase = desc[it].phase /\ desc'[it].fd = desc[it].fd
    <3>1. CASE ReadLine
      <4>1. desc' = [desc EXCEPT ![it].lines = @ - 1]
        BY <3>1 DEF ReadLine
      <4> QED
        BY <1>1, <4>1 DEF ListTypeOK, Desc
    <3>2. CASE ~ReadLine
      BY <1>4, <3>2 DEF ReadClosed, PipeFails, ForkFails, TailFdopenFails, UseClosedStream, listVars
    <3> QED
      BY <3>1, <3>2
  <2>3. OpenLogs' = OpenLogs /\ \A m \in OpenLogs : desc'[m].fd = desc[m].fd
    BY <1>1, <2>2 DEF OpenLogs, ListTypeOK
  <2>4. OwnDescriptors
    BY <2>1 DEF OwnDescriptors, WSTypeOK
  <2>5. FdsOK'
    BY <1>0, <1>1, <1>2, <2>1, <2>3 DEF FdsOK, pipeVars, ForgetPipe
  <2> QED
    BY <2>1, <2>4, <2>5
<1>5. CASE CloseFile \/ ReadTailFails
  <2>1. /\ desc' = [desc EXCEPT ![it].phase = "closed"] /\ desc[it].phase # "closed"
        /\ fds' = [fds EXCEPT ![desc[it].fd] = "free"] /\ UNCHANGED <<pipe0, pipe1>>
    BY <1>5 DEF CloseFile, ReadTailFails, CloseStream, pipeVars
  <2>2. it \in OpenLogs
    BY <1>1, <2>1 DEF OpenLogs
  <2>3. desc'[it].phase = "closed"
    BY <1>1, <2>1 DEF ListTypeOK, Desc
  <2>4. OpenLogs' = OpenLogs \ {it} /\ \A m \in OpenLogs' : desc'[m].fd = desc[m].fd
    BY <1>1, <2>3 DEF OpenLogs, ListTypeOK
  <2>5. \A g \in Fd : g # desc[it].fd => fds'[g] = fds[g]
    BY <2>1 DEF WSTypeOK
  <2>6. \A m \in OpenLogs' : desc[m].fd # desc[it].fd
    BY <2>2, <2>4 DEF FdsOK
  <2>7. \A m \in OpenLogs' : fds'[desc'[m].fd] = "other" /\ desc'[m].fd \notin {pend, pipe0, pipe1}
    BY <1>2, <2>4, <2>5, <2>6
  <2>8. OwnDescriptors
    BY <1>2, <2>1, <2>2 DEF OwnDescriptors, WSTypeOK
  <2>9. /\ pend # -1 => fds'[pend] = fds[pend]
        /\ pipe0 # -1 => fds'[pipe0] = fds[pipe0]
        /\ pipe1 # -1 => fds'[pipe1] = fds[pipe1]
    BY <1>2, <1>3, <2>2, <2>5
  <2> QED
    BY <1>1, <2>1, <2>4, <2>7, <2>8, <2>9 DEF FdsOK
<1>6. CASE MakePipe
  <2>1. PICK f, g \in Fd : /\ fds[f] = "free" /\ fds[g] = "free" /\ f # g
                           /\ fds' = [fds EXCEPT ![f] = "other", ![g] = "other"]
                           /\ pipe0' = f /\ pipe1' = g
    BY <1>6 DEF MakePipe, FreeFds, Lowest
  <2>2. OpenLogs' = OpenLogs /\ UNCHANGED desc
    BY <1>1, <1>6 DEF MakePipe, OpenLogs
  <2>3. /\ fds'[f] = "other" /\ fds'[g] = "other"
        /\ \A h \in Fd : h \notin {f, g} => fds'[h] = fds[h]
    BY <2>1 DEF WSTypeOK
  <2>4. \A m \in OpenLogs : fds'[desc[m].fd] = "other" /\ desc[m].fd \notin {pend, f, g}
    BY <1>2, <2>1, <2>3
  <2>5. pend \notin {f, g} /\ (pend # -1 => fds'[pend] = fds[pend])
    BY <1>0, <1>3, <2>1, <2>3
  <2>6. OwnDescriptors
    BY <2>1 DEF OwnDescriptors, WSTypeOK
  <2> QED
    BY <1>1, <2>1, <2>2, <2>3, <2>4, <2>5, <2>6 DEF FdsOK
<1>7. CASE StartTail
  <2>1. /\ pipe0 \in Fd /\ pipe1 \in Fd /\ pipe0 # pipe1
        /\ fds[pipe0] = "other" /\ fds[pipe1] = "other" /\ pend \notin {pipe0, pipe1}
        /\ desc[it].phase = "closed"
    BY <1>3, <1>7 DEF StartTail, InGetNextLine, RunOK, FdsOK
  <2>2. /\ fds' = [fds EXCEPT ![pipe1] = "free"] /\ pipe0' = -1 /\ pipe1' = -1
        /\ desc' = [desc EXCEPT ![it].fd = pipe0, ![it].phase = "tail"]
    BY <1>7 DEF StartTail, ForgetPipe
  <2>3. desc'[it].fd = pipe0 /\ desc'[it].phase = "tail"
    BY <1>1, <2>2 DEF ListTypeOK, Desc
  <2>4. /\ OpenLogs' = OpenLogs \cup {it} /\ it \notin OpenLogs
        /\ \A m \in OpenLogs : desc'[m].fd = desc[m].fd
    BY <1>1, <2>1, <2>3 DEF OpenLogs, ListTypeOK
  <2>5. \A h \in Fd : h # pipe1 => fds'[h] = fds[h]
    BY <2>2 DEF WSTypeOK
  <2>6. \A m \in OpenLogs' : /\ fds'[desc'[m].fd] = "other"
                             /\ desc'[m].fd \notin {pend, -1}
    BY <1>0, <1>2, <2>1, <2>3, <2>4, <2>5
  <2>7. \A m, n \in OpenLogs' : desc'[m].fd = desc'[n].fd => m = n
    BY <1>2, <2>3, <2>4 DEF FdsOK
  <2>8. OwnDescriptors
    BY <2>1, <2>2 DEF OwnDescriptors, WSTypeOK
  <2>9. pend # -1 => fds'[pend] = fds[pend]
    BY <1>3, <2>1, <2>5
  <2> QED
    BY <1>1, <2>2, <2>6, <2>7, <2>8, <2>9 DEF FdsOK
<1> QED
  BY <1>4, <1>5, <1>6, <1>7 DEF GetNextLine

-----------------------------------------------------------------------------
(* LogServer is a WebSocketServer *)

\* A step of a handler is a return to the reader, a step of the derived class,
\* or nothing the base class knows of.
LEMMA HandlersImplement ==
  ASSUME WSInv, ListTypeOK, HookOK, FdsOK, Handlers
  PROVE  HandlersReturn \/ DerivedStep \/ UNCHANGED wsVars
<1>1. WSTypeOK
  BY DEF WSInv
<1>2. UNCHANGED fds => OwnDescriptors
  BY <1>1 DEF OwnDescriptors, WSTypeOK
<1>3. CASE IgnoreMessage \/ OpenLogFails \/ EndPurge
  BY <1>2, <1>3 DEF IgnoreMessage, OpenLogFails, EndPurge, HandlersReturn
<1>9. CASE OpenLogLeaks
  <2>1. OwnDescriptors
    BY <1>1, <1>9 DEF OpenLogLeaks, FreeFds, OwnDescriptors, WSTypeOK
  <2> QED
    BY <1>9, <2>1 DEF OpenLogLeaks, HandlersReturn
<1>4. CASE OpenLog
  <2>1. OwnDescriptors
    BY <1>1, <1>4 DEF OpenLog, FreeFds, OwnDescriptors, WSTypeOK
  <2> QED
    BY <1>1, <1>4, <2>1 DEF OpenLog, DerivedStep, WSTypeOK
<1>5. CASE \E l \in Log, n \in 0 .. MaxLines : PushLog(l, n)
  BY <1>2, <1>5 DEF PushLog, HandlersReturn
<1>6. CASE StopReadingLog
  <2>1. UNCHANGED <<hookVars, pipeVars>>
    BY <1>6 DEF StopReadingLog, runVars, pipeVars
  <2>2. (\E l \in logs : Drop(l)) => OwnDescriptors
    BY <1>1, <2>1, DropFds
  <2>3. \A l \in Log : UseClosedStream(l) => OwnDescriptors /\ alive' \in BOOLEAN
    BY <1>2 DEF UseClosedStream
  <2> QED
    BY <1>2, <1>6, <2>2, <2>3 DEF StopReadingLog, Requested, HandlersReturn, DerivedStep
<1>7. CASE LockToPurge
  BY <1>7 DEF LockToPurge
<1>8. ASSUME NEW l \in Log, PurgeLog(l) PROVE DerivedStep
  <2>1. UNCHANGED <<socket, peerVars, mapVars, clVars, mlVars, hookVars, pipeVars>> /\ l \in logs
    BY <1>8 DEF PurgeLog, OfClient, runVars, pipeVars
  <2>2. CASE Drop(l)
    <3>1. OwnDescriptors /\ alive' \in BOOLEAN
      BY <1>1, <2>1, <2>2, DropFds DEF Drop, WSTypeOK
    <3> QED
      BY <2>1, <3>1 DEF DerivedStep
  <2>3. CASE UseClosedStream(l)
    BY <1>2, <2>1, <2>3 DEF UseClosedStream, DerivedStep
  <2> QED
    BY <1>8, <2>2, <2>3 DEF PurgeLog
<1> QED
  BY <1>3, <1>4, <1>5, <1>6, <1>7, <1>8, <1>9 DEF Handlers

\* What Run does to descriptors and to the process.
LEMMA RunFds ==
  ASSUME WSTypeOK, ListTypeOK, HookOK, RunOK, FdsOK,
         Run \/ RunSpuriousWakeup \/ SelectLogsInterrupted
  PROVE  /\ NotRun /\ alive' \in BOOLEAN
         /\ FdsOK' /\ OwnDescriptors
         /\ pend # -1 => fds'[pend] = fds[pend]
<1>1. UNCHANGED <<fds, listVars, hookVars, pipeVars>> =>
         /\ FdsOK' /\ OwnDescriptors
         /\ pend # -1 => fds'[pend] = fds[pend]
  BY DEF FdsOK, OpenLogs, OwnDescriptors, WSTypeOK, listVars, hookVars, pipeVars
<1>2. alive \in BOOLEAN
  BY DEF WSTypeOK
<1>3. CASE SleepOnEmptyList \/ RunSpuriousWakeup \/ SelectLogsInterrupted \/ FillReadFds
  BY <1>1, <1>2, <1>3 DEF SleepOnEmptyList, RunSpuriousWakeup, SelectLogsInterrupted, FillReadFds,
                    NotRun
<1>4. CASE SelectLogsReturns \/ RelockLogs
  BY <1>1, <1>2, <1>4 DEF SelectLogsReturns, SelectOnClosedFd, SelectLogsReady, SelectLogsTimeout,
                    RelockLogs, NotRun
<1>5. CASE (\E l \in Log : ClientFound(l)) \/ EndLogsPass \/ StartSend \/ HangInSend \/ NoException
  BY <1>1, <1>2, <1>5 DEF ClientFound, EndLogsPass, StartSend, HangInSend, NoException, NotRun
<1>6. CASE FinishSend
  BY <1>1, <1>2, <1>6 DEF FinishSend, NotRun
<1>7. ASSUME NEW l \in Log, ClientMissing(l) \/ (l = it /\ Exception)
      PROVE  /\ NotRun /\ alive' \in BOOLEAN
             /\ FdsOK' /\ OwnDescriptors
             /\ pend # -1 => fds'[pend] = fds[pend]
  <2>1. NotRun /\ UNCHANGED <<hookVars, pipeVars>> /\ (Drop(l) \/ UseClosedStream(l))
    BY <1>7 DEF ClientMissing, Exception, NotRun
  <2>2. l \in logs
    BY <1>7 DEF ClientMissing, Exception, RunOK, AtLog, ListTypeOK
  <2>3. CASE Drop(l)
    BY <1>2, <2>1, <2>2, <2>3, DropFds DEF Drop
  <2>4. CASE UseClosedStream(l)
    BY <1>1, <2>1, <2>4 DEF UseClosedStream
  <2> QED
    BY <2>1, <2>3, <2>4
<1>8. CASE GetNextLine
  <2>1. NotRun /\ alive' \in BOOLEAN
    BY <1>2, <1>8 DEF GetNextLine, ReadLine, CloseFile, MakePipe, PipeFails,
     ForkFails, StartTail, TailFdopenFails, ReadTailFails, ReadClosed, UseClosedStream,
     InGetNextLine
  <2> QED
    BY <1>8, <2>1, ReadFds
<1>9. CASE Exception
  BY <1>7, <1>9 DEF Exception, RunOK, AtLog, ListTypeOK
<1> QED
  BY <1>3, <1>4, <1>5, <1>6, <1>7, <1>8, <1>9 DEF Run, Visit

\* Every step of LogServer is one that WebSocketServer allows.
LEMMA Implements ==
  ASSUME WSInv, ListTypeOK, HookOK, RunOK, FdsOK, [Next]_vars
  PROVE  [WSNext]_wsVars
<1>1. CASE alive /\ ServerStep
  BY <1>1 DEF WSNext
<1>2. CASE alive /\ Handlers
  BY <1>2, HandlersImplement DEF WSNext
<1>3. CASE alive /\ (Run \/ RunSpuriousWakeup \/ SelectLogsInterrupted)
  <2>1. DerivedStep
    BY <1>3, RunFds DEF DerivedStep, NotRun, WSInv
  <2> QED
    BY <1>3, <2>1 DEF WSNext
<1>4. CASE \E l \in Log : LineAppended(l) \/ TailExits(l)
  BY <1>4 DEF LineAppended, TailExits
<1>5. CASE UNCHANGED vars
  BY <1>5 DEF vars
<1> QED
  BY <1>1, <1>2, <1>3, <1>4, <1>5 DEF Next

-----------------------------------------------------------------------------
(* What the base class does to what the handlers and Run rely on *)

\* While a handler runs the reader stays in it; no client but the one whose
\* handler has returned leaves the map; no descriptor that is not a socket
\* is touched.
LEMMA ServerEffect ==
  ASSUME WSInv, ServerStep
  PROVE  /\ \A f \in Fd : fds[f] = "other" <=> fds'[f] = "other"
         /\ ml_pc \in {"onmessage", "ondisconnect"} => UNCHANGED <<ml_pc, cur, text>>
         /\ ml_pc' = "erase" => ml_pc = "erase" /\ cur' = cur
         /\ \A c \in clients : \/ c = cur /\ ml_pc = "erase"
                               \/ c \in clients' /\ id'[c] = id[c]
<1> USE DEF WSInv, WSTypeOK, ThreadsOK, AtClient, SocketsOK, peerVars, mapVars, clVars, mlVars
<1> USE ConnAssumption, FdAssumption
<1>1. CASE \E c \in Conn : Peer(c)
  BY <1>1 DEF Peer, Dial, PeerLeaves, PeerStalls, PeerResumes, PeerSends
<1>2. CASE \E c \in Conn : Accept(c)
  <2>1. PICK f \in Fd : fds[f] = "free" /\ fds' = [fds EXCEPT ![f] = "socket"]
    BY <1>2 DEF Accept, FreeFds
  <2>2. \A g \in Fd : fds[g] = "other" <=> fds'[g] = "other"
    BY <2>1
  <2> QED
    BY <1>2, <2>2 DEF Accept
<1>8. CASE (\E first \in {Opening, Closing} : TlsAccepted(first)) \/ TlsRefused \/ LockToInsert
  BY <1>8 DEF TlsAccepted, TlsRefused, LockToInsert
<1>3. CASE Insert
  BY <1>3 DEF Insert, Signalled
<1>4. CASE SpuriousWakeup \/ SelectFails \/ SleepOnEmptyMap \/ FillFdSet \/ SelectReturns
           \/ LockToRead
  BY <1>4 DEF SpuriousWakeup, SelectFails, SleepOnEmptyMap, FillFdSet, SelectReturns,
              SelectReady, SelectTimeout, LockToRead
<1>5. CASE (\E c \in Conn : NextClient(c)) \/ EndPass \/ ReceiveNothing \/ ReceiveHandshake
           \/ ReceiveText \/ ReceiveFails
  BY <1>5 DEF NextClient, EndPass, ReceiveNothing, ReceiveHandshake, ReceiveText, ReceiveFails
<1>6. CASE Disconnect
  <2>1. cur \in Conn /\ socket[cur] \in Fd /\ fds[socket[cur]] = "socket"
    BY <1>6 DEF Disconnect
  <2> QED
    BY <1>6, <2>1 DEF Disconnect, CloseSocket
<1>7. CASE Erase
  <2>1. /\ ml_pc = "erase" /\ ml_pc' = "pass" /\ UNCHANGED fds
        /\ clients' = clients \ {cur} /\ id' = [id EXCEPT ![cur] = -1]
    BY <1>7 DEF Erase
  <2>2. \A c \in clients : c # cur => c \in clients' /\ id'[c] = id[c]
    BY <2>1
  <2> QED
    BY <2>1, <2>2
<1> QED
  BY <1>1, <1>2, <1>3, <1>4, <1>5, <1>6, <1>7, <1>8
     DEF ServerStep, ListenConnections, ReadMessages

-----------------------------------------------------------------------------
(* The steps of the invariant *)

\* Every step keeps the types.
LEMMA ListTypeStep ==
  ASSUME WSInv, ListTypeOK, HookOK, RunOK, [Next]_vars
  PROVE  ListTypeOK'
<1>1. CASE UNCHANGED <<listVars, hookVars, runVars>>
  BY <1>1 DEF ListTypeOK, AtLog, Busy, listVars, hookVars, runVars
<1>2. CASE Handlers
  BY <1>2, ListTypeHandlers
<1>3. CASE Run \/ RunSpuriousWakeup \/ SelectLogsInterrupted
  BY <1>3, ListTypeRun DEF WSInv
<1>4. ASSUME NEW l \in Log, LineAppended(l) \/ TailExits(l) PROVE ListTypeOK'
  <2>1. UNCHANGED <<hookVars, runVars>>
    BY <1>4 DEF LineAppended, TailExits
  <2> QED
    BY <1>4, <2>1, OutsideEffect DEF ListTypeOK, AtLog, Busy, hookVars, runVars
<1> QED
  BY <1>1, <1>2, <1>3, <1>4 DEF Next, vars

\* Every step keeps each open log its own descriptor.
LEMMA FdsStep ==
  ASSUME WSInv, ListTypeOK, HookOK, RunOK, FdsOK, [Next]_vars
  PROVE  FdsOK'
<1> USE DEF WSInv
<1>1. ASSUME UNCHANGED <<listVars, pend, pipe0, pipe1>>,
             \A f \in Fd : fds[f] = "other" => fds'[f] = "other"
      PROVE  FdsOK'
  BY <1>1 DEF FdsOK, OpenLogs, listVars, ListTypeOK, Desc
<1>2. CASE ServerStep /\ UNCHANGED <<listVars, hookVars, runVars>>
  BY <1>1, <1>2, ServerEffect DEF hookVars, runVars
<1>3. CASE IgnoreMessage \/ OpenLogFails \/ LockToPurge \/ EndPurge
  BY <1>1, <1>3 DEF IgnoreMessage, OpenLogFails, LockToPurge, EndPurge, wsVars, hookVars, runVars
<1>10. CASE OpenLogLeaks
  <2>1. \A f \in Fd : fds[f] = "other" => fds'[f] = "other"
    BY <1>10 DEF OpenLogLeaks, FreeFds, WSTypeOK
  <2> QED
    BY <1>1, <1>10, <2>1 DEF OpenLogLeaks, hookVars, runVars
<1>4. CASE OpenLog
  <2>1. PICK f \in Fd : /\ fds[f] = "free" /\ pend' = f
                        /\ fds' = [fds EXCEPT ![f] = "other"]
    BY <1>4 DEF OpenLog, FreeFds
  <2>2. OpenLogs' = OpenLogs /\ UNCHANGED <<listVars, pipe0, pipe1>>
    BY <1>4 DEF OpenLog, OpenLogs, listVars, runVars
  <2>3. \A l \in OpenLogs : /\ desc'[l].fd = desc[l].fd /\ desc[l].fd \in Fd
                            /\ fds[desc[l].fd] = "other"
    BY <2>2 DEF OpenLogs, FdsOK, listVars, ListTypeOK, Desc
  <2>4. \A l \in OpenLogs : desc[l].fd # f /\ fds'[desc[l].fd] = "other"
    BY <2>1, <2>3 DEF WSTypeOK
  <2>5. /\ pipe0 # -1 => pipe0 # f /\ fds'[pipe0] = "other"
        /\ pipe1 # -1 => pipe1 # f /\ fds'[pipe1] = "other"
    BY <2>1 DEF FdsOK, ListTypeOK, WSTypeOK
  <2> QED
    BY <2>1, <2>2, <2>3, <2>4, <2>5, FdAssumption DEF FdsOK
<1>5. ASSUME NEW l \in Log, NEW n \in 0 .. MaxLines, PushLog(l, n) PROVE FdsOK'
  <2>1. /\ l \notin logs /\ logs' = logs \cup {l} /\ pend' = -1 /\ UNCHANGED fds
        /\ desc'[l].fd = pend /\ desc'[l].phase = "file" /\ pend \in Fd /\ fds[pend] = "other"
        /\ \A m \in Log \ {l} : desc'[m] = desc[m]
        /\ pipe0 = -1 /\ pipe1 = -1 /\ UNCHANGED <<pipe0, pipe1>>
    BY <1>5, FdAssumption DEF PushLog, HookOK, ListTypeOK, LogsFree, RunOK, Busy, AtLog, pipeVars
  <2>2. OpenLogs' = OpenLogs \cup {l} /\ l \notin OpenLogs
    BY <2>1 DEF OpenLogs, ListTypeOK
  <2>3. \A m \in OpenLogs : /\ desc'[m].fd = desc[m].fd /\ desc[m].fd \in Fd
                            /\ fds[desc[m].fd] = "other" /\ desc[m].fd # pend
    BY <2>1 DEF OpenLogs, FdsOK, ListTypeOK, Desc
  <2>4. \A m \in OpenLogs' : fds'[desc'[m].fd] = "other" /\ desc'[m].fd # -1
    BY <2>1, <2>2, <2>3, FdAssumption
  <2>5. \A m, k \in OpenLogs' : desc'[m].fd = desc'[k].fd => m = k
    BY <2>1, <2>2, <2>3 DEF FdsOK
  <2> QED
    BY <2>1, <2>4, <2>5 DEF FdsOK
<1>6. CASE StopReadingLog \/ \E l \in Log : PurgeLog(l)
  <2>1. UNCHANGED <<hookVars, pipeVars>>
    BY <1>6 DEF StopReadingLog, PurgeLog, runVars, pipeVars
  <2>2. CASE \E l \in logs : Drop(l)
    BY <2>1, <2>2, DropFds
  <2>3. CASE UNCHANGED <<fds, listVars>>
    BY <1>1, <2>1, <2>3 DEF hookVars, pipeVars
  <2> QED
    BY <1>6, <2>2, <2>3 DEF StopReadingLog, PurgeLog, Requested, OfClient, UseClosedStream
<1>7. CASE Run \/ RunSpuriousWakeup \/ SelectLogsInterrupted
  BY <1>7, RunFds
<1>8. ASSUME NEW l \in Log, LineAppended(l) \/ TailExits(l) PROVE FdsOK'
  <2>1. UNCHANGED <<fds, pend, pipe0, pipe1>> /\ OpenLogs' = OpenLogs
    BY <1>8, OutsideEffect
       DEF LineAppended, TailExits, OpenLogs, wsVars, hookVars, runVars, ListTypeOK
  <2>2. \A m \in OpenLogs : desc'[m].fd = desc[m].fd
    BY <1>8, OutsideEffect DEF OpenLogs, ListTypeOK
  <2> QED
    BY <2>1, <2>2 DEF FdsOK
<1>9. CASE UNCHANGED vars
  BY <1>1, <1>9 DEF vars, wsVars, hookVars, runVars
<1> QED
  BY <1>2, <1>3, <1>4, <1>5, <1>6, <1>7, <1>8, <1>9, <1>10 DEF Next, Handlers

\* Every step keeps the handlers where the reader is, and a purge and a pass
\* of Run apart.
LEMMA HookStep ==
  ASSUME WSInv, ListTypeOK, HookOK, RunOK, FdsOK, [Next]_vars
  PROVE  HookOK'
<1> USE FdAssumption
<1>1. CASE ServerStep /\ UNCHANGED <<listVars, hookVars, runVars>>
  <2>1. UNCHANGED <<hook, pend, run_pc>>
    BY <1>1 DEF hookVars, runVars
  <2>2. hook = "push" => pend \in Fd /\ fds'[pend] = "other"
    BY <1>1, ServerEffect DEF HookOK, ListTypeOK
  <2>3. hook # "idle" => UNCHANGED ml_pc
    BY <1>1, ServerEffect DEF HookOK, ListTypeOK
  <2> QED
    BY <2>1, <2>2, <2>3 DEF HookOK, ListTypeOK
<1>2. CASE IgnoreMessage \/ OpenLogFails \/ OpenLogLeaks
  BY <1>2 DEF IgnoreMessage, OpenLogFails, OpenLogLeaks, InOnMessage, HookOK, hookVars, runVars
<1>3. CASE OpenLog
  BY <1>3 DEF OpenLog, InOnMessage, HookOK, ListTypeOK, mlVars, runVars, FreeFds, WSInv, WSTypeOK
<1>4. ASSUME NEW l \in Log, NEW n \in 0 .. MaxLines, PushLog(l, n) PROVE HookOK'
  BY <1>4 DEF PushLog, HookOK
<1>5. CASE StopReadingLog
  BY <1>5 DEF StopReadingLog, InOnMessage, HookOK, hookVars, runVars
<1>6. CASE LockToPurge
  BY <1>6 DEF LockToPurge, LogsFree, HookOK, Busy, AtLog, ListTypeOK, wsVars, mlVars, runVars
<1>7. CASE (\E l \in Log : PurgeLog(l)) \/ EndPurge
  BY <1>7 DEF PurgeLog, EndPurge, HookOK, hookVars, runVars, mlVars
<1>8. CASE Run \/ RunSpuriousWakeup \/ SelectLogsInterrupted
  <2>1. UNCHANGED <<hook, pend, ml_pc>> /\ (pend # -1 => fds'[pend] = fds[pend])
    BY <1>8, RunFds DEF NotRun, hookVars, mlVars, WSInv
  <2>2. hook = "purge" => run_pc' \notin Busy
    <3>1. SUFFICES ASSUME hook = "purge" PROVE run_pc' \notin Busy
      OBVIOUS
    <3>2. run_pc \notin Busy /\ ~LogsFree
      BY <3>1 DEF HookOK, LogsFree
    <3> QED
      BY <1>8, <3>2 DEF Run, RunSpuriousWakeup, SelectLogsInterrupted, SleepOnEmptyList,
         FillReadFds, SelectLogsReturns, SelectOnClosedFd, SelectLogsReady, SelectLogsTimeout,
         RelockLogs, Visit, ClientFound, ClientMissing, EndLogsPass, GetNextLine,
         ReadLine, CloseFile, MakePipe, PipeFails, ForkFails, StartTail, TailFdopenFails,
         ReadTailFails, ReadClosed, InGetNextLine, StartSend, HangInSend, FinishSend,
         NoException, Exception, Busy, AtLog
  <2> QED
    BY <2>1, <2>2 DEF HookOK
<1>9. CASE (\E l \in Log : LineAppended(l) \/ TailExits(l)) \/ UNCHANGED vars
  BY <1>9 DEF LineAppended, TailExits, HookOK, vars, wsVars, mlVars, hookVars, runVars
<1> QED
  BY <1>1, <1>2, <1>3, <1>4, <1>5, <1>6, <1>7, <1>8, <1>9 DEF Next, Handlers

\* The handlers change the list only while Run is not in it.
LEMMA HandlersLeaveRun ==
  ASSUME HookOK, Handlers
  PROVE  /\ UNCHANGED <<it, client_it, todo, pipe0, pipe1>>
         /\ run_pc' # run_pc => run_pc = "asleep" /\ run_pc' = "woken"
         /\ run_pc \in Busy => UNCHANGED listVars
<1>1. CASE IgnoreMessage \/ OpenLogFails \/ OpenLogLeaks \/ OpenLog \/ LockToPurge \/ EndPurge
  BY <1>1 DEF IgnoreMessage, OpenLogFails, OpenLogLeaks, OpenLog, LockToPurge, EndPurge, runVars
<1>2. ASSUME NEW l \in Log, NEW n \in 0 .. MaxLines, PushLog(l, n)
      PROVE  /\ UNCHANGED <<it, client_it, todo, pipe0, pipe1>> /\ run_pc \notin Busy
             /\ run_pc' # run_pc => run_pc = "asleep" /\ run_pc' = "woken"
  BY <1>2 DEF PushLog, RunSignalled, LogsFree, Busy, AtLog, pipeVars
<1>3. CASE StopReadingLog \/ \E l \in Log : PurgeLog(l)
  BY <1>3 DEF StopReadingLog, PurgeLog, LogsFree, HookOK, Busy, AtLog, runVars
<1> QED
  BY <1>1, <1>2, <1>3 DEF Handlers

\* Every step keeps Run at a log of the list while it is in the list.
LEMMA RunStep ==
  ASSUME WSInv, ListTypeOK, HookOK, RunOK, [Next]_vars
  PROVE  RunOK'
<1> USE DEF RunOK, AtLog, Busy, pipeVars
<1>1. CASE UNCHANGED <<logs, runVars>> /\ (desc[it].phase = "closed" => desc'[it].phase = "closed")
  BY <1>1 DEF runVars
<1>2. CASE Handlers
  <2>1. CASE run_pc \in Busy
    BY <1>2, <2>1, HandlersLeaveRun DEF listVars
  <2>2. CASE run_pc \notin Busy
    <3>1. /\ it = NoLog /\ todo = {} /\ UNCHANGED <<it, todo, pipe0, pipe1>>
          /\ run_pc' \notin Busy
      BY <1>2, <2>2, HandlersLeaveRun
    <3> QED
      BY <3>1
  <2> QED
    BY <2>1, <2>2
<1>3. CASE SleepOnEmptyList \/ RunSpuriousWakeup \/ SelectLogsInterrupted \/ FillReadFds
           \/ SelectLogsReturns
  BY <1>3 DEF SleepOnEmptyList, RunSpuriousWakeup, SelectLogsInterrupted, FillReadFds,
              SelectLogsReturns, SelectOnClosedFd, SelectLogsReady, SelectLogsTimeout, listVars
<1>4. CASE RelockLogs
  BY <1>4 DEF RelockLogs, LogsFree, listVars
<1>5. ASSUME NEW l \in Log, ClientFound(l) PROVE RunOK'
  BY <1>5, LogAssumption DEF ClientFound, Named, listVars, WSInv, WSTypeOK
<1>6. ASSUME NEW l \in Log, ClientMissing(l) PROVE RunOK'
  <2>1. logs' \in {logs, logs \ {l}} /\ todo' = todo \ {l}
        /\ run_pc = "pass" /\ UNCHANGED <<run_pc, it, client_it, pipe0, pipe1>>
    BY <1>6 DEF ClientMissing, Drop, UseClosedStream, listVars
  <2> QED
    BY <2>1
<1>7. CASE EndLogsPass
  BY <1>7 DEF EndLogsPass, listVars
<1>8. CASE GetNextLine
  <2>1. UNCHANGED <<todo, it, client_it>>
    BY <1>8 DEF GetNextLine, ReadLine, CloseFile, MakePipe, PipeFails,
       ForkFails, StartTail, TailFdopenFails, ReadTailFails, ReadClosed, InGetNextLine
  <2>2. /\ run_pc' \in {"pipe", "fork"} => desc'[it].phase = "closed"
        /\ pipe0' # -1 <=> run_pc' = "fork"
        /\ pipe1' # -1 <=> run_pc' = "fork"
    <3>1. CASE ReadLine \/ ReadClosed \/ PipeFails \/ ForkFails \/ TailFdopenFails \/ StartTail
      BY <3>1 DEF ReadLine, ReadClosed, PipeFails, ForkFails, TailFdopenFails, StartTail,
         ForgetPipe, InGetNextLine, UseClosedStream, listVars
    <3>2. CASE MakePipe
      BY <3>2, FdAssumption DEF MakePipe, FreeFds, InGetNextLine
    <3>3. CASE CloseFile \/ ReadTailFails
      BY <1>8, <3>3, ReadEffect DEF CloseFile, ReadTailFails, InGetNextLine, ListTypeOK, Desc
    <3> QED
      BY <1>8, <3>1, <3>2, <3>3 DEF GetNextLine
  <2> QED
    BY <1>8, <2>1, <2>2, ReadEffect
<1>9. CASE StartSend \/ HangInSend \/ FinishSend \/ NoException
  BY <1>9 DEF StartSend, HangInSend, FinishSend, NoException, listVars
<1>10. CASE Exception
  <2>1. logs' \in {logs, logs \ {it}} /\ todo' = todo /\ it' = NoLog /\ run_pc' = "pass"
        /\ it \notin todo /\ run_pc = "except" /\ UNCHANGED <<pipe0, pipe1>>
    BY <1>10 DEF Exception, Drop, UseClosedStream, listVars
  <2> QED
    BY <2>1
<1>11. CASE \E l \in Log : LineAppended(l) \/ TailExits(l)
  <2>1. logs' = logs /\ UNCHANGED runVars
    BY <1>11 DEF LineAppended, TailExits
  <2>2. it # NoLog => (desc[it].phase = "closed" => desc'[it].phase = "closed")
    BY <1>11, OutsideEffect DEF ListTypeOK
  <2> QED
    BY <1>1, <2>1, <2>2 DEF runVars
<1> QED
  BY <1>1, <1>2, <1>3, <1>4, <1>5, <1>6, <1>7, <1>8, <1>9, <1>10, <1>11
     DEF Next, Run, Visit, vars, listVars

\* What a step of Run does to the list: logs go, and those that stay keep
\* their owners.
LEMMA RunList ==
  ASSUME ListTypeOK, RunOK, Run \/ RunSpuriousWakeup \/ SelectLogsInterrupted
  PROVE  /\ logs' \subseteq logs
         /\ \A l \in logs' : /\ desc'[l].owner = desc[l].owner
                             /\ desc'[l].client = desc[l].client
         /\ UNCHANGED <<clients, id, ml_pc, cur>>
<1>1. UNCHANGED listVars => /\ logs' \subseteq logs
                            /\ \A l \in logs' : /\ desc'[l].owner = desc[l].owner
                                                /\ desc'[l].client = desc[l].client
  BY DEF listVars
<1>2. NotRun => UNCHANGED <<clients, id, ml_pc, cur>>
  BY DEF NotRun, mapVars, mlVars
<1>3. CASE SleepOnEmptyList \/ RunSpuriousWakeup \/ SelectLogsInterrupted \/ FillReadFds
           \/ SelectLogsReturns \/ RelockLogs \/ (\E l \in Log : ClientFound(l))
           \/ EndLogsPass \/ StartSend \/ HangInSend \/ FinishSend \/ NoException
  BY <1>1, <1>2, <1>3
     DEF SleepOnEmptyList, RunSpuriousWakeup, SelectLogsInterrupted, FillReadFds,
         SelectLogsReturns, SelectOnClosedFd, SelectLogsReady, SelectLogsTimeout, RelockLogs,
         ClientFound, EndLogsPass, StartSend, HangInSend, FinishSend, NoException
<1>4. ASSUME NEW l \in Log, ClientMissing(l) \/ (l = it /\ Exception)
      PROVE  /\ logs' \subseteq logs
             /\ \A m \in logs' : /\ desc'[m].owner = desc[m].owner
                                 /\ desc'[m].client = desc[m].client
             /\ NotRun
  <2>1. NotRun /\ (Drop(l) \/ UseClosedStream(l)) /\ l \in logs
    BY <1>4 DEF ClientMissing, Exception, RunOK, AtLog
  <2>2. CASE Drop(l)
    BY <2>1, <2>2, DropEffect DEF SameButPhase
  <2>3. CASE UseClosedStream(l)
    BY <1>1, <2>1, <2>3 DEF UseClosedStream
  <2> QED
    BY <2>1, <2>2, <2>3
<1>5. CASE GetNextLine
  <2>1. NotRun
    BY <1>5 DEF GetNextLine, ReadLine, CloseFile, MakePipe, PipeFails,
     ForkFails, StartTail, TailFdopenFails, ReadTailFails, ReadClosed, InGetNextLine
  <2> QED
    BY <1>2, <1>5, <2>1, ReadEffect DEF ListTypeOK
<1>6. CASE Exception
  BY <1>2, <1>4, <1>6 DEF Exception, RunOK, AtLog, ListTypeOK
<1> QED
  BY <1>2, <1>3, <1>4, <1>5, <1>6 DEF Run, Visit

\* What a step of a handler does to the list.  The reader stays at its client,
\* which is in the map; a log is pushed for that client, or logs go that have
\* its id; when OnDisconnect returns no log with its id is left.
LEMMA HandlersList ==
  ASSUME WSInv, ListTypeOK, HookOK, Handlers
  PROVE  /\ UNCHANGED <<clients, id>> /\ cur \in clients
         /\ \A l \in logs' : \/ desc'[l].owner = cur /\ desc'[l].client = id[cur]
                             \/ /\ l \in logs /\ desc'[l].owner = desc[l].owner
                                /\ desc'[l].client = desc[l].client
         /\ \A l \in logs \ logs' : desc[l].client = id[cur]
         /\ ml_pc' = "erase" => /\ logs' = logs /\ cur' = cur
                                /\ \A l \in logs' : desc'[l].client # id[cur]
<1>1. ml_pc \in {"onmessage", "ondisconnect"} => cur \in clients
  BY DEF WSInv, ThreadsOK, AtClient
<1>2. CASE IgnoreMessage \/ OpenLogFails \/ OpenLogLeaks \/ OpenLog
  BY <1>1, <1>2 DEF IgnoreMessage, OpenLogFails, OpenLogLeaks, OpenLog, InOnMessage,
                    ReturnFromOnMessage, mapVars, mlVars, listVars
<1>3. ASSUME NEW l \in Log, NEW n \in 0 .. MaxLines, PushLog(l, n)
      PROVE  /\ UNCHANGED <<clients, id>> /\ cur \in clients
             /\ logs' = logs \cup {l} /\ ml_pc' # "erase"
             /\ desc'[l].owner = cur /\ desc'[l].client = id[cur]
             /\ \A m \in logs \ {l} : desc'[m] = desc[m]
  BY <1>1, <1>3 DEF PushLog, ReturnFromOnMessage, mapVars, ListTypeOK
<1>4. ASSUME NEW l \in logs, Drop(l)
      PROVE  /\ logs' = logs \ {l}
             /\ \A m \in logs' : /\ desc'[m].owner = desc[m].owner
                                 /\ desc'[m].client = desc[m].client
  BY <1>4, DropEffect DEF SameButPhase
<1>5. CASE StopReadingLog
  <2>1. /\ UNCHANGED <<clients, id>> /\ cur \in clients /\ ml_pc' # "erase"
        /\ UNCHANGED listVars \/ \E l \in logs : desc[l].client = id[cur] /\ Drop(l)
    BY <1>1, <1>5 DEF StopReadingLog, InOnMessage, ReturnFromOnMessage, Requested,
                      UseClosedStream, mapVars, mlVars
  <2> QED
    BY <1>4, <2>1 DEF listVars
<1>6. ASSUME NEW l \in Log, PurgeLog(l)
      PROVE  /\ UNCHANGED <<clients, id>> /\ cur \in clients /\ ml_pc' # "erase"
             /\ l \in logs /\ desc[l].client = id[cur]
             /\ UNCHANGED listVars \/ Drop(l)
  BY <1>1, <1>6 DEF PurgeLog, OfClient, UseClosedStream, mapVars, mlVars, HookOK
<1>7. CASE LockToPurge \/ EndPurge
  BY <1>1, <1>7 DEF LockToPurge, EndPurge, OfClient, ReturnFromOnDisconnect, wsVars, mapVars,
                    mlVars, listVars, HookOK, ListTypeOK
<1> QED
  <2>1. CASE \E l \in Log, n \in 0 .. MaxLines : PushLog(l, n)
    BY <1>3, <2>1
  <2>2. CASE \E l \in Log : PurgeLog(l)
    BY <1>4, <1>6, <2>2 DEF listVars
  <2> QED
    BY <1>2, <1>5, <1>7, <2>1, <2>2 DEF Handlers

\* Every step keeps a log with the client that asked for it.
LEMMA OwnersStep ==
  ASSUME WSInv, ListTypeOK, HookOK, RunOK, LogsHaveClients, [Next]_vars
  PROVE  LogsHaveClients'
<1> USE DEF LogsHaveClients
<1>1. CASE ServerStep /\ UNCHANGED <<listVars, hookVars, runVars>>
  BY <1>1, ServerEffect DEF listVars
<1>2. CASE Handlers
  <2> SUFFICES ASSUME NEW l \in logs'
               PROVE  /\ desc'[l].owner \in clients'
                      /\ desc'[l].client = id'[desc'[l].owner]
                      /\ ~(ml_pc' = "erase" /\ desc'[l].owner = cur')
    OBVIOUS
  <2>1. desc'[l].owner \in clients' /\ desc'[l].client = id'[desc'[l].owner]
    BY <1>2, HandlersList
  <2>2. ml_pc' = "erase" => desc'[l].owner # cur'
    BY <1>2, <2>1, HandlersList
  <2> QED
    BY <2>1, <2>2
<1>3. CASE Run \/ RunSpuriousWakeup \/ SelectLogsInterrupted
  BY <1>3, RunList
<1>4. ASSUME NEW l \in Log, LineAppended(l) \/ TailExits(l) PROVE LogsHaveClients'
  <2>1. UNCHANGED <<clients, id, ml_pc, cur>>
    BY <1>4 DEF LineAppended, TailExits, wsVars, mapVars, mlVars
  <2>2. logs' = logs /\ \A m \in logs : /\ desc'[m].owner = desc[m].owner
                                       /\ desc'[m].client = desc[m].client
    BY <1>4, OutsideEffect DEF ListTypeOK
  <2> QED
    BY <2>1, <2>2
<1>5. CASE UNCHANGED vars
  BY <1>5 DEF vars, wsVars, mapVars, mlVars, listVars
<1> QED
  BY <1>1, <1>2, <1>3, <1>4, <1>5 DEF Next

\* Every step keeps Run with the client that asked for the log it reads.
LEMMA DeliveryStep ==
  ASSUME WSInv, ListTypeOK, HookOK, RunOK, LogsHaveClients, DeliversToOwner, [Next]_vars,
         ListTypeOK', RunOK', LogsHaveClients'
  PROVE  DeliversToOwner'
<1> DEFINE Reading == run_pc \in AtLog \ {"except"}
<1>1. SUFFICES ASSUME Reading' PROVE client_it' = desc'[it'].owner
  BY <1>1 DEF DeliversToOwner, RunOK, AtLog, LogsHaveClients
<1>2. CASE Reading /\ UNCHANGED <<it, client_it>> /\ desc'[it].owner = desc[it].owner
  BY <1>2 DEF DeliversToOwner
<1>3. CASE UNCHANGED <<listVars, run_pc, it, client_it>>
  BY <1>1, <1>2, <1>3 DEF listVars
<1>4. CASE Handlers
  BY <1>1, <1>2, <1>4, HandlersLeaveRun DEF Busy, AtLog, listVars
<1>5. CASE SleepOnEmptyList \/ RunSpuriousWakeup \/ SelectLogsInterrupted \/ FillReadFds
           \/ SelectLogsReturns \/ RelockLogs \/ EndLogsPass \/ NoException \/ Exception
           \/ FinishSend \/ \E l \in Log : ClientMissing(l)
  BY <1>1, <1>5
     DEF SleepOnEmptyList, RunSpuriousWakeup, SelectLogsInterrupted, FillReadFds,
         SelectLogsReturns, SelectOnClosedFd, SelectLogsReady, SelectLogsTimeout, RelockLogs,
         EndLogsPass, NoException, Exception, FinishSend, ClientMissing, AtLog
<1>6. ASSUME NEW l \in Log, ClientFound(l) PROVE client_it' = desc'[it'].owner
  <2>1. /\ l \in logs /\ it' = l /\ desc' = desc
        /\ client_it' \in clients /\ id[client_it'] = desc[l].client
    BY <1>6 DEF ClientFound, Named, RunOK, listVars
  <2>2. desc[l].owner \in clients /\ desc[l].client = id[desc[l].owner]
    BY <2>1 DEF LogsHaveClients
  <2> QED
    BY <2>1, <2>2 DEF WSInv, IdsOK, UniqueIds
<1>7. CASE GetNextLine
  <2>1. UNCHANGED <<it, client_it>> /\ run_pc \in {"read", "pipe", "fork"}
    BY <1>7 DEF GetNextLine, ReadLine, CloseFile, MakePipe, PipeFails,
     ForkFails, StartTail, TailFdopenFails, ReadTailFails, ReadClosed, InGetNextLine
  <2> QED
    BY <1>2, <1>7, <2>1, ReadEffect DEF AtLog
<1>8. CASE StartSend \/ HangInSend
  BY <1>2, <1>8 DEF StartSend, HangInSend, listVars, AtLog
<1>9. ASSUME NEW l \in Log, LineAppended(l) \/ TailExits(l)
      PROVE  client_it' = desc'[it'].owner
  <2>1. UNCHANGED <<run_pc, it, client_it>> /\ it \in logs
    BY <1>1, <1>9 DEF LineAppended, TailExits, runVars, RunOK, AtLog
  <2>2. desc'[it].owner = desc[it].owner
    BY <1>9, <2>1, OutsideEffect DEF ListTypeOK
  <2> QED
    BY <1>1, <1>2, <2>1, <2>2
<1> QED
  BY <1>3, <1>4, <1>5, <1>6, <1>7, <1>8, <1>9 DEF Next, Run, Visit, vars, runVars

\* Every step keeps Run awake while there are logs.
LEMMA LogsWakeupStep ==
  ASSUME ListTypeOK, RunOK, NoLostLogsWakeup, [Next]_vars
  PROVE  NoLostLogsWakeup'
<1> USE DEF NoLostLogsWakeup
<1>1. CASE UNCHANGED <<listVars, runVars>>
  BY <1>1 DEF listVars, runVars
<1>2. CASE IgnoreMessage \/ OpenLogFails \/ OpenLogLeaks \/ OpenLog \/ LockToPurge \/ EndPurge
  BY <1>1, <1>2 DEF IgnoreMessage, OpenLogFails, OpenLogLeaks, OpenLog, LockToPurge, EndPurge
<1>3. ASSUME NEW l \in Log, NEW n \in 0 .. MaxLines, PushLog(l, n) PROVE NoLostLogsWakeup'
  BY <1>3 DEF PushLog, RunSignalled
<1>4. CASE StopReadingLog \/ \E l \in Log : PurgeLog(l)
  BY <1>4 DEF StopReadingLog, PurgeLog, Drop, UseClosedStream, listVars, runVars
<1>5. CASE SleepOnEmptyList
  BY <1>5 DEF SleepOnEmptyList, listVars
<1>6. CASE Run \/ RunSpuriousWakeup \/ SelectLogsInterrupted
  <2>1. logs' \subseteq logs
    BY <1>6, RunList
  <2>2. SleepOnEmptyList \/ run_pc' # "asleep"
    BY <1>6 DEF Run, RunSpuriousWakeup, SelectLogsInterrupted,
         FillReadFds, SelectLogsReturns, SelectOnClosedFd, SelectLogsReady, SelectLogsTimeout,
         RelockLogs, Visit, ClientFound, ClientMissing, EndLogsPass, GetNextLine,
         ReadLine, CloseFile, MakePipe, PipeFails, ForkFails, StartTail, TailFdopenFails,
         ReadTailFails, ReadClosed, InGetNextLine, StartSend, HangInSend, FinishSend,
         NoException, Exception
  <2> QED
    BY <1>5, <2>2
<1>7. CASE \E l \in Log : LineAppended(l) \/ TailExits(l)
  BY <1>7 DEF LineAppended, TailExits, runVars
<1> QED
  BY <1>1, <1>2, <1>3, <1>4, <1>6, <1>7 DEF Next, Handlers, vars

-----------------------------------------------------------------------------
(* The theorems *)

\* The initial state satisfies the inductive invariant.
LEMMA LInvInit == Init => LInv
<1> SUFFICES ASSUME Init PROVE LInv
  OBVIOUS
<1>1. WSInv
  BY WSInvInit DEF Init
<1>2. ListTypeOK
  BY DEF Init, ListTypeOK
<1>3. HookOK /\ RunOK
  BY DEF Init, HookOK, RunOK, AtLog, Busy
<1>4. FdsOK /\ LogsHaveClients /\ DeliversToOwner /\ NoLostLogsWakeup
  BY DEF Init, FdsOK, OpenLogs, LogsHaveClients, DeliversToOwner, NoLostLogsWakeup, AtLog
<1> QED
  BY <1>1, <1>2, <1>3, <1>4 DEF LInv

\* Every step preserves it.
LEMMA LInvStep == LInv /\ [Next]_vars => LInv'
<1> SUFFICES ASSUME LInv, [Next]_vars PROVE LInv'
  OBVIOUS
<1> USE DEF LInv
<1>1. WSInv'
  BY Implements, WSInvStep
<1>2. ListTypeOK' /\ HookOK' /\ RunOK' /\ FdsOK'
  BY ListTypeStep, HookStep, RunStep, FdsStep
<1>3. LogsHaveClients' /\ NoLostLogsWakeup'
  BY OwnersStep, LogsWakeupStep
<1>4. DeliversToOwner'
  BY <1>2, <1>3, DeliveryStep
<1> QED
  BY <1>1, <1>2, <1>3, <1>4

\* The inductive invariant holds in every reachable state.
THEOREM LInvariant == Spec => []LInv
BY LInvInit, LInvStep, PTL DEF Spec

\* LogServer implements WebSocketServer: every behaviour of it is one that the
\* base class allows, so all that is proved of the base class holds of it.
THEOREM LogServerIsAWebSocketServer == Spec => WSSpec
<1>1. Init => WSInit
  BY DEF Init
<1>2. LInv /\ [Next]_vars => [WSNext]_wsVars
  BY Implements DEF LInv
<1> QED
  BY <1>1, <1>2, LInvariant, PTL DEF Spec, WSSpec

\* Every reachable state has the types its variables declare.
THEOREM TypeCorrect == Spec => []TypeOK
<1>1. LInv => TypeOK
  BY DEF LInv, WSInv, ListTypeOK, AtLog, Busy, TypeOK
<1> QED
  BY <1>1, LInvariant, PTL

\* A log never outlives the client that asked for it.
THEOREM LogsGoWithTheirClients == Spec => []LogsHaveClients
<1>1. LInv => LogsHaveClients
  BY DEF LInv
<1> QED
  BY <1>1, LInvariant, PTL

\* A line is sent to the client that asked for its log, through an iterator
\* into the map that is valid, though clients_mutex is not held.
THEOREM LinesGoToTheirOwner == Spec => []DeliversToOwner
<1>1. LInv => DeliversToOwner
  BY DEF LInv
<1> QED
  BY <1>1, LInvariant, PTL

\* Run never sleeps while there are logs.
THEOREM LogsWakeupIsNotLost == Spec => []NoLostLogsWakeup
<1>1. LInv => NoLostLogsWakeup
  BY DEF LInv
<1> QED
  BY <1>1, LInvariant, PTL

\* No two logs ever read from one descriptor, nor from a client's socket.
THEOREM DescriptorsAreOwned == Spec => []LogsOwnDescriptors
<1>1. LInv => LogsOwnDescriptors
  BY DEF LInv, FdsOK, OpenLogs, LogsOwnDescriptors
<1> QED
  BY <1>1, LInvariant, PTL

\* What a client says or does ends no log of another client.
THEOREM ClientsEndTheirOwnLogs == Spec => OnlyOwnLogsEnd
<1>1. ASSUME LInv, [Next]_vars
      PROVE  [\A l \in logs \ logs' :
                desc[l].owner = cur \/ run_pc \in {"pass", "except"}]_vars
  <2>1. CASE Handlers
    <3>1. ASSUME NEW l \in logs \ logs' PROVE desc[l].owner = cur
      <4>1. cur \in clients /\ desc[l].client = id[cur]
        BY <1>1, <2>1, <3>1, HandlersList DEF LInv
      <4>2. desc[l].owner \in clients /\ desc[l].client = id[desc[l].owner]
        BY <1>1, <3>1 DEF LInv, LogsHaveClients
      <4> QED
        BY <1>1, <4>1, <4>2 DEF LInv, WSInv, IdsOK, UniqueIds
    <3> QED
      BY <3>1
  <2>2. CASE (\E l \in Log : ClientMissing(l)) \/ Exception
    BY <2>2 DEF ClientMissing, Exception
  <2>3. CASE ~Handlers /\ ~(\E l \in Log : ClientMissing(l)) /\ ~Exception
    <3>1. UNCHANGED logs
      BY <1>1, <2>3 DEF Next, vars, listVars, Run, RunSpuriousWakeup, SelectLogsInterrupted,
         SleepOnEmptyList, FillReadFds, SelectLogsReturns, SelectOnClosedFd, SelectLogsReady,
         SelectLogsTimeout, RelockLogs, Visit, ClientFound, EndLogsPass, GetNextLine, ReadLine,
         CloseFile, MakePipe, PipeFails, ForkFails, StartTail, TailFdopenFails, ReadTailFails,
         ReadClosed, UseClosedStream, InGetNextLine, StartSend, HangInSend, FinishSend,
         NoException, LineAppended, TailExits
    <3> QED
      BY <3>1
  <2> QED
    BY <2>1, <2>2, <2>3
<1>2. LInv /\ [Next]_vars => [\A l \in logs \ logs' :
                desc[l].owner = cur \/ run_pc \in {"pass", "except"}]_vars
  BY <1>1
<1> QED
  BY <1>2, LInvariant, PTL DEF Spec, OnlyOwnLogsEnd
=============================================================================

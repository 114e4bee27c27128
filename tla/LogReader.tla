----------------------------- MODULE LogReader -----------------------------
(***************************************************************************)
(* The lines of one log on their way from the file to the socket, as one   *)
(* LogDescription of log-server.cpp moves them: Run reads the file to its  *)
(* end, then starts tail -F -n 0 and reads its pipe.  select watches the   *)
(* descriptor, GetNextLine reads through stdio, one line for each visit,   *)
(* and fgets may take more lines than it returns into stdio's buffer.      *)
(*                                                                         *)
(* A line is its number in the file.  What select reported stays true until *)
(* Run comes to the log, so that a select and the visit it leads to are one *)
(* step here.  LogServer has what becomes of the list of logs.             *)
(***************************************************************************)
EXTENDS Integers, Sequences

CONSTANTS
  MaxLines,    \* bound: lines written to the file
  PipeLines    \* lines the pipe holds

VARIABLES
  written,     \* lines in the file
  phase,       \* what stream reads: "file", "opened" (a pipe, not read yet),
               \* "tail" (the pipe), or nothing: "closed"
  stream,      \* the lines in stdio's buffer
  tail,        \* the process: "none", "starting", "following", "dead"
  pipe,        \* the lines in its pipe
  taken,       \* lines the reader of the file, stream or tail, is past
  eof_at,      \* history: lines in the file when stream came to its end,
  tail_from,   \* and when tail went to its end
  sent         \* history: the lines given to Send

readerVars == <<written, phase, stream, tail, pipe, taken, eof_at, tail_from, sent>>

ReaderInit ==
  /\ written \in 0 .. MaxLines
  /\ phase = "file" /\ tail = "none"
  /\ stream = << >> /\ pipe = << >> /\ sent = << >>
  /\ taken = 0 /\ eof_at = 0 /\ tail_from = 0

-----------------------------------------------------------------------------
(* Around the server: who writes the log, and tail. *)

LineWritten ==
  /\ written < MaxLines
  /\ written' = written + 1
  /\ UNCHANGED <<phase, stream, tail, pipe, taken, eof_at, tail_from, sent>>

\* tail -n 0 begins with what is written after it has looked for the end.
TailStarts ==
  /\ tail = "starting"
  /\ tail' = "following"
  /\ taken' = written /\ tail_from' = written
  /\ UNCHANGED <<written, phase, stream, pipe, eof_at, sent>>

TailWrites ==
  /\ tail = "following"
  /\ taken < written
  /\ Len(pipe) < PipeLines
  /\ pipe' = Append(pipe, taken + 1)
  /\ taken' = taken + 1
  /\ UNCHANGED <<written, phase, stream, tail, eof_at, tail_from, sent>>

TailDies ==
  /\ tail \in {"starting", "following"}
  /\ tail' = "dead"
  /\ UNCHANGED <<written, phase, stream, pipe, taken, eof_at, tail_from, sent>>

-----------------------------------------------------------------------------
(* Run's visit to the log. *)

\* The variant: OpenTail leaves fd as it was.
FileOnly == phase = "file"

\* A regular file is always readable; a pipe is when it holds something or
\* nobody can write to it any more.  stdio's buffer does not count.
Readable == \/ phase = "file"
            \/ phase = "tail" /\ (pipe # << >> \/ tail = "dead")

\* The variant throws away what it has read ahead.
fgetsFirst(lines) == /\ sent' = Append(sent, Head(lines))
                     /\ stream' = << >>

\* fgets, when stdio's buffer is empty, reads lines into it and returns the first.
fgets(lines) == /\ sent' = Append(sent, Head(lines))
                /\ stream' = Tail(lines)

Buffered ==
  /\ stream # << >>
  /\ fgets(stream)
  /\ UNCHANGED <<written, phase, tail, pipe, taken, eof_at, tail_from>>

\* The variant reads a line that is not there.
FromFilePastEnd ==
  /\ phase = "file" /\ stream = << >>
  /\ \E k \in 1 .. (written - taken + 1) :
        /\ fgets([i \in 1 .. k |-> taken + i])
        /\ taken' = taken + k
  /\ UNCHANGED <<written, phase, tail, pipe, eof_at, tail_from>>

FromFile ==
  /\ phase = "file" /\ stream = << >>
  /\ \E k \in 1 .. (written - taken) :
        /\ fgets([i \in 1 .. k |-> taken + i])
        /\ taken' = taken + k
  /\ UNCHANGED <<written, phase, tail, pipe, eof_at, tail_from>>

\* The end of the file: OpenTail, which may fail.
OpenTail ==
  /\ phase = "file" /\ stream = << >> /\ taken = written
  /\ eof_at' = written
  /\ \/ phase' = "opened" /\ tail' = "starting"
     \/ phase' = "closed" /\ tail' = tail
  /\ UNCHANGED <<written, stream, pipe, taken, tail_from, sent>>

FromPipe ==
  /\ stream = << >> /\ pipe # << >>
  /\ \E k \in 1 .. Len(pipe) :
        /\ fgets(SubSeq(pipe, 1, k))
        /\ pipe' = SubSeq(pipe, k + 1, Len(pipe))
  /\ phase' = "tail"
  /\ UNCHANGED <<written, tail, taken, eof_at, tail_from>>

\* The fgets that follows OpenTail at once (log-server.cpp:154).
FirstFromPipe ==
  /\ phase = "opened"
  /\ \/ FromPipe
     \/ /\ pipe = << >>
        /\ phase' = "tail"
        /\ UNCHANGED <<written, stream, tail, pipe, taken, eof_at, tail_from, sent>>

\* The end of the pipe: Cleanup.
TailFails ==
  /\ phase = "tail" /\ stream = << >> /\ pipe = << >> /\ tail = "dead"
  /\ phase' = "closed"
  /\ UNCHANGED <<written, stream, tail, pipe, taken, eof_at, tail_from, sent>>

GetNextLine == \/ Buffered \/ FromFile \/ OpenTail \/ TailFails
               \/ phase = "tail" /\ FromPipe

Visit == Readable /\ GetNextLine

\* The client asks no more: Cleanup closes the stream and kills tail.
StopReadingLog ==
  /\ phase \in {"file", "tail"}
  /\ phase' = "closed"
  /\ tail' = IF tail = "none" THEN tail ELSE "dead"
  /\ UNCHANGED <<written, stream, pipe, taken, eof_at, tail_from, sent>>

TailProcess == TailStarts \/ TailWrites \/ TailDies
ServerStep == Visit \/ FirstFromPipe \/ StopReadingLog
ReaderNext == LineWritten \/ TailProcess \/ ServerStep

-----------------------------------------------------------------------------
ReaderTypeOK ==
  /\ written \in 0 .. MaxLines /\ taken \in 0 .. written
  /\ phase \in {"file", "opened", "tail", "closed"}
  /\ tail \in {"none", "starting", "following", "dead"}
  /\ stream \in Seq(Nat) /\ pipe \in Seq(Nat) /\ sent \in Seq(Nat)
  /\ eof_at \in 0 .. written /\ tail_from \in 0 .. written

\* The n-th line a client gets: the lines of the file up to the end stream
\* saw, then those after the end tail saw.
Due(n) == IF tail = "none" \/ n <= eof_at THEN n ELSE tail_from + (n - eof_at)

\* From the file to the socket no line is doubled, out of order or left out,
\* except those written after stream came to the end of the file and before
\* tail looked for it (log-server.cpp:147): they are never sent.  All that was
\* in the file is sent before anything tail finds.
OnlyTheGapIsLost == \A n \in DOMAIN sent : sent[n] = Due(n)
=============================================================================

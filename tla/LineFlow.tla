------------------------------ MODULE LineFlow ------------------------------
(***************************************************************************)
(* A line's whole way: from the file through Run (LogReader) into the      *)
(* connection, which keeps the order, and out of it into the page          *)
(* (LogView).                                                              *)
(***************************************************************************)
EXTENDS LogReader, LogView

ASSUME FlowAssumption ==
  /\ MaxLines \in Nat /\ PipeLines \in Nat \ {0} /\ MaxClicks \in Nat
  /\ entriesPerPage \in Nat \ {0}
  /\ Undated \subseteq Nat /\ Time \in [1 .. MaxLines -> Nat]

VARIABLE received   \* the messages the page has got

vars == <<written, phase, stream, tail, pipe, taken, eof_at, tail_from, sent,
          logEntries, currentPage, pagesCount, shown, sorting, bySorting, clicks,
          received>>

Init == ReaderInit /\ ViewInit /\ received = 0

\* workSocket.onmessage.
onmessage ==
  /\ received < Len(sent)
  /\ received' = received + 1
  /\ addEntry(sent[received + 1])
  /\ UNCHANGED readerVars

Server == ReaderNext /\ UNCHANGED <<viewVars, received>>
User == UserStep /\ UNCHANGED <<readerVars, received>>

Next == Server \/ User \/ onmessage

Spec == Init /\ [][Next]_vars

\* Run does not stop visiting readable logs, tail follows the file and the
\* browser runs its events.
FairSpec == /\ Spec
            /\ WF_vars((Visit \/ FirstFromPipe) /\ UNCHANGED <<viewVars, received>>)
            /\ WF_vars((TailStarts \/ TailWrites) /\ UNCHANGED <<viewVars, received>>)
            /\ WF_vars(onmessage)
-----------------------------------------------------------------------------
FlowTypeOK ==
  /\ ReaderTypeOK /\ ViewTypeOK
  /\ received \in 0 .. Len(sent)

\* No line stands twice in the page, and those that came unsorted stand in it
\* as they stand in the file, none before an earlier one, whatever was sorted
\* in, dropped or cleared between them (uiScript.js:84, 87).
PageKeepsFileOrder ==
  \A i, j \in DOMAIN logEntries : i < j =>
    /\ logEntries[i] # logEntries[j]
    /\ logEntries[i] \notin bySorting /\ logEntries[j] \notin bySorting =>
         logEntries[i] < logEntries[j]

\* "Use time sorting for old entryes." (IndexController.php:180): lines that came
\* while the box was checked are in the order of their times, of the two orders
\* the one or the other.
SortedByTime ==
  LET sorted == {i \in DOMAIN logEntries : logEntries[i] \in bySorting}
  IN  \/ \A i, j \in sorted : i < j => Time[logEntries[i]] <= Time[logEntries[j]]
      \/ \A i, j \in sorted : i < j => Time[logEntries[i]] >= Time[logEntries[j]]

Arrived(line) == \E n \in 1 .. received : sent[n] = line

\* Every line that is in the file while the server still reads it comes to the
\* page, unless the log is closed; one that waits in stdio's buffer, where
\* select does not see it (log-server.cpp:137), comes when tail writes another.
LinesArrive ==
  \A line \in 1 .. MaxLines :
    ( \/ phase = "file" /\ line <= written
      \/ pipe # << >> /\ \E n \in DOMAIN stream : stream[n] = line )
    ~> (Arrived(line) \/ phase = "closed")

\* "Log files are opened in such a way that the data in the panel are updated as
\* new records are added to these files" (descriprion.txt:19-20, in Russian): a
\* line written while the log is read comes to the page, if tail lives.
PanelUpdates ==
  \A line \in 1 .. MaxLines :
    (phase # "closed" /\ line <= written)
    ~> (Arrived(line) \/ phase = "closed" \/ tail = "dead")
=============================================================================

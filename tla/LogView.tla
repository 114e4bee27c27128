------------------------------ MODULE LogView ------------------------------
(***************************************************************************)
(* The page (htdocs/js/uiScript.js): the lines that came, in logEntries,   *)
(* of which one page is drawn; page 0 holds the end of logEntries.         *)
(*                                                                         *)
(* A line is a number.  shown keeps the order of logEntries, which         *)
(* goToPage draws from the last to the first.                              *)
(***************************************************************************)
EXTENDS Integers, Sequences

CONSTANTS
  entriesPerPage,
  Time,        \* what dateWorker makes of the time in a line
  Undated,     \* lines in which it finds none
  MaxClicks    \* bound: what the user does

VARIABLES
  logEntries,
  currentPage,
  pagesCount,  \* links to pages
  shown,       \* what is drawn in logList
  sorting,     \* the checkbox
  bySorting,   \* history: lines that came while it was checked
  clicks

viewVars == <<logEntries, currentPage, pagesCount, shown, sorting, bySorting, clicks>>

ViewInit ==
  /\ logEntries = << >> /\ shown = << >>
  /\ currentPage = 0 /\ pagesCount = 0
  /\ sorting \in BOOLEAN
  /\ bySorting = {}
  /\ clicks = 0

\* What goToPage draws.
Drawn(entries, pages, page) ==
  LET last  == (pages - page) * entriesPerPage
      first == (pages - page - 1) * entriesPerPage + 1
  IN  SubSeq(entries, IF first < 1 THEN 1 ELSE first,
                      IF last > Len(entries) THEN Len(entries) ELSE last)

\* findPlace looks for options in the list, which holds elements of another
\* kind: it finds none and returns the first place.
findPlace == 0

\* The variant does not look at the checkbox.
InsertedFirst(line) == <<line>> \o logEntries

Inserted(line) == IF sorting THEN <<line>> \o logEntries ELSE Append(logEntries, line)

\* The variant forgets page 0.
RedrawnOnlyAbove(pos) == sorting \/ pos < currentPage * entriesPerPage

Redrawn(pos) == \/ pos < (currentPage + 1) * entriesPerPage
                \/ currentPage = 0
                \/ sorting

\* The variant counts a page when it is full.
PagesWhenFull(entries) ==
  IF Len(entries) >= pagesCount * entriesPerPage THEN pagesCount + 1 ELSE pagesCount

Pages(entries) ==
  IF Len(entries) > pagesCount * entriesPerPage THEN pagesCount + 1 ELSE pagesCount

\* A line without a date, while sorting is checked, throws before it is kept.
addEntry(line) ==
  IF sorting /\ line \in Undated THEN UNCHANGED viewVars
  ELSE LET pos == IF sorting THEN findPlace ELSE Len(logEntries)
       IN  /\ logEntries' = Inserted(line)
           /\ shown' = IF Redrawn(pos) THEN Drawn(logEntries', pagesCount, currentPage)
                       ELSE shown
           /\ pagesCount' = Pages(logEntries')
           /\ bySorting' = IF sorting THEN bySorting \cup {line} ELSE bySorting
           /\ UNCHANGED <<currentPage, sorting, clicks>>

Click == clicks < MaxClicks /\ clicks' = clicks + 1

goToPage(page) ==
  /\ Click
  /\ shown' = Drawn(logEntries, pagesCount, page)
  /\ currentPage' = page
  /\ UNCHANGED <<logEntries, pagesCount, sorting, bySorting>>

\* The variant leaves the list as it is drawn.
clearEntries ==
  /\ Click
  /\ logEntries' = << >> /\ pagesCount' = 0
  /\ UNCHANGED <<shown, currentPage, sorting, bySorting>>

clearAll ==
  /\ Click
  /\ logEntries' = << >> /\ shown' = << >> /\ pagesCount' = 0
  /\ UNCHANGED <<currentPage, sorting, bySorting>>

clickSorting ==
  /\ Click
  /\ sorting' = ~ sorting
  /\ UNCHANGED <<logEntries, currentPage, pagesCount, shown, bySorting>>

UserStep == \/ \E page \in 0 .. (pagesCount - 1) : goToPage(page)
            \/ clearAll
            \/ clickSorting

-----------------------------------------------------------------------------
ViewTypeOK ==
  /\ logEntries \in Seq(Nat) /\ shown \in Seq(Nat)
  /\ currentPage \in Nat /\ pagesCount \in Nat /\ clicks \in Nat
  /\ sorting \in BOOLEAN
  /\ bySorting \subseteq Nat

\* There is a link for every page that has a line, and for no other, although
\* each line advances the count at most once (uiScript.js:93).
PagesCoverEntries ==
  IF logEntries = << >> THEN pagesCount = 0
  ELSE /\ (pagesCount - 1) * entriesPerPage < Len(logEntries)
       /\ Len(logEntries) <= pagesCount * entriesPerPage

\* Nothing stays drawn that is not in logEntries any more, no line is drawn
\* twice or out of order, and never more than a page, although most lines that
\* come while another page is open are not drawn (uiScript.js:89).
ShownIsPart ==
  /\ Len(shown) <= entriesPerPage
  /\ \E k \in 0 .. Len(logEntries) - Len(shown) :
        shown = SubSeq(logEntries, k + 1, k + Len(shown))

PageJustBegun == Len(logEntries) % entriesPerPage = 1 % entriesPerPage

\* Page 0 shows the last line, except right after the first line of a page,
\* which addEntry draws before it counts the page (uiScript.js:89-93).
NewestShown ==
  currentPage = 0 /\ logEntries # << >> /\ ~ PageJustBegun =>
    shown # << >> /\ shown[Len(shown)] = logEntries[Len(logEntries)]

\* clearAll leaves the current page as it was: the page stays empty while new
\* lines come, but not longer than until they reach it (uiScript.js:49-56).
PageIsFilled ==
  currentPage < pagesCount /\ ~ PageJustBegun => shown # << >>

=============================================================================

---------------------------- MODULE LogViewProofs ----------------------------
(***************************************************************************)
(* What the page shows, for every size of a page and every sequence of     *)
(* clicks and lines.  That the links are counted right (PagesOK) is part   *)
(* of the invariant of LineFlowProofs.                                     *)
(***************************************************************************)
EXTENDS LineFlowProofs

E == entriesPerPage

\* s stands in entries, one place after the other.
Part(s, entries) ==
  /\ Len(s) <= E
  /\ \E k \in 0 .. Len(entries) - Len(s) : \A i \in 1 .. Len(s) : s[i] = entries[k + i]

LEMMA PageSize == E \in Nat /\ E >= 1
BY FlowAssumption DEF E

\* The first and the last entry that goToPage draws.
First(pages, page) ==
  IF (pages - page - 1) * E + 1 < 1 THEN 1 ELSE (pages - page - 1) * E + 1
Last(entries, pages, page) ==
  IF (pages - page) * E > Len(entries) THEN Len(entries) ELSE (pages - page) * E

LEMMA DrawnFacts ==
  ASSUME NEW entries \in Seq(Nat), NEW pages \in Nat, NEW page \in Nat
  PROVE  /\ First(pages, page) \in Int /\ Last(entries, pages, page) \in Int
         /\ First(pages, page) >= 1 /\ Last(entries, pages, page) <= Len(entries)
         /\ Last(entries, pages, page) - First(pages, page) + 1 <= E
         /\ Drawn(entries, pages, page) \in Seq(Nat)
         /\ Len(Drawn(entries, pages, page)) =
              (IF First(pages, page) <= Last(entries, pages, page)
               THEN Last(entries, pages, page) - First(pages, page) + 1 ELSE 0)
         /\ \A i \in 1 .. Last(entries, pages, page) - First(pages, page) + 1 :
               Drawn(entries, pages, page)[i] = entries[First(pages, page) + i - 1]
<1> DEFINE x == (pages - page - 1) * E
           y == (pages - page) * E
           first == First(pages, page)
           last == Last(entries, pages, page)
           d == Drawn(entries, pages, page)
<1>1. x \in Int /\ y \in Int /\ y = x + E
  BY PageSize
<1>2. /\ first = (IF x + 1 < 1 THEN 1 ELSE x + 1)
      /\ last = (IF y > Len(entries) THEN Len(entries) ELSE y)
  BY DEF First, Last
<1>3. d = SubSeq(entries, first, last)
  BY DEF Drawn, First, Last, E
<1> HIDE DEF x, y, first, last, d
<1>4. /\ first \in Int /\ last \in Int /\ first >= 1 /\ last <= Len(entries)
      /\ last - first + 1 <= E
  BY <1>1, <1>2, PageSize
<1>5. \A i \in first .. last : entries[i] \in Nat
  BY <1>4
<1>6. /\ d \in Seq(Nat)
      /\ Len(d) = (IF first <= last THEN last - first + 1 ELSE 0)
      /\ \A i \in 1 .. last - first + 1 : d[i] = entries[first + i - 1]
  BY <1>3, <1>4, <1>5, SubSeqProperties
<1> QED BY <1>4, <1>6 DEF first, last, d

LEMMA DrawnIsPart ==
  ASSUME NEW entries \in Seq(Nat), NEW pages \in Nat, NEW page \in Nat
  PROVE  Part(Drawn(entries, pages, page), entries)
<1> DEFINE s == Drawn(entries, pages, page)
           first == First(pages, page)
           last == Last(entries, pages, page)
<1>1. /\ first \in Int /\ last \in Int /\ first >= 1 /\ last <= Len(entries)
      /\ last - first + 1 <= E
      /\ s \in Seq(Nat)
      /\ Len(s) = (IF first <= last THEN last - first + 1 ELSE 0)
      /\ \A i \in 1 .. last - first + 1 : s[i] = entries[first + i - 1]
  BY DrawnFacts
<1> HIDE DEF s, first, last
<1>2. CASE first <= last
  <2>1. first - 1 \in 0 .. Len(entries) - Len(s)
    BY <1>1, <1>2
  <2>2. \A i \in 1 .. Len(s) : (first - 1) + i = first + i - 1 /\ i \in 1 .. last - first + 1
    BY <1>1, <1>2
  <2>3. \A i \in 1 .. Len(s) : s[i] = entries[(first - 1) + i]
    BY <1>1, <2>2
  <2>4. Len(s) <= E
    BY <1>1, <1>2
  <2> QED BY <2>1, <2>3, <2>4 DEF Part, s
<1>3. CASE ~ (first <= last)
  <2>1. Len(s) = 0 /\ 0 \in 0 .. Len(entries) - Len(s) /\ Len(s) <= E
    BY <1>1, <1>3, PageSize
  <2>2. \A i \in 1 .. Len(s) : s[i] = entries[0 + i]
    BY <2>1
  <2> QED BY <2>1, <2>2 DEF Part, s
<1> QED BY <1>2, <1>3

\* A page that has a link, or whose first line is the one just kept, is not empty.
LEMMA DrawnNotEmpty ==
  ASSUME NEW entries \in Seq(Nat), NEW pages \in Nat, NEW page \in Nat,
         page < pages, (pages - 1) * E < Len(entries)
  PROVE  Drawn(entries, pages, page) # << >>
<1> DEFINE s == Drawn(entries, pages, page)
           x == (pages - page - 1) * E
           y == (pages - page) * E
           first == First(pages, page)
           last == Last(entries, pages, page)
<1>1. /\ first \in Int /\ last \in Int /\ first >= 1
      /\ Len(s) = (IF first <= last THEN last - first + 1 ELSE 0)
  BY DrawnFacts
<1>2. x \in Int /\ y \in Int /\ y = x + E /\ x >= 0
  BY PageSize
<1>3. x <= (pages - 1) * E /\ (pages - 1) * E \in Int
  BY PageSize
<1>0. /\ first = (IF x + 1 < 1 THEN 1 ELSE x + 1)
      /\ last = (IF y > Len(entries) THEN Len(entries) ELSE y)
  BY DEF First, Last
<1> HIDE DEF x, y, s, first, last
<1>4. first <= last
  BY <1>0, <1>2, <1>3, PageSize
<1>5. Len(s) # 0
  BY <1>1, <1>4
<1> QED BY <1>5 DEF s

\* Page 0 ends with the last line if the links are counted.
LEMMA DrawnNewest ==
  ASSUME NEW entries \in Seq(Nat), NEW pages \in Nat, pages > 0,
         NEW page, page = 0,
         (pages - 1) * E < Len(entries), Len(entries) <= pages * E
  PROVE  LET s == Drawn(entries, pages, page) IN s # << >> /\ s[Len(s)] = entries[Len(entries)]
<1> DEFINE s == Drawn(entries, pages, page)
           x == (pages - page - 1) * E
           y == (pages - page) * E
           first == First(pages, page)
           last == Last(entries, pages, page)
<1>1. /\ first \in Int /\ last \in Int /\ first >= 1
      /\ Len(s) = (IF first <= last THEN last - first + 1 ELSE 0)
      /\ \A i \in 1 .. last - first + 1 : s[i] = entries[first + i - 1]
  <2>1. page \in Nat
    OBVIOUS
  <2> QED BY <2>1, DrawnFacts
<1>2. x \in Int /\ y \in Int /\ x >= 0 /\ x < Len(entries) /\ Len(entries) <= y
  BY PageSize
<1>0. /\ first = (IF x + 1 < 1 THEN 1 ELSE x + 1)
      /\ last = (IF y > Len(entries) THEN Len(entries) ELSE y)
  BY DEF First, Last
<1> HIDE DEF x, y, s, first, last
<1>3. last = Len(entries) /\ first <= last
  BY <1>0, <1>2
<1>4. Len(s) = last - first + 1 /\ Len(s) \in 1 .. last - first + 1
      /\ first + Len(s) - 1 = Len(entries)
  BY <1>1, <1>3
<1>5. s[Len(s)] = entries[Len(entries)]
  BY <1>1, <1>4
<1>6. s # << >>
  BY <1>4
<1> QED BY <1>5, <1>6 DEF s

-----------------------------------------------------------------------------
(* The inductive invariant.  The page may lag only when its first line has  *)
(* just been kept; said without remainders.                                 *)

NewestDrawn ==
  currentPage = 0 /\ logEntries # << >> /\ Len(logEntries) # (pagesCount - 1) * E + 1 =>
    shown # << >> /\ shown[Len(shown)] = logEntries[Len(logEntries)]

PageDrawn ==
  E > 1 /\ currentPage < pagesCount /\ Len(logEntries) # currentPage * E + 1 =>
    shown # << >>

VInv == Part(shown, logEntries) /\ NewestDrawn /\ PageDrawn

LEMMA InitVInv == Init => VInv
<1> SUFFICES ASSUME Init PROVE VInv
  OBVIOUS
<1>1. logEntries = << >> /\ shown = << >> /\ pagesCount = 0 /\ currentPage = 0
  BY DEF Init, ViewInit
<1>2. Len(shown) = 0 /\ Len(logEntries) = 0
  BY <1>1
<1>3. Part(shown, logEntries)
  BY <1>2, PageSize DEF Part
<1> QED BY <1>1, <1>3 DEF VInv, NewestDrawn, PageDrawn

LEMMA StutterVInv == VInv /\ UNCHANGED viewVars => VInv'
BY DEF VInv, Part, NewestDrawn, PageDrawn, viewVars

LEMMA ViewTypes ==
  ASSUME FInv
  PROVE  /\ logEntries \in Seq(Nat) /\ shown \in Seq(Nat)
         /\ pagesCount \in Nat /\ currentPage \in Nat
         /\ Len(logEntries) \in Nat /\ Len(shown) \in Nat
         /\ Len(logEntries) <= pagesCount * E
         /\ pagesCount # 0 => (pagesCount - 1) * E < Len(logEntries)
BY DEF FInv, ViewTypeOK, PagesOK, E

LEMMA UserVInv == FInv /\ VInv /\ User => VInv'
<1> SUFFICES ASSUME FInv, VInv, User PROVE VInv'
  OBVIOUS
<1>1. CASE \E page \in 0 .. (pagesCount - 1) : goToPage(page)
  <2>1. PICK page \in 0 .. (pagesCount - 1) : goToPage(page)
    BY <1>1
  <2>2. /\ shown' = Drawn(logEntries, pagesCount, page) /\ currentPage' = page
        /\ logEntries' = logEntries /\ pagesCount' = pagesCount
    BY <2>1 DEF goToPage
  <2>3. page \in Nat /\ page < pagesCount /\ pagesCount > 0 /\ pagesCount # 0
    BY ViewTypes
  <2>4. Part(shown', logEntries')
    BY <2>2, <2>3, ViewTypes, DrawnIsPart
  <2>5. shown' # << >>
    BY <2>2, <2>3, ViewTypes, DrawnNotEmpty
  <2>6. NewestDrawn'
    <3>1. page = 0 => shown'[Len(shown')] = logEntries[Len(logEntries)]
      BY <2>2, <2>3, ViewTypes, DrawnNewest
    <3> QED BY <2>2, <2>5, <3>1 DEF NewestDrawn
  <2>7. PageDrawn'
    BY <2>5 DEF PageDrawn
  <2> QED BY <2>4, <2>6, <2>7 DEF VInv, Part
<1>2. CASE clearAll
  <2>1. /\ logEntries' = << >> /\ shown' = << >> /\ pagesCount' = 0
        /\ currentPage' = currentPage /\ currentPage \in Nat
    BY <1>2, ViewTypes DEF clearAll
  <2>2. Part(shown', logEntries')
    BY <2>1, PageSize DEF Part
  <2> QED BY <2>1, <2>2 DEF VInv, Part, NewestDrawn, PageDrawn
<1>3. CASE clickSorting
  BY <1>3 DEF clickSorting, VInv, Part, NewestDrawn, PageDrawn
<1> QED BY <1>1, <1>2, <1>3 DEF User, UserStep

LEMMA onmessageVInv == FInv /\ VInv /\ onmessage => VInv'
<1> SUFFICES ASSUME FInv, VInv, onmessage PROVE VInv'
  OBVIOUS
<1> DEFINE line == sent[received + 1]
           n == Len(logEntries)
<1>0. received < Len(sent) /\ addEntry(line) /\ line \in Nat
  BY NewLine DEF onmessage
<1> HIDE DEF line
<1>1. CASE sorting /\ line \in Undated
  BY <1>0, <1>1, StutterVInv DEF addEntry
<1>2. CASE ~ (sorting /\ line \in Undated)
  <2>1. /\ logEntries' = Inserted(line) /\ pagesCount' = Pages(logEntries')
        /\ currentPage' = currentPage
        /\ LET pos == IF sorting THEN findPlace ELSE n
           IN  shown' = IF Redrawn(pos) THEN Drawn(logEntries', pagesCount, currentPage)
                        ELSE shown
    BY <1>0, <1>2 DEF addEntry
  <2>2. logEntries' \in Seq(Nat) /\ Len(logEntries') = n + 1 /\ logEntries' # << >>
    <3>1. CASE sorting
      <4>1. logEntries' = <<line>> \o logEntries
        BY <2>1, <3>1 DEF Inserted
      <4> QED BY <4>1, <1>0, ViewTypes
    <3>2. CASE ~ sorting
      <4>1. logEntries' = Append(logEntries, line)
        BY <2>1, <3>2 DEF Inserted
      <4> QED BY <4>1, <1>0, ViewTypes
    <3> QED BY <3>1, <3>2
  <2>3. pagesCount' = IF n + 1 > pagesCount * E THEN pagesCount + 1 ELSE pagesCount
    BY <2>1, <2>2 DEF Pages, E
  <2>4. CASE shown' = Drawn(logEntries', pagesCount, currentPage)
    <3>1. Part(shown', logEntries')
      BY <2>2, <2>4, ViewTypes, DrawnIsPart
    <3>2. NewestDrawn'
      <4> SUFFICES ASSUME currentPage = 0, n + 1 # (pagesCount' - 1) * E + 1
                   PROVE  shown' # << >> /\ shown'[Len(shown')] = logEntries'[Len(logEntries')]
        BY <2>1, <2>2 DEF NewestDrawn
      <4>1. n + 1 <= pagesCount * E
        <5> SUFFICES ASSUME n + 1 > pagesCount * E PROVE FALSE
          BY ViewTypes, PageSize
        <5>1. pagesCount' - 1 = pagesCount /\ pagesCount * E \in Nat
          BY <2>3, ViewTypes, PageSize
        <5>2. n <= pagesCount * E /\ n \in Nat
          BY ViewTypes
        <5>3. n + 1 = pagesCount * E + 1
          BY <5>1, <5>2
        <5> QED BY <5>1, <5>3
      <4>2. pagesCount > 0
        BY <4>1, ViewTypes, PageSize
      <4>3. (pagesCount - 1) * E < n + 1
        BY <4>2, ViewTypes, PageSize
      <4> QED BY <4>1, <4>2, <4>3, <2>2, <2>4, ViewTypes, DrawnNewest
    <3>3. PageDrawn'
      <4> SUFFICES ASSUME currentPage < pagesCount', n + 1 # currentPage * E + 1
                   PROVE  shown' # << >>
        BY <2>1, <2>2 DEF PageDrawn
      <4>1. currentPage < pagesCount
        <5> SUFFICES ASSUME ~ (currentPage < pagesCount) PROVE FALSE
          OBVIOUS
        <5>1. /\ pagesCount' = pagesCount + 1 /\ n + 1 > pagesCount * E
              /\ currentPage = pagesCount
          BY <2>3, ViewTypes
        <5>2. n <= pagesCount * E /\ n \in Nat /\ pagesCount * E \in Nat
          BY ViewTypes, PageSize
        <5>3. n + 1 = pagesCount * E + 1
          BY <5>1, <5>2
        <5> QED BY <5>1, <5>3
      <4>2. (pagesCount - 1) * E < n + 1
        <5>1. pagesCount # 0
          BY <4>1, ViewTypes
        <5> QED BY <5>1, ViewTypes, PageSize
      <4> QED BY <4>1, <4>2, <2>2, <2>4, ViewTypes, DrawnNotEmpty
    <3> QED BY <3>1, <3>2, <3>3 DEF VInv, Part
  <2>5. CASE shown' # Drawn(logEntries', pagesCount, currentPage)
    <3>1. /\ shown' = shown /\ ~ sorting /\ currentPage # 0
          /\ ~ (n < (currentPage + 1) * E)
      BY <2>1, <2>5 DEF Redrawn, E
    <3>2. logEntries' = Append(logEntries, line)
      BY <2>1, <3>1 DEF Inserted
    <3>3. Part(shown', logEntries')
      <4>1. PICK k \in 0 .. n - Len(shown) :
                   \A i \in 1 .. Len(shown) : shown[i] = logEntries[k + i]
        BY DEF VInv, Part
      <4>2. k \in 0 .. (n + 1) - Len(shown)
        BY <4>1, ViewTypes
      <4>3. \A i \in 1 .. Len(shown) : k + i \in 1 .. n
        BY <4>1, ViewTypes
      <4>4. \A j \in 1 .. n : logEntries'[j] = logEntries[j]
        BY <3>2, ViewTypes
      <4>5. \A i \in 1 .. Len(shown) : shown[i] = logEntries'[k + i]
        BY <4>1, <4>3, <4>4
      <4>6. Len(shown) <= E
        BY DEF VInv, Part
      <4> QED BY <3>1, <2>2, <4>2, <4>5, <4>6 DEF Part
    <3>4. NewestDrawn'
      BY <2>1, <3>1 DEF NewestDrawn
    <3>5. PageDrawn'
      <4> SUFFICES ASSUME E > 1 PROVE shown # << >>
        BY <3>1 DEF PageDrawn, E
      <4>1. /\ currentPage * E \in Nat /\ (currentPage + 1) * E = currentPage * E + E
            /\ n \in Nat
        BY ViewTypes, PageSize
      <4>2. n # currentPage * E + 1
        BY <4>1, <3>1, PageSize
      <4>3. (currentPage + 1) * E <= pagesCount * E
        BY <4>1, <3>1, ViewTypes, PageSize
      <4>4. currentPage + 1 <= pagesCount
        <5>1. \A a, b \in Nat : a * E <= b * E => a <= b
          BY PageSize
        <5> QED BY <4>3, <5>1, ViewTypes
      <4> QED BY <4>2, <4>4, ViewTypes DEF VInv, PageDrawn
    <3> QED BY <3>3, <3>4, <3>5 DEF VInv, Part
  <2> QED BY <2>4, <2>5
<1> QED BY <1>1, <1>2

LEMMA NextVInv == FInv /\ VInv /\ [Next]_vars => VInv'
<1>1. Server \/ UNCHANGED vars => UNCHANGED viewVars
  BY DEF Server, vars, viewVars
<1> QED BY <1>1, StutterVInv, UserVInv, onmessageVInv DEF Next

LEMMA ViewInvariant == Spec => [](FInv /\ VInv)
<1>1. Init => FInv /\ VInv
  BY InitFInv, InitVInv
<1>2. (FInv /\ VInv) /\ [Next]_vars => (FInv /\ VInv)'
  BY NextFInv, NextVInv
<1> QED BY <1>1, <1>2, PTL DEF Spec

-----------------------------------------------------------------------------
(* The theorems. *)

\* One more than a number of full pages is where a page has just begun.
LEMMA FirstOfPage ==
  ASSUME NEW m \in Nat PROVE (m * E + 1) % E = 1 % E
<1> DEFINE a == m * E + 1
           q == a \div E
           q1 == 1 \div E
<1>1. a \in Nat /\ E \in Nat /\ E >= 1 /\ m * E \in Nat
  BY PageSize
<1>0. \A x \in Nat, d \in Nat \ {0} :
        x \div d \in Int /\ x = d * (x \div d) + (x % d) /\ x % d \in 0 .. d - 1
  OBVIOUS
<1>2. q \in Int /\ a = E * q + (a % E) /\ a % E \in 0 .. E - 1
  <2>1. E \in Nat \ {0}
    BY <1>1
  <2> HIDE DEF a
  <2> QED BY <1>0, <1>1, <2>1
<1>3. q1 \in Int /\ 1 = E * q1 + (1 % E) /\ 1 % E \in 0 .. E - 1
  <2>1. E \in Nat \ {0}
    BY <1>1
  <2> QED BY <1>0, <2>1
<1> HIDE DEF q, q1
<1>4. a = m * E + 1
  OBVIOUS
<1> HIDE DEF a
<1>5. \A u, v \in Int : E * (u - v) = E * u - E * v
  BY <1>1
<1>6. E * (q - m - q1) = (1 % E) - (a % E)
  <2>1. E * (q - m - q1) = E * (q - m) - E * q1 /\ E * (q - m) = E * q - E * m
    <3>1. q - m \in Int /\ m \in Int
      BY <1>2
    <3> QED BY <3>1, <1>2, <1>3, <1>5
  <2>2. E * m = m * E
    BY <1>1
  <2>3. /\ E * q \in Int /\ E * q1 \in Int /\ m * E \in Int
        /\ a % E \in Int /\ 1 % E \in Int
    BY <1>1, <1>2, <1>3
  <2>4. E * q = a - (a % E) /\ E * q1 = 1 - (1 % E)
    BY <1>1, <1>2, <1>3, <2>3
  <2> DEFINE aq == E * q
             b == E * q1
             c == m * E
             t == E * (q - m - q1)
             r == a % E
             r1 == 1 % E
  <2>5. /\ t = (aq - c) - b /\ aq = a - r /\ b = 1 - r1 /\ a = c + 1
        /\ aq \in Int /\ b \in Int /\ c \in Int /\ r \in Int /\ r1 \in Int
    BY <2>1, <2>2, <2>3, <2>4, <1>4
  <2> HIDE DEF aq, b, c, t, r, r1
  <2>6. t = r1 - r
    BY <2>5
  <2> QED BY <2>6 DEF t, r, r1
<1>7. \A d \in Int : E * d < E /\ E * d > 0 - E => d = 0
  BY <1>1
<1>8. q - m - q1 = 0
  BY <1>1, <1>2, <1>3, <1>6, <1>7
<1>9. 1 % E = a % E
  BY <1>1, <1>2, <1>3, <1>6, <1>8
<1> QED BY <1>9 DEF a

\* What is drawn is always a part of what is kept, no longer than a page,
\* however lines and clicks come (addEntry, goToPage, clearAll).
THEOREM ShownIsKept == Spec => []ShownIsPart
<1>1. FInv /\ VInv => ShownIsPart
  <2> SUFFICES ASSUME FInv, VInv PROVE ShownIsPart
    OBVIOUS
  <2>1. PICK k \in 0 .. Len(logEntries) - Len(shown) :
               \A i \in 1 .. Len(shown) : shown[i] = logEntries[k + i]
    BY DEF VInv, Part
  <2> DEFINE s == SubSeq(logEntries, k + 1, k + Len(shown))
             len == Len(shown)
  <2>2. /\ k \in Int /\ k >= 0 /\ len \in Nat /\ k + len <= Len(logEntries)
        /\ k + 1 \in Int /\ k + len \in Int /\ (k + len) - (k + 1) + 1 = len
    BY <2>1, ViewTypes
  <2>3. \A i \in (k + 1) .. (k + len) : logEntries[i] \in Nat
    BY <2>2, ViewTypes
  <2>4. /\ s \in Seq(Nat)
        /\ Len(s) = (IF k + 1 <= k + len THEN (k + len) - (k + 1) + 1 ELSE 0)
        /\ \A i \in 1 .. (k + len) - (k + 1) + 1 : s[i] = logEntries[(k + 1) + i - 1]
    BY <2>2, <2>3, SubSeqProperties
  <2> HIDE DEF s
  <2>5. Len(s) = len
    BY <2>2, <2>4
  <2>6. \A i \in 1 .. len : (k + 1) + i - 1 = k + i
    BY <2>2
  <2>7. \A i \in 1 .. len : s[i] = shown[i]
    BY <2>1, <2>2, <2>4, <2>6
  <2>8. s = shown
    BY <2>4, <2>5, <2>7, ViewTypes, SeqEqual
  <2>9. Len(shown) <= E
    BY DEF VInv, Part
  <2> QED BY <2>1, <2>8, <2>9 DEF ShownIsPart, s, E
<1> QED BY <1>1, ViewInvariant, PTL

\* Page 0 lags behind only at the first line of a page (uiScript.js:89-93).
THEOREM PageZeroShowsNewest == Spec => []NewestShown
<1>1. FInv /\ VInv => NewestShown
  <2> SUFFICES ASSUME FInv, VInv, currentPage = 0, logEntries # << >>, ~ PageJustBegun
               PROVE  shown # << >> /\ shown[Len(shown)] = logEntries[Len(logEntries)]
    BY DEF NewestShown
  <2>1. pagesCount # 0
    BY ViewTypes, PageSize
  <2>2. Len(logEntries) # (pagesCount - 1) * E + 1
    <3>1. pagesCount - 1 \in Nat
      BY <2>1, ViewTypes
    <3>2. ((pagesCount - 1) * E + 1) % E = 1 % E
      BY <3>1, FirstOfPage
    <3> QED BY <3>2 DEF PageJustBegun, E
  <2> QED BY <2>2 DEF VInv, NewestDrawn
<1> QED BY <1>1, ViewInvariant, PTL

\* A page that has a link is empty only right after the first line of a page,
\* though clearAll does not go back to page 0 (uiScript.js:49-56).
THEOREM LinkedPageIsFilled == Spec => []PageIsFilled
<1>1. FInv /\ VInv => PageIsFilled
  <2> SUFFICES ASSUME FInv, VInv, currentPage < pagesCount, ~ PageJustBegun
               PROVE  shown # << >>
    BY DEF PageIsFilled
  <2>1. Len(logEntries) # currentPage * E + 1
    <3>1. (currentPage * E + 1) % E = 1 % E
      BY ViewTypes, FirstOfPage
    <3> QED BY <3>1 DEF PageJustBegun, E
  <2>2. E > 1
    <3> SUFFICES ASSUME E = 1 PROVE FALSE
      BY PageSize
    <3>1. Len(logEntries) % 1 = 0 /\ 1 % 1 = 0
      BY ViewTypes
    <3> QED BY <3>1 DEF PageJustBegun, E
  <2> QED BY <2>1, <2>2 DEF VInv, PageDrawn
<1> QED BY <1>1, ViewInvariant, PTL
=============================================================================

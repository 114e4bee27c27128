--------------------------- MODULE LineFlowProofs ---------------------------
(***************************************************************************)
(* What holds of a line's way for any number of lines, any size of stdio's *)
(* reads and of the pipe, and any size of a page.                          *)
(***************************************************************************)
EXTENDS LineFlow, SequenceTheorems, TLAPS

(* The reader: how many lines have gone where, and which they are. *)

Count ==
  /\ tail = "none" => /\ Len(sent) + Len(stream) = taken
                      /\ pipe = << >> /\ phase \in {"file", "closed"}
  /\ tail # "none" => phase # "file" /\ eof_at <= Len(sent)
  /\ tail = "starting" => Len(sent) = eof_at /\ stream = << >> /\ pipe = << >>
  /\ tail = "following" =>
       /\ tail_from <= taken /\ eof_at <= tail_from
       /\ Len(sent) + Len(stream) + Len(pipe) = eof_at + (taken - tail_from)
  /\ tail = "dead" =>
       \/ eof_at <= tail_from
       \/ Len(sent) = eof_at /\ stream = << >> /\ pipe = << >>

InOrder ==
  /\ \A n \in DOMAIN sent : sent[n] = Due(n)
  /\ \A n \in DOMAIN stream : stream[n] = Due(Len(sent) + n)
  /\ \A n \in DOMAIN pipe : pipe[n] = Due(Len(sent) + Len(stream) + n)

RInv == ReaderTypeOK /\ Count /\ InOrder

LEMMA ReaderInitRInv == ReaderInit => RInv
BY FlowAssumption DEF ReaderInit, RInv, ReaderTypeOK, Count, InOrder

\* What fgets moves from the lines there are.
LEMMA FgetsMoves ==
  ASSUME NEW lines \in Seq(Nat), lines # << >>, sent \in Seq(Nat), fgets(lines)
  PROVE  /\ sent' \in Seq(Nat) /\ stream' \in Seq(Nat)
         /\ Len(sent') = Len(sent) + 1 /\ Len(stream') = Len(lines) - 1
         /\ \A n \in DOMAIN sent : sent'[n] = sent[n]
         /\ sent'[Len(sent) + 1] = lines[1]
         /\ \A n \in DOMAIN stream' : n + 1 \in DOMAIN lines /\ stream'[n] = lines[n + 1]
<1>1. sent' = Append(sent, lines[1]) /\ stream' = Tail(lines) /\ lines[1] \in Nat
  BY DEF fgets
<1>2. sent' \in Seq(Nat) /\ Len(sent') = Len(sent) + 1
      /\ (\A n \in DOMAIN sent : sent'[n] = sent[n]) /\ sent'[Len(sent) + 1] = lines[1]
  BY <1>1
<1>3. stream' \in Seq(Nat) /\ Len(stream') = Len(lines) - 1
      /\ \A n \in DOMAIN stream' : n + 1 \in DOMAIN lines /\ stream'[n] = lines[n + 1]
  BY <1>1
<1> QED BY <1>2, <1>3

\* When the lines are those due next, so are the lines sent and kept.
LEMMA FgetsInOrder ==
  ASSUME RInv, NEW lines \in Seq(Nat), lines # << >>, fgets(lines),
         \A n \in DOMAIN lines : lines[n] = Due(Len(sent) + n),
         UNCHANGED <<tail, eof_at, tail_from>>
  PROVE  /\ \A n \in DOMAIN sent' : sent'[n] = Due(n)'
         /\ \A n \in DOMAIN stream' : stream'[n] = Due(Len(sent) + n)'
<1>0. sent \in Seq(Nat) /\ Len(sent) \in Nat
  BY DEF RInv, ReaderTypeOK
<1>1. /\ sent' \in Seq(Nat) /\ stream' \in Seq(Nat)
      /\ Len(sent') = Len(sent) + 1 /\ Len(stream') = Len(lines) - 1
      /\ \A n \in DOMAIN sent : sent'[n] = sent[n]
      /\ sent'[Len(sent) + 1] = lines[1]
      /\ \A n \in DOMAIN stream' : n + 1 \in DOMAIN lines /\ stream'[n] = lines[n + 1]
  BY <1>0, FgetsMoves
<1>2. ASSUME NEW n PROVE Due(n)' = Due(n)
  BY DEF Due
<1>3. ASSUME NEW n \in DOMAIN sent' PROVE sent'[n] = Due(n)'
  <2>1. CASE n \in DOMAIN sent
    BY <2>1, <1>1, <1>2 DEF RInv, InOrder
  <2>2. CASE n = Len(sent) + 1
    <3>1. 1 \in DOMAIN lines
      OBVIOUS
    <3>2. lines[1] = Due(Len(sent) + 1)
      BY <3>1
    <3> QED BY <2>2, <3>2, <1>1, <1>2
  <2>3. DOMAIN sent' = 1 .. (Len(sent) + 1) /\ DOMAIN sent = 1 .. Len(sent)
    BY <1>0, <1>1
  <2> QED BY <1>0, <2>1, <2>2, <2>3
<1>4. ASSUME NEW n \in DOMAIN stream' PROVE stream'[n] = Due(Len(sent) + n)'
  <2>1. stream'[n] = Due(Len(sent) + (n + 1))
    BY <1>1
  <2>2. n \in Nat /\ Len(sent') + n = Len(sent) + (n + 1)
    <3>1. DOMAIN stream' = 1 .. Len(stream') /\ Len(stream') \in Nat
      BY <1>1
    <3>2. n \in Nat
      BY <3>1
    <3> QED BY <3>2, <1>0, <1>1
  <2> QED BY <2>1, <2>2 DEF Due
<1> QED BY <1>3, <1>4

\* The facts about the sequences that every step needs.
LEMMA Lengths ==
  ASSUME RInv
  PROVE  /\ sent \in Seq(Nat) /\ stream \in Seq(Nat) /\ pipe \in Seq(Nat)
         /\ Len(sent) \in Nat /\ Len(stream) \in Nat /\ Len(pipe) \in Nat
         /\ DOMAIN sent = 1 .. Len(sent) /\ DOMAIN stream = 1 .. Len(stream)
         /\ DOMAIN pipe = 1 .. Len(pipe)
         /\ written \in Nat /\ taken \in Nat /\ taken <= written
         /\ eof_at \in Nat /\ tail_from \in Nat
         /\ eof_at <= written /\ tail_from <= written
BY FlowAssumption DEF RInv, ReaderTypeOK

LEMMA WriteRInv == RInv /\ LineWritten => RInv'
<1> SUFFICES ASSUME RInv, LineWritten PROVE RInv'
  OBVIOUS
<1>1. ReaderTypeOK'
  BY FlowAssumption DEF RInv, ReaderTypeOK, LineWritten
<1>2. Count' /\ InOrder'
  BY DEF RInv, Count, InOrder, Due, LineWritten
<1> QED BY <1>1, <1>2 DEF RInv

LEMMA TailRInv == RInv /\ TailProcess => RInv'
<1> SUFFICES ASSUME RInv, TailProcess PROVE RInv'
  OBVIOUS
<1> USE Lengths
<1>1. CASE TailStarts
  <2>1. ReaderTypeOK'
    BY <1>1, FlowAssumption DEF RInv, ReaderTypeOK, TailStarts
  <2>2. Len(sent) = eof_at /\ stream = << >> /\ pipe = << >>
    BY <1>1 DEF RInv, Count, TailStarts
  <2>3. Count'
    BY <1>1, <2>2 DEF RInv, Count, TailStarts
  <2>4. InOrder'
    BY <1>1, <2>2 DEF RInv, InOrder, Due, TailStarts
  <2> QED BY <2>1, <2>3, <2>4 DEF RInv
<1>2. CASE TailWrites
  <2>1. /\ pipe' = Append(pipe, taken + 1) /\ taken' = taken + 1 /\ taken < written
        /\ tail = "following"
        /\ UNCHANGED <<written, phase, stream, tail, eof_at, tail_from, sent>>
    BY <1>2 DEF TailWrites
  <2>2. /\ pipe' \in Seq(Nat) /\ Len(pipe') = Len(pipe) + 1
        /\ DOMAIN pipe' = 1 .. (Len(pipe) + 1)
        /\ \A n \in 1 .. Len(pipe) : pipe'[n] = pipe[n]
        /\ pipe'[Len(pipe) + 1] = taken + 1
    BY <2>1
  <2>3. ReaderTypeOK'
    BY <2>1, <2>2 DEF RInv, ReaderTypeOK
  <2>4. /\ Len(sent) + Len(stream) + Len(pipe) = eof_at + (taken - tail_from)
        /\ tail_from <= taken /\ eof_at <= tail_from /\ eof_at <= Len(sent)
    BY <2>1 DEF RInv, Count
  <2>5. Count'
    BY <2>1, <2>2, <2>4 DEF RInv, Count
  <2>6. ASSUME NEW n \in DOMAIN pipe'
        PROVE  pipe'[n] = Due(Len(sent) + Len(stream) + n)
    <3>1. CASE n \in 1 .. Len(pipe)
      BY <3>1, <2>2 DEF RInv, InOrder
    <3>2. CASE n = Len(pipe) + 1
      <4>1. Len(sent) + Len(stream) + n = eof_at + (taken - tail_from) + 1
        BY <3>2, <2>4
      <4>2. Due(eof_at + (taken - tail_from) + 1) = taken + 1
        BY <2>1, <2>4 DEF Due
      <4> QED BY <3>2, <4>1, <4>2, <2>2
    <3> QED BY <2>2, <3>1, <3>2
  <2>7. InOrder'
    BY <2>1, <2>6 DEF RInv, InOrder, Due
  <2> QED BY <2>3, <2>5, <2>7 DEF RInv
<1>3. CASE TailDies
  BY <1>3 DEF TailDies, RInv, ReaderTypeOK, Count, InOrder, Due
<1> QED BY <1>1, <1>2, <1>3 DEF TailProcess

LEMMA BufferedRInv == RInv /\ Buffered => RInv'
<1> SUFFICES ASSUME RInv, Buffered PROVE RInv'
  OBVIOUS
<1>0. fgets(stream) /\ stream # << >>
      /\ UNCHANGED <<written, phase, tail, pipe, taken, eof_at, tail_from>>
  BY DEF Buffered
<1>1. /\ sent' \in Seq(Nat) /\ stream' \in Seq(Nat)
      /\ Len(sent') = Len(sent) + 1 /\ Len(stream') = Len(stream) - 1
  BY <1>0, Lengths, FgetsMoves
<1>2. ReaderTypeOK'
  BY <1>0, <1>1 DEF RInv, ReaderTypeOK
<1>3. Count'
  BY <1>0, <1>1, Lengths DEF RInv, Count
<1>4. InOrder'
  <2>1. \A n \in DOMAIN stream : stream[n] = Due(Len(sent) + n)
    BY DEF RInv, InOrder
  <2>2. /\ \A n \in DOMAIN sent' : sent'[n] = Due(n)'
        /\ \A n \in DOMAIN stream' : stream'[n] = Due(Len(sent) + n)'
    BY <1>0, <2>1, Lengths, FgetsInOrder
  <2>3. Len(sent') + Len(stream') = Len(sent) + Len(stream)
    BY <1>1, Lengths
  <2>4. \A n \in DOMAIN pipe' : pipe'[n] = Due(Len(sent) + Len(stream) + n)'
    BY <1>0, <2>3 DEF RInv, InOrder, Due
  <2> QED BY <2>2, <2>4 DEF InOrder
<1> QED BY <1>2, <1>3, <1>4 DEF RInv

LEMMA FromFileRInv == RInv /\ FromFile => RInv'
<1> SUFFICES ASSUME RInv, FromFile PROVE RInv'
  OBVIOUS
<1>0. /\ phase = "file" /\ stream = << >>
      /\ UNCHANGED <<written, phase, tail, pipe, eof_at, tail_from>>
  BY DEF FromFile
<1>1. PICK k \in 1 .. (written - taken) :
        fgets([i \in 1 .. k |-> taken + i]) /\ taken' = taken + k
  BY DEF FromFile
<1> DEFINE lines == [i \in 1 .. k |-> taken + i]
<1>2. lines \in Seq(Nat) /\ Len(lines) = k /\ lines # << >> /\ DOMAIN lines = 1 .. k
  <2>1. k \in Nat /\ 1 \in 1 .. k
    BY Lengths
  <2>2. lines \in [1 .. k -> Nat]
    BY <2>1, Lengths
  <2>3. lines \in Seq(Nat)
    BY <2>1, <2>2, SeqDef
  <2>4. Len(lines) \in Nat /\ DOMAIN lines = 1 .. Len(lines) /\ DOMAIN lines = 1 .. k
    BY <2>2, <2>3, LenProperties
  <2> HIDE DEF lines
  <2>5. Len(lines) = k
    <3>1. \A a, b \in Nat : 1 .. a = 1 .. b => a = b
      <4> SUFFICES ASSUME NEW a \in Nat, NEW b \in Nat, 1 .. a = 1 .. b PROVE a = b
        OBVIOUS
      <4>1. \A i \in Nat : (1 <= i /\ i <= a) <=> (1 <= i /\ i <= b)
        <5>1. \A i \in Nat : (i \in 1 .. a) <=> (i \in 1 .. b)
          OBVIOUS
        <5> QED BY <5>1
      <4> QED BY <4>1
    <3> QED BY <2>1, <2>4, <3>1
  <2> QED BY <2>1, <2>3, <2>4, <2>5
<1>3. tail = "none" /\ pipe = << >> /\ Len(sent) = taken
  BY <1>0 DEF RInv, Count
<1>4. \A n \in DOMAIN lines : lines[n] = Due(Len(sent) + n)
  BY <1>2, <1>3 DEF Due
<1>5. fgets(lines)
  BY <1>1
<1> HIDE DEF lines
<1>6. /\ sent' \in Seq(Nat) /\ stream' \in Seq(Nat)
      /\ Len(sent') = Len(sent) + 1 /\ Len(stream') = k - 1
  BY <1>2, <1>5, Lengths, FgetsMoves
<1>7. ReaderTypeOK'
  BY <1>0, <1>1, <1>6, Lengths DEF RInv, ReaderTypeOK
<1>8. Count'
  BY <1>0, <1>1, <1>3, <1>6, Lengths DEF RInv, Count
<1>9. InOrder'
  <2>1. /\ \A n \in DOMAIN sent' : sent'[n] = Due(n)'
        /\ \A n \in DOMAIN stream' : stream'[n] = Due(Len(sent) + n)'
    BY <1>0, <1>2, <1>4, <1>5, FgetsInOrder
  <2>2. \A n \in DOMAIN pipe' : pipe'[n] = Due(Len(sent) + Len(stream) + n)'
    BY <1>0, <1>3
  <2> QED BY <2>1, <2>2 DEF InOrder
<1> QED BY <1>7, <1>8, <1>9 DEF RInv

LEMMA OpenTailRInv == RInv /\ OpenTail => RInv'
<1> SUFFICES ASSUME RInv, OpenTail PROVE RInv'
  OBVIOUS
<1>0. /\ phase = "file" /\ stream = << >> /\ taken = written /\ eof_at' = written
      /\ \/ phase' = "opened" /\ tail' = "starting"
         \/ phase' = "closed" /\ tail' = tail
      /\ UNCHANGED <<written, stream, pipe, taken, tail_from, sent>>
  BY DEF OpenTail
<1>1. tail = "none" /\ pipe = << >> /\ Len(sent) = written
  BY <1>0 DEF RInv, Count
<1>2. ReaderTypeOK'
  BY <1>0, Lengths DEF RInv, ReaderTypeOK
<1>3. Count'
  BY <1>0, <1>1, Lengths DEF RInv, Count
<1>4. InOrder'
  BY <1>0, <1>1, Lengths DEF RInv, InOrder, Due
<1> QED BY <1>2, <1>3, <1>4 DEF RInv

LEMMA PipeCut ==
  ASSUME NEW s \in Seq(Nat), NEW k \in 1 .. Len(s)
  PROVE  /\ SubSeq(s, 1, k) \in Seq(Nat) /\ Len(SubSeq(s, 1, k)) = k
         /\ SubSeq(s, 1, k) # << >> /\ DOMAIN SubSeq(s, 1, k) = 1 .. k
         /\ \A n \in 1 .. k : SubSeq(s, 1, k)[n] = s[n]
         /\ SubSeq(s, k + 1, Len(s)) \in Seq(Nat)
         /\ Len(SubSeq(s, k + 1, Len(s))) = Len(s) - k
         /\ DOMAIN SubSeq(s, k + 1, Len(s)) = 1 .. (Len(s) - k)
         /\ \A n \in 1 .. (Len(s) - k) :
               k + n \in 1 .. Len(s) /\ SubSeq(s, k + 1, Len(s))[n] = s[k + n]
<1>1. Len(s) \in Nat /\ k \in Nat /\ k >= 1 /\ k <= Len(s)
      /\ \A i \in 1 .. Len(s) : s[i] \in Nat
  OBVIOUS
<1> DEFINE a == SubSeq(s, 1, k)
           b == SubSeq(s, k + 1, Len(s))
<1>2. a \in Seq(Nat) /\ Len(a) = k /\ \A n \in 1 .. k : a[n] = s[n]
  BY <1>1, SubSeqProperties
<1>3. /\ b \in Seq(Nat) /\ Len(b) = Len(s) - k
      /\ \A n \in 1 .. (Len(s) - k) : b[n] = s[k + n]
  BY <1>1, SubSeqProperties
<1> HIDE DEF a, b
<1>4. DOMAIN a = 1 .. k /\ DOMAIN b = 1 .. (Len(s) - k) /\ a # << >>
  BY <1>1, <1>2, <1>3
<1>5. \A n \in 1 .. (Len(s) - k) : k + n \in 1 .. Len(s)
  BY <1>1
<1> QED BY <1>2, <1>3, <1>4, <1>5 DEF a, b

LEMMA FromPipeRInv == RInv /\ phase \in {"opened", "tail"} /\ FromPipe => RInv'
<1> SUFFICES ASSUME RInv, phase \in {"opened", "tail"}, FromPipe PROVE RInv'
  OBVIOUS
<1>0. /\ stream = << >> /\ pipe # << >> /\ phase' = "tail"
      /\ UNCHANGED <<written, tail, taken, eof_at, tail_from>>
  BY DEF FromPipe
<1>1. PICK k \in 1 .. Len(pipe) :
        fgets(SubSeq(pipe, 1, k)) /\ pipe' = SubSeq(pipe, k + 1, Len(pipe))
  BY DEF FromPipe
<1> DEFINE lines == SubSeq(pipe, 1, k)
<1>2. /\ lines \in Seq(Nat) /\ Len(lines) = k /\ lines # << >> /\ DOMAIN lines = 1 .. k
      /\ \A n \in 1 .. k : lines[n] = pipe[n]
  <2>1. pipe \in Seq(Nat) /\ k \in 1 .. Len(pipe)
    BY Lengths
  <2> HIDE DEF lines
  <2> QED BY <2>1, PipeCut DEF lines
<1>3. /\ pipe' \in Seq(Nat) /\ Len(pipe') = Len(pipe) - k
      /\ DOMAIN pipe' = 1 .. (Len(pipe) - k)
      /\ \A n \in 1 .. (Len(pipe) - k) : k + n \in 1 .. Len(pipe) /\ pipe'[n] = pipe[k + n]
  BY <1>1, Lengths, PipeCut
<1>4. Len(stream) = 0 /\ k \in Nat /\ k >= 1 /\ k <= Len(pipe)
  BY <1>0, Lengths
<1>5. fgets(lines)
  BY <1>1
<1> HIDE DEF lines
<1>6. /\ sent' \in Seq(Nat) /\ stream' \in Seq(Nat)
      /\ Len(sent') = Len(sent) + 1 /\ Len(stream') = k - 1
  BY <1>2, <1>5, Lengths, FgetsMoves
<1>7. ReaderTypeOK'
  BY <1>0, <1>3, <1>6, Lengths DEF RInv, ReaderTypeOK
<1>8. Count'
  <2>1. tail # "none" /\ tail # "starting"
    BY <1>0 DEF RInv, Count
  <2>2. Len(sent') + Len(stream') + Len(pipe') = Len(sent) + Len(stream) + Len(pipe)
    BY <1>3, <1>4, <1>6, Lengths
  <2>3. eof_at <= Len(sent')
    BY <1>6, <2>1, Lengths DEF RInv, Count
  <2>4. tail = "dead" => eof_at <= tail_from
    BY <1>0 DEF RInv, Count
  <2> QED BY <1>0, <2>1, <2>2, <2>3, <2>4 DEF RInv, Count
<1>9. InOrder'
  <2>1. \A n \in DOMAIN lines : lines[n] = Due(Len(sent) + n)
    <3>1. \A n \in 1 .. Len(pipe) : pipe[n] = Due(Len(sent) + Len(stream) + n)
      BY Lengths DEF RInv, InOrder
    <3>2. Len(sent) + Len(stream) = Len(sent)
      BY <1>4, Lengths
    <3> QED BY <3>1, <3>2, <1>2, <1>4, Lengths
  <2>2. /\ \A n \in DOMAIN sent' : sent'[n] = Due(n)'
        /\ \A n \in DOMAIN stream' : stream'[n] = Due(Len(sent) + n)'
    BY <1>0, <1>2, <1>5, <2>1, FgetsInOrder
  <2>3. ASSUME NEW n \in DOMAIN pipe'
        PROVE  pipe'[n] = Due(Len(sent) + Len(stream) + n)'
    <3>1. n \in Nat /\ k + n \in DOMAIN pipe /\ pipe'[n] = pipe[k + n]
      <4>1. n \in 1 .. (Len(pipe) - k)
        BY <1>3
      <4>2. n \in Nat
        BY <4>1
      <4> QED BY <4>1, <4>2, <1>3, Lengths
    <3>2. pipe[k + n] = Due(Len(sent) + Len(stream) + (k + n))
      BY <3>1 DEF RInv, InOrder
    <3>3. Len(sent') + Len(stream') + n = Len(sent) + Len(stream) + (k + n)
      BY <3>1, <1>4, <1>6, Lengths
    <3> QED BY <3>1, <3>2, <3>3, <1>0 DEF Due
  <2> QED BY <2>2, <2>3 DEF InOrder
<1> QED BY <1>7, <1>8, <1>9 DEF RInv

\* The steps that move no line.
LEMMA ClosesRInv ==
  ASSUME RInv, phase # "file" \/ phase' = "closed", phase' \in {"tail", "closed"},
         tail' = tail \/ (tail # "none" /\ tail' = "dead"), phase' = "tail" => tail # "none",
         UNCHANGED <<written, stream, pipe, taken, eof_at, tail_from, sent>>
  PROVE  RInv'
<1>1. ReaderTypeOK'
  BY DEF RInv, ReaderTypeOK
<1>2. Count'
  <2>1. CASE tail = "none"
    BY <2>1 DEF RInv, Count
  <2>2. CASE tail # "none" /\ tail' = tail
    BY <2>2 DEF RInv, Count
  <2>3. CASE tail # "none" /\ tail' = "dead"
    <3>1. tail \in {"starting", "following", "dead"}
      BY <2>3 DEF RInv, ReaderTypeOK
    <3> QED BY <2>3, <3>1 DEF RInv, Count
  <2> QED BY <2>1, <2>2, <2>3
<1>3. InOrder'
  BY DEF RInv, InOrder, Due
<1> QED BY <1>1, <1>2, <1>3 DEF RInv

LEMMA ServerRInv == RInv /\ ServerStep => RInv'
<1> SUFFICES ASSUME RInv, ServerStep PROVE RInv'
  OBVIOUS
<1>1. CASE Visit
  <2>1. CASE TailFails
    BY <2>1, ClosesRInv DEF TailFails
  <2>2. CASE phase = "tail" /\ FromPipe
    BY <2>2, FromPipeRInv
  <2> QED BY <1>1, <2>1, <2>2, BufferedRInv, FromFileRInv, OpenTailRInv DEF Visit, GetNextLine
<1>2. CASE FirstFromPipe
  <2>1. CASE FromPipe
    BY <1>2, <2>1, FromPipeRInv DEF FirstFromPipe
  <2>2. CASE ~ FromPipe
    BY <1>2, <2>2, ClosesRInv DEF FirstFromPipe, RInv, Count
  <2> QED BY <2>1, <2>2
<1>3. CASE StopReadingLog
  BY <1>3, ClosesRInv DEF StopReadingLog, RInv, ReaderTypeOK
<1> QED BY <1>1, <1>2, <1>3 DEF ServerStep

LEMMA ReaderNextRInv == RInv /\ ReaderNext => RInv'
BY WriteRInv, TailRInv, ServerRInv DEF ReaderNext

LEMMA ReaderStutters == RInv /\ UNCHANGED readerVars => RInv'
BY DEF readerVars, RInv, ReaderTypeOK, Count, InOrder, Due

\* What has been sent stays as it is.
LEMMA SentGrows ==
  ASSUME RInv, ReaderNext
  PROVE  \A n \in 1 .. Len(sent) : n \in 1 .. Len(sent') /\ sent'[n] = sent[n]
<1>1. sent \in Seq(Nat) /\ Len(sent) \in Nat
  BY Lengths
<1>2. sent' = sent \/ \E line : sent' = Append(sent, line)
  BY DEF ReaderNext, LineWritten, TailProcess, TailStarts, TailWrites, TailDies, ServerStep,
       Visit, GetNextLine, Buffered, FromFile, OpenTail, FromPipe, FirstFromPipe, TailFails,
       StopReadingLog, fgets
<1> QED BY <1>1, <1>2

\* The lines sent are in the order they have in the file.
LEMMA SentIncreases ==
  ASSUME RInv
  PROVE  \A i, j \in 1 .. Len(sent) : i < j => sent[i] < sent[j]
<1> SUFFICES ASSUME NEW i \in 1 .. Len(sent), NEW j \in 1 .. Len(sent), i < j
             PROVE  sent[i] < sent[j]
  OBVIOUS
<1>1. sent[i] = Due(i) /\ sent[j] = Due(j) /\ i \in Nat /\ j \in Nat
  BY Lengths DEF RInv, InOrder
<1>2. eof_at \in Nat /\ tail_from \in Nat
  BY Lengths
<1>3. tail = "none" \/ Len(sent) = eof_at \/ eof_at <= tail_from
  <2>1. tail \in {"none", "starting", "following", "dead"}
    BY DEF RInv, ReaderTypeOK
  <2> QED BY <2>1 DEF RInv, Count
<1>4. CASE tail = "none" \/ j <= eof_at
  BY <1>1, <1>2, <1>4 DEF Due
<1>5. CASE tail # "none" /\ j > eof_at
  <2>1. eof_at <= tail_from
    <3>1. j \in Nat /\ j <= Len(sent) /\ Len(sent) \in Nat
      BY Lengths
    <3>2. Len(sent) # eof_at
      BY <3>1, <1>2, <1>5
    <3> QED BY <3>2, <1>3, <1>5
  <2> QED BY <1>1, <1>2, <1>5, <2>1 DEF Due
<1> QED BY <1>1, <1>2, <1>4, <1>5

-----------------------------------------------------------------------------
(* The page. *)

Kept == /\ received \in 0 .. Len(sent)
        /\ \A i \in DOMAIN logEntries : \E n \in 1 .. received : logEntries[i] = sent[n]
        /\ \A line \in bySorting : \E n \in 1 .. received : line = sent[n]

PagesOK == /\ pagesCount \in Nat /\ logEntries \in Seq(Nat)
           /\ Len(logEntries) <= pagesCount * entriesPerPage
           /\ pagesCount # 0 => (pagesCount - 1) * entriesPerPage < Len(logEntries)

\* Sorted lines stand at the front, the last that came first.
LinesInOrder ==
  \A i, j \in DOMAIN logEntries : i < j =>
    \/ logEntries[i] \in bySorting /\ logEntries[j] \notin bySorting
    \/ logEntries[i] \in bySorting /\ logEntries[j] \in bySorting
         /\ logEntries[i] > logEntries[j]
    \/ logEntries[i] \notin bySorting /\ logEntries[j] \notin bySorting
         /\ logEntries[i] < logEntries[j]

FInv == /\ RInv /\ ViewTypeOK /\ Kept /\ PagesOK /\ LinesInOrder

LEMMA InitFInv == Init => FInv
<1> SUFFICES ASSUME Init PROVE FInv
  OBVIOUS
<1>1. RInv
  BY ReaderInitRInv DEF Init
<1>2. sent = << >> /\ received = 0 /\ ViewInit
  BY DEF Init, ReaderInit
<1>3. logEntries = << >> /\ shown = << >> /\ currentPage = 0 /\ pagesCount = 0
      /\ sorting \in BOOLEAN /\ bySorting = {} /\ clicks = 0
  BY <1>2 DEF ViewInit
<1>4. ViewTypeOK /\ Kept /\ LinesInOrder
  BY <1>2, <1>3 DEF ViewTypeOK, Kept, LinesInOrder
<1>5. PagesOK
  BY <1>3, FlowAssumption DEF PagesOK
<1> QED BY <1>1, <1>4, <1>5 DEF FInv

LEMMA DrawnType ==
  ASSUME NEW entries \in Seq(Nat), NEW pages \in Nat, NEW page \in Nat
  PROVE  Drawn(entries, pages, page) \in Seq(Nat)
<1> DEFINE last  == (pages - page) * entriesPerPage
           first == (pages - page - 1) * entriesPerPage + 1
           a == IF first < 1 THEN 1 ELSE first
           b == IF last > Len(entries) THEN Len(entries) ELSE last
<1>1. first \in Int /\ last \in Int
  BY FlowAssumption
<1> HIDE DEF first, last
<1>2. a \in Int /\ b \in Int /\ \A i \in a .. b : entries[i] \in Nat
  BY <1>1
<1> HIDE DEF a, b
<1>3. SubSeq(entries, a, b) \in Seq(Nat)
  BY <1>2, SubSeqProperties
<1> QED BY <1>3 DEF Drawn, a, b, first, last

LEMMA ServerFInv == FInv /\ Server => FInv'
<1> SUFFICES ASSUME FInv, Server PROVE FInv'
  OBVIOUS
<1>1. RInv' /\ UNCHANGED <<viewVars, received>>
  BY ReaderNextRInv DEF FInv, Server
<1>2. \A n \in 1 .. Len(sent) : n \in 1 .. Len(sent') /\ sent'[n] = sent[n]
  BY SentGrows DEF FInv, Server
<1>3. Len(sent) \in Nat /\ Len(sent') \in Nat
  BY <1>1, Lengths DEF FInv, RInv, ReaderTypeOK
<1>4. received \in 0 .. Len(sent')
  BY <1>2, <1>3 DEF FInv, Kept
<1>5. Kept'
  <2>1. \A n \in 1 .. received : n \in 1 .. Len(sent)
    BY <1>3 DEF FInv, Kept
  <2> QED BY <1>1, <1>2, <1>4, <2>1 DEF FInv, Kept, viewVars
<1>6. ViewTypeOK' /\ PagesOK' /\ LinesInOrder'
  BY <1>1 DEF FInv, ViewTypeOK, PagesOK, LinesInOrder, viewVars
<1> QED BY <1>1, <1>5, <1>6 DEF FInv

LEMMA UserFInv == FInv /\ User => FInv'
<1> SUFFICES ASSUME FInv, User PROVE FInv'
  OBVIOUS
<1>1. RInv' /\ UNCHANGED <<sent, received>>
  BY ReaderStutters DEF FInv, User, readerVars
<1>2. CASE \E page \in 0 .. (pagesCount - 1) : goToPage(page)
  <2>1. PICK page \in 0 .. (pagesCount - 1) : goToPage(page)
    BY <1>2
  <2>2. page \in Nat /\ pagesCount \in Nat /\ logEntries \in Seq(Nat)
    BY DEF FInv, ViewTypeOK
  <2>3. shown' \in Seq(Nat)
    BY <2>1, <2>2, DrawnType DEF goToPage
  <2>4. ViewTypeOK'
    BY <2>1, <2>2, <2>3 DEF goToPage, Click, FInv, ViewTypeOK
  <2>5. Kept' /\ PagesOK' /\ LinesInOrder'
    BY <1>1, <2>1 DEF goToPage, FInv, Kept, PagesOK, LinesInOrder
  <2> QED BY <1>1, <2>4, <2>5 DEF FInv
<1>3. CASE clearAll
  <2>1. ViewTypeOK' /\ Kept' /\ LinesInOrder'
    BY <1>1, <1>3 DEF clearAll, Click, FInv, ViewTypeOK, Kept, LinesInOrder
  <2>2. PagesOK'
    BY <1>3, FlowAssumption DEF clearAll, PagesOK
  <2> QED BY <1>1, <2>1, <2>2 DEF FInv
<1>4. CASE clickSorting
  BY <1>1, <1>4 DEF clickSorting, Click, FInv, ViewTypeOK, Kept, PagesOK, LinesInOrder
<1> QED BY <1>2, <1>3, <1>4 DEF User, UserStep

\* The line that comes is later in the file than any that has come.
LEMMA NewLine ==
  ASSUME FInv, received < Len(sent)
  PROVE  /\ received \in Nat /\ received + 1 \in 1 .. Len(sent)
         /\ sent[received + 1] \in Nat
         /\ \A n \in 1 .. received : sent[n] < sent[received + 1]
         /\ \A i \in DOMAIN logEntries : logEntries[i] < sent[received + 1]
         /\ \A old \in bySorting : old < sent[received + 1]
<1>1. /\ received \in Nat /\ received + 1 \in 1 .. Len(sent)
      /\ sent[received + 1] \in Nat
      /\ \A n \in 1 .. received : n \in 1 .. Len(sent) /\ n < received + 1
  BY Lengths DEF FInv, Kept
<1>2. \A n \in 1 .. received : sent[n] < sent[received + 1]
  BY <1>1, SentIncreases DEF FInv
<1> QED BY <1>1, <1>2 DEF FInv, Kept

LEMMA onmessageFInv == FInv /\ onmessage => FInv'
<1> SUFFICES ASSUME FInv, onmessage PROVE FInv'
  OBVIOUS
<1> DEFINE line == sent[received + 1]
           E == entriesPerPage
<1>0. /\ received < Len(sent) /\ received' = received + 1 /\ addEntry(line)
      /\ UNCHANGED readerVars
  BY DEF onmessage
<1>1. RInv' /\ sent' = sent
  BY <1>0, ReaderStutters DEF FInv, readerVars
<1>2. /\ received \in Nat /\ received + 1 \in 1 .. Len(sent) /\ line \in Nat
      /\ \A i \in DOMAIN logEntries : logEntries[i] < line
      /\ \A old \in bySorting : old < line
  BY <1>0, NewLine
<1>3. /\ \A n \in 1 .. received : n \in 1 .. (received + 1)
      /\ received + 1 \in 1 .. (received + 1)
  BY <1>2
<1>4. /\ logEntries \in Seq(Nat) /\ Len(logEntries) \in Nat
      /\ DOMAIN logEntries = 1 .. Len(logEntries)
      /\ pagesCount \in Nat /\ currentPage \in Nat /\ bySorting \subseteq Nat
  BY DEF FInv, ViewTypeOK
<1> HIDE DEF line
<1>5. CASE sorting /\ line \in Undated
  <2>1. UNCHANGED viewVars
    BY <1>0, <1>5 DEF addEntry
  <2>2. Kept'
    BY <2>1, <1>0, <1>1, <1>2, <1>3 DEF FInv, Kept, viewVars
  <2>3. ViewTypeOK' /\ PagesOK' /\ LinesInOrder'
    BY <2>1 DEF FInv, ViewTypeOK, PagesOK, LinesInOrder, viewVars
  <2> QED BY <1>1, <2>2, <2>3 DEF FInv
<1>6. CASE ~ (sorting /\ line \in Undated)
  <2> DEFINE n == Len(logEntries)
  <2>1. /\ logEntries' = Inserted(line)
        /\ pagesCount' = Pages(logEntries')
        /\ bySorting' = IF sorting THEN bySorting \cup {line} ELSE bySorting
        /\ UNCHANGED <<currentPage, sorting, clicks>>
        /\ shown' = shown \/ shown' = Drawn(logEntries', pagesCount, currentPage)
    BY <1>0, <1>6 DEF addEntry
  <2>2. logEntries' \in Seq(Nat) /\ Len(logEntries') = n + 1
        /\ DOMAIN logEntries' = 1 .. (n + 1)
    BY <2>1, <1>2, <1>4 DEF Inserted
  <2>3. ViewTypeOK'
    <3>1. shown' \in Seq(Nat)
      BY <2>1, <2>2, <1>4, DrawnType DEF FInv, ViewTypeOK
    <3>2. pagesCount' \in Nat
      BY <2>1, <1>4 DEF Pages
    <3> QED BY <2>1, <2>2, <3>1, <3>2, <1>2 DEF FInv, ViewTypeOK
  <2>4. PagesOK'
    <3>1. E \in Nat /\ E >= 1
      BY FlowAssumption
    <3>2. n <= pagesCount * E /\ (pagesCount # 0 => (pagesCount - 1) * E < n)
      BY DEF FInv, PagesOK
    <3>3. pagesCount' = IF n + 1 > pagesCount * E THEN pagesCount + 1 ELSE pagesCount
      BY <2>1, <2>2 DEF Pages
    <3>4. pagesCount * E \in Nat /\ (pagesCount + 1) * E = pagesCount * E + E
      BY <3>1, <1>4
    <3>5. CASE n + 1 > pagesCount * E
      <4>1. pagesCount' = pagesCount + 1 /\ pagesCount' - 1 = pagesCount
        BY <3>3, <3>5, <1>4
      <4>2. n + 1 <= pagesCount * E + E /\ pagesCount * E < n + 1
        BY <3>1, <3>2, <3>4, <3>5, <1>4
      <4> QED BY <4>1, <4>2, <3>4, <2>2, <1>4 DEF PagesOK
    <3>6. CASE ~ (n + 1 > pagesCount * E)
      <4>1. pagesCount' = pagesCount
        BY <3>3, <3>6
      <4>2. n + 1 <= pagesCount * E
        BY <3>4, <3>6, <1>4
      <4>3. pagesCount # 0 => (pagesCount - 1) * E < n + 1
        BY <3>1, <3>2, <1>4
      <4> QED BY <4>1, <4>2, <4>3, <2>2, <1>4 DEF PagesOK
    <3> QED BY <3>5, <3>6
  <2>5. CASE sorting
    <3>1. logEntries'[1] = line /\ \A i \in 1 .. n : logEntries'[i + 1] = logEntries[i]
      BY <2>1, <2>5, <1>2, <1>4 DEF Inserted
    <3>2. ASSUME NEW i \in 1 .. (n + 1), i # 1
          PROVE  i - 1 \in 1 .. n /\ logEntries'[i] = logEntries[i - 1]
      <4>1. i - 1 \in 1 .. n /\ (i - 1) + 1 = i
        BY <3>2, <1>4
      <4> QED BY <3>1, <4>1
    <3>3. Kept'
      <4>1. ASSUME NEW i \in DOMAIN logEntries'
            PROVE  \E m \in 1 .. (received + 1) : logEntries'[i] = sent[m]
        <5>1. CASE i = 1
          BY <5>1, <3>1, <1>3 DEF line
        <5>2. CASE i # 1
          <6>1. i - 1 \in DOMAIN logEntries /\ logEntries'[i] = logEntries[i - 1]
            BY <5>2, <3>2, <2>2, <1>4
          <6>2. \E m \in 1 .. received : logEntries[i - 1] = sent[m]
            BY <6>1 DEF FInv, Kept
          <6> QED BY <6>1, <6>2, <1>3
        <5> QED BY <5>1, <5>2
      <4>2. ASSUME NEW old \in bySorting'
            PROVE  \E m \in 1 .. (received + 1) : old = sent[m]
        BY <2>1, <1>3 DEF line, FInv, Kept
      <4>3. received' \in 0 .. Len(sent')
        BY <1>0, <1>1, <1>2
      <4> QED BY <4>1, <4>2, <4>3, <1>0, <1>1 DEF Kept
    <3>4. LinesInOrder'
      <4> SUFFICES ASSUME NEW i \in 1 .. (n + 1), NEW j \in 1 .. (n + 1), i < j
                   PROVE  \/ logEntries'[i] \in bySorting' /\ logEntries'[j] \notin bySorting'
                          \/ /\ logEntries'[i] \in bySorting' /\ logEntries'[j] \in bySorting'
                             /\ logEntries'[i] > logEntries'[j]
                          \/ /\ logEntries'[i] \notin bySorting' /\ logEntries'[j] \notin bySorting'
                             /\ logEntries'[i] < logEntries'[j]
        BY <2>2 DEF LinesInOrder
      <4>1. j # 1 /\ j - 1 \in 1 .. n /\ logEntries'[j] = logEntries[j - 1]
        BY <3>2, <1>4
      <4>2. logEntries[j - 1] < line /\ logEntries[j - 1] \in Nat
        <5>1. j - 1 \in DOMAIN logEntries
          BY <4>1, <1>4
        <5>2. logEntries[j - 1] < line
          BY <5>1, <1>2
        <5>3. logEntries[j - 1] \in Nat
          BY <4>1, <1>4
        <5> QED BY <5>2, <5>3
      <4>3. bySorting' = bySorting \cup {line}
        BY <2>1, <2>5
      <4>4. CASE i = 1
        BY <4>1, <4>2, <4>3, <4>4, <3>1, <1>2
      <4>5. CASE i # 1
        <5>1. i - 1 \in 1 .. n /\ logEntries'[i] = logEntries[i - 1] /\ i - 1 < j - 1
          BY <4>5, <3>2, <1>4
        <5>2. logEntries[i - 1] < line /\ logEntries[i - 1] \in Nat
          BY <5>1, <1>2, <1>4
        <5>3. \/ logEntries[i - 1] \in bySorting /\ logEntries[j - 1] \notin bySorting
              \/ /\ logEntries[i - 1] \in bySorting /\ logEntries[j - 1] \in bySorting
                 /\ logEntries[i - 1] > logEntries[j - 1]
              \/ /\ logEntries[i - 1] \notin bySorting /\ logEntries[j - 1] \notin bySorting
                 /\ logEntries[i - 1] < logEntries[j - 1]
          BY <4>1, <5>1, <1>4 DEF FInv, LinesInOrder
        <5>4. logEntries[i - 1] # line /\ logEntries[j - 1] # line
          BY <4>2, <5>2, <1>2
        <5> QED BY <4>1, <4>3, <5>1, <5>3, <5>4
      <4> QED BY <4>4, <4>5
    <3> QED BY <1>1, <2>3, <2>4, <3>3, <3>4 DEF FInv
  <2>6. CASE ~ sorting
    <3>1. logEntries'[n + 1] = line /\ \A i \in 1 .. n : logEntries'[i] = logEntries[i]
      BY <2>1, <2>6, <1>2, <1>4 DEF Inserted
    <3>2. bySorting' = bySorting /\ line \notin bySorting
      BY <2>1, <2>6, <1>2, <1>4
    <3>3. Kept'
      <4>1. ASSUME NEW i \in DOMAIN logEntries'
            PROVE  \E m \in 1 .. (received + 1) : logEntries'[i] = sent[m]
        <5>1. i = n + 1 \/ i \in 1 .. n
          BY <2>2, <1>4
        <5> QED BY <5>1, <3>1, <1>3, <1>4 DEF line, FInv, Kept
      <4>2. ASSUME NEW old \in bySorting'
            PROVE  \E m \in 1 .. (received + 1) : old = sent[m]
        BY <3>2, <1>3 DEF FInv, Kept
      <4>3. received' \in 0 .. Len(sent')
        BY <1>0, <1>1, <1>2
      <4> QED BY <4>1, <4>2, <4>3, <1>0, <1>1 DEF Kept
    <3>4. LinesInOrder'
      <4> SUFFICES ASSUME NEW i \in 1 .. (n + 1), NEW j \in 1 .. (n + 1), i < j
                   PROVE  \/ logEntries'[i] \in bySorting' /\ logEntries'[j] \notin bySorting'
                          \/ /\ logEntries'[i] \in bySorting' /\ logEntries'[j] \in bySorting'
                             /\ logEntries'[i] > logEntries'[j]
                          \/ /\ logEntries'[i] \notin bySorting' /\ logEntries'[j] \notin bySorting'
                             /\ logEntries'[i] < logEntries'[j]
        BY <2>2 DEF LinesInOrder
      <4>1. i \in 1 .. n /\ logEntries'[i] = logEntries[i] /\ logEntries[i] < line
        BY <3>1, <1>2, <1>4
      <4>2. CASE j = n + 1
        BY <4>1, <4>2, <3>1, <3>2
      <4>3. CASE j # n + 1
        <5>1. j \in 1 .. n /\ logEntries'[j] = logEntries[j]
          BY <4>3, <3>1, <1>4
        <5>2. \/ logEntries[i] \in bySorting /\ logEntries[j] \notin bySorting
              \/ /\ logEntries[i] \in bySorting /\ logEntries[j] \in bySorting
                 /\ logEntries[i] > logEntries[j]
              \/ /\ logEntries[i] \notin bySorting /\ logEntries[j] \notin bySorting
                 /\ logEntries[i] < logEntries[j]
          BY <4>1, <5>1, <1>4 DEF FInv, LinesInOrder
        <5> QED BY <4>1, <5>1, <5>2, <3>2
      <4> QED BY <4>2, <4>3
    <3> QED BY <1>1, <2>3, <2>4, <3>3, <3>4 DEF FInv
  <2> QED BY <2>5, <2>6
<1> QED BY <1>5, <1>6

-----------------------------------------------------------------------------
(* The theorems. *)

LEMMA NextFInv == FInv /\ [Next]_vars => FInv'
<1>1. ASSUME FInv, UNCHANGED vars PROVE FInv'
  <2>1. RInv'
    BY <1>1, ReaderStutters DEF FInv, vars, readerVars
  <2> QED BY <1>1, <2>1 DEF FInv, vars, ViewTypeOK, Kept, PagesOK, LinesInOrder
<1> QED BY <1>1, ServerFInv, UserFInv, onmessageFInv DEF Next

\* The inductive invariant of a line's way from the file to the page.
THEOREM FlowInvariant == Spec => []FInv
<1> QED BY InitFInv, NextFInv, PTL DEF Spec

\* The types of the reader, the page and what is between them.
THEOREM FlowTypeCorrect == Spec => []FlowTypeOK
<1>1. FInv => FlowTypeOK
  BY DEF FInv, RInv, Kept, FlowTypeOK
<1> QED BY <1>1, FlowInvariant, PTL

\* However stdio fills its buffer and however tail runs, a client gets the lines
\* of the file in order and once, all but those of the gap (GetNextLine).
THEOREM ReaderLosesOnlyTheGap == Spec => []OnlyTheGapIsLost
<1>1. FInv => OnlyTheGapIsLost
  BY DEF FInv, RInv, InOrder, OnlyTheGapIsLost
<1> QED BY <1>1, FlowInvariant, PTL

\* The links of the page lead to all its lines, for every size of a page
\* (EntryWorker.addEntry, Reaction.clearAll).
THEOREM PagesAreCounted == Spec => []PagesCoverEntries
<1>1. FInv => PagesCoverEntries
  <2> SUFFICES ASSUME FInv PROVE PagesCoverEntries
    OBVIOUS
  <2>0. pagesCount \in Nat /\ entriesPerPage \in Nat /\ logEntries \in Seq(Nat)
    BY FlowAssumption DEF FInv, PagesOK
  <2>1. CASE logEntries = << >>
    <3>1. pagesCount # 0 => (pagesCount - 1) * entriesPerPage >= 0
      BY <2>0
    <3> QED BY <2>0, <2>1, <3>1 DEF FInv, PagesOK, PagesCoverEntries
  <2>2. CASE logEntries # << >>
    <3>1. Len(logEntries) > 0 /\ 0 * entriesPerPage = 0
      BY <2>0, <2>2
    <3> QED BY <2>0, <2>2, <3>1 DEF FInv, PagesOK, PagesCoverEntries
  <2> QED BY <2>1, <2>2
<1> QED BY <1>1, FlowInvariant, PTL

\* From the file to the page unsorted lines keep the order of the file, and no
\* line is doubled.
THEOREM PageOrder == Spec => []PageKeepsFileOrder
<1>1. FInv => PageKeepsFileOrder
  <2> SUFFICES ASSUME FInv, NEW i \in DOMAIN logEntries, NEW j \in DOMAIN logEntries, i < j
               PROVE  /\ logEntries[i] # logEntries[j]
                      /\ logEntries[i] \notin bySorting /\ logEntries[j] \notin bySorting =>
                           logEntries[i] < logEntries[j]
    BY DEF PageKeepsFileOrder
  <2>1. logEntries[i] \in Nat /\ logEntries[j] \in Nat
    BY DEF FInv, ViewTypeOK
  <2>2. \/ logEntries[i] \in bySorting /\ logEntries[j] \notin bySorting
        \/ logEntries[i] > logEntries[j] /\ logEntries[i] \in bySorting
        \/ logEntries[i] < logEntries[j]
    BY DEF FInv, LinesInOrder
  <2> QED BY <2>1, <2>2
<1> QED BY <1>1, FlowInvariant, PTL
=============================================================================

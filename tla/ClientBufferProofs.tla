------------------------- MODULE ClientBufferProofs -------------------------
(***************************************************************************)
(* What holds of the codec for every length, and of a connection for every *)
(* stream of frames, every cut of it into records and every size of the    *)
(* buffers.                                                                *)
(***************************************************************************)
EXTENDS ClientBuffer, TLAPS

(* The codec. *)

LEMMA LengthTypes ==
  ASSUME NEW len \in Nat
  PROVE  /\ ExtraBytes(len) \in {0, 2, 8}
         /\ HeaderSize(len) \in 6 .. 14
         /\ FrameSize(len) \in Nat /\ FrameSize(len) = HeaderSize(len) + len
         /\ PayloadLength(len) \in Nat
<1>1. ExtraBytes(len) \in {0, 2, 8} /\ HeaderSize(len) \in 6 .. 14
  BY DEF ExtraBytes, HeaderSize
<1>2. FrameSize(len) \in Nat /\ FrameSize(len) = HeaderSize(len) + len
  BY <1>1 DEF FrameSize
<1>3. PayloadLength(len) \in Nat
  BY DEF PayloadLength, Swapped16, Beyond
<1> QED BY <1>1, <1>2, <1>3

\* The server reads the length of a browser's frame as it was written exactly
\* when it has at most 125 bytes or the two bytes of its length are equal
\* (getPayloadLength, websocket.c:259-263, has no ntohs).
THEOREM LengthsReadRight ==
  \A len \in 0 .. 65535 : ReadRight(len) <=> (len <= 125 \/ len % 256 = len \div 256)
BY DEF ReadRight, PayloadLength, Swapped16

\* In the other direction no length goes wrong: wsMakeFrame leaves lengths of
\* 2^16 and more in host order, but with a send_buf of less than 2^16 bytes
\* (SEND_BUF_LEN is 16000, client.h) it makes no such frame.
THEOREM MadeFramesAreInNetworkOrder ==
  \A dataLength \in Nat, outLength \in 0 .. 65535 :
     wsMakeFrame(dataLength, outLength) # NoFrame =>
       /\ wsMakeFrame(dataLength, outLength).order = "network"
       /\ wsMakeFrame(dataLength, outLength).size <= outLength
BY DEF wsMakeFrame, NoFrame

\* What each result of the parser says about the bytes there are.
LEMMA ParsedFacts ==
  ASSUME NEW t \in FrameType, NEW data \in Nat, NEW extra \in {0, 2, 8}, NEW n \in Nat
  PROVE  LET p == Parsed(t, data, extra, n)
         IN  /\ p.dataLength \in Nat /\ p.frameLength \in Nat
             /\ p.type = "incomplete" => n < data + 6 + extra
             /\ p.type = "text" =>
                  t = "text" /\ p.dataLength = data /\ p.frameLength = data + 6 + extra
             /\ p.frameLength > n => n < 6 + extra
<1> DEFINE p == Parsed(t, data, extra, n)
<1>1. CASE p = Incomplete /\ n < data + 6 + extra
  BY <1>1 DEF Incomplete
<1>2. CASE p = Malformed
  BY <1>2 DEF Malformed
<1>3. CASE p = Complete(t, data, extra) /\ ~ PayloadMissing(data, extra, n)
  <2>1. p.type = t /\ p.dataLength = data /\ p.frameLength = data + 6 + extra
    BY <1>3 DEF Complete
  <2>2. t # "incomplete"
    BY DEF FrameType
  <2>3. p.frameLength > n => n < 6 + extra
    BY <2>1, <1>3 DEF PayloadMissing
  <2> QED BY <2>1, <2>2, <2>3
<1>4. \/ p = Incomplete /\ n < data + 6 + extra
      \/ p = Malformed
      \/ p = Complete(t, data, extra) /\ ~ PayloadMissing(data, extra, n)
  BY DEF Parsed, LengthMissing, PayloadMissing
<1> QED BY <1>1, <1>2, <1>3, <1>4

LEMMA ParseFacts ==
  ASSUME NEW f, f.type \in FrameType, f.len \in Nat, NEW n \in Nat,
         NEW p, p = wsParseInputFrame(f, n)
  PROVE  /\ p.dataLength \in Nat /\ p.frameLength \in Nat
         /\ p.type = "incomplete" /\ ReadRight(f.len) => n < FrameSize(f.len)
         /\ p.type = "text" =>
              /\ f.type = "text"
              /\ p.dataLength = PayloadLength(f.len)
              /\ p.frameLength = p.dataLength + HeaderSize(f.len)
         /\ p.frameLength > n => n < HeaderSize(f.len)
<1> DEFINE data == PayloadLength(f.len)
           extra == ExtraBytes(f.len)
<1>0. extra \in {0, 2, 8} /\ data \in Nat
  BY LengthTypes
<1>1. /\ HeaderSize(f.len) = 6 + extra
      /\ FrameSize(f.len) = HeaderSize(f.len) + f.len
  BY LengthTypes DEF HeaderSize
<1>2. p = Parsed(f.type, data, extra, n)
  BY DEF wsParseInputFrame
<1>3. ReadRight(f.len) => data = f.len
  BY DEF ReadRight
<1> HIDE DEF data, extra
<1>4. /\ p.dataLength \in Nat /\ p.frameLength \in Nat
      /\ p.type = "incomplete" => n < data + 6 + extra
      /\ p.type = "text" =>
           f.type = "text" /\ p.dataLength = data /\ p.frameLength = data + 6 + extra
      /\ p.frameLength > n => n < 6 + extra
  BY <1>0, <1>2, ParsedFacts
<1>5. p.type = "text" => p.frameLength = p.dataLength + HeaderSize(f.len)
  BY <1>0, <1>1, <1>4
<1>6. p.type = "incomplete" /\ ReadRight(f.len) => n < FrameSize(f.len)
  BY <1>0, <1>1, <1>3, <1>4
<1>7. p.frameLength > n => n < HeaderSize(f.len)
  BY <1>1, <1>4
<1> QED BY <1>4, <1>5, <1>6, <1>7 DEF data

-----------------------------------------------------------------------------
(* The inductive invariant: frames follow each other without gaps, and what *)
(* has been parsed ends where the next frame starts, unless it is garbled.  *)

StartOf(i) == IF i \in DOMAIN frames THEN frames[i].start ELSE wire

Contiguous ==
  /\ StartOf(1) = request.len
  /\ \A i \in DOMAIN frames :
        frames[i].start + FrameSize(frames[i].len) = StartOf(i + 1)

RecordsOK == \A i \in DOMAIN records : records[i] \in 0 .. sealed

InSync ==
  /\ ~ garbled => Len(delivered) <= Len(frames)
  /\ ~ handshaked => parsed = 0 /\ delivered = << >> /\ ~ garbled
  /\ Open /\ handshaked /\ ~ garbled => parsed = StartOf(Next1)
  /\ Open /\ ~ handshaked => read - parsed < request.len

BInv == /\ TypeOK /\ Contiguous /\ RecordsOK /\ InSync
        /\ RoomToRead /\ NothingStranded /\ DiesOnlyInHeader

LEMMA Sizes == BUF_LEN \in Nat /\ MSG_LEN \in Nat /\ MSG_LEN > 0 /\ MSG_LEN + 14 <= BUF_LEN
BY BufferAssumption

LEMMA Lens == ASSUME NEW n \in Lengths PROVE n \in Nat
BY PeerAssumption

LEMMA RequestLength == ASSUME NEW r \in Requests PROVE r.len \in Nat \ {0}
BY PeerAssumption DEF Request

LEMMA InitBInv == Init => BInv
<1> SUFFICES ASSUME Init PROVE BInv
  OBVIOUS
<1>0. request \in Requests /\ request.len \in Nat \ {0}
  BY RequestLength DEF Init
<1>1. TypeOK
  <2>1. frames \in Seq(Frame) /\ records \in Seq(Nat)
        /\ delivered \in Seq([type : FrameType, len : Nat, start : Nat])
    BY DEF Init
  <2>2. /\ wire \in Nat /\ sealed \in 0 .. wire /\ decrypted \in 0 .. sealed
        /\ read \in 0 .. decrypted /\ parsed \in 0 .. read
    BY <1>0 DEF Init
  <2> QED BY <1>0, <2>1, <2>2 DEF Init, TypeOK
<1>2. Contiguous /\ RecordsOK /\ InSync
  BY <1>0 DEF Init, Contiguous, RecordsOK, InSync, StartOf
<1>3. RoomToRead /\ NothingStranded /\ DiesOnlyInHeader
  BY <1>0, BufferAssumption DEF Init, RoomToRead, NothingStranded, DiesOnlyInHeader,
       FrontSize
<1> QED BY <1>1, <1>2, <1>3 DEF BInv

-----------------------------------------------------------------------------
(* The peer. *)

LEMMA FramesTyped ==
  ASSUME TypeOK, NEW i \in DOMAIN frames
  PROVE  /\ frames[i] \in Frame
         /\ frames[i].len \in Nat /\ frames[i].start \in Nat /\ frames[i].type \in FrameType
         /\ frames[i] = [type |-> frames[i].type, len |-> frames[i].len,
                         start |-> frames[i].start]
         /\ HeaderSize(frames[i].len) \in 6 .. 14
         /\ FrameSize(frames[i].len) \in Nat
         /\ FrameSize(frames[i].len) = HeaderSize(frames[i].len) + frames[i].len
<1>1. frames[i] \in Frame
  BY DEF TypeOK
<1>2. frames[i].type \in Types /\ frames[i].len \in Lengths /\ frames[i].start \in Nat
  BY <1>1 DEF Frame
<1>3. frames[i].len \in Nat /\ frames[i].type \in FrameType
  <2>1. frames[i].len \in Nat
    BY <1>2, Lens
  <2>2. frames[i].type \in FrameType
    BY <1>2, PeerAssumption
  <2> QED BY <2>1, <2>2
<1>4. frames[i] = [type |-> frames[i].type, len |-> frames[i].len, start |-> frames[i].start]
  <2>1. \A r \in Frame : r = [type |-> r.type, len |-> r.len, start |-> r.start]
    BY DEF Frame
  <2> QED BY <2>1, <1>1
<1> QED BY <1>1, <1>2, <1>3, <1>4, LengthTypes

LEMMA SendsBInv == BInv /\ Open /\ PeerSends => BInv'
<1> SUFFICES ASSUME BInv, Open, PeerSends PROVE BInv'
  OBVIOUS
<1> USE DEF peerVars, bufVars
<1>1. PICK t \in Types, n \in Lengths :
        /\ frames' = Append(frames, [type |-> t, len |-> n, start |-> wire])
        /\ wire' = wire + FrameSize(n)
  BY DEF PeerSends
<1>2. UNCHANGED <<request, sealed, records, fin, bufVars>>
  BY DEF PeerSends
<1>3. n \in Nat /\ FrameSize(n) \in Nat /\ FrameSize(n) >= 6
  <2>1. n \in Nat
    BY Lens
  <2> QED BY <2>1, LengthTypes
<1> DEFINE f == [type |-> t, len |-> n, start |-> wire]
           k == Len(frames)
<1>4. /\ TypeOK /\ frames \in Seq(Frame) /\ wire \in Nat /\ k \in Nat
      /\ delivered \in Seq([type : FrameType, len : Nat, start : Nat])
  BY DEF BInv, TypeOK
<1>5. /\ f \in Frame /\ frames' = Append(frames, f) /\ frames' \in Seq(Frame)
      /\ Len(frames') = k + 1 /\ DOMAIN frames' = 1 .. (k + 1) /\ DOMAIN frames = 1 .. k
      /\ \A i \in 1 .. k : frames'[i] = frames[i]
      /\ frames'[k + 1] = f
  <2>1. f \in Frame
    BY <1>4 DEF Frame
  <2> QED BY <1>1, <1>4, <2>1
<1> HIDE DEF f
<1>6. f.len = n /\ f.start = wire
  BY DEF f
<1>7. TypeOK'
  BY <1>1, <1>2, <1>3, <1>4, <1>5 DEF TypeOK
<1>8. \A i \in 1 .. (k + 1) : StartOf(i)' = StartOf(i)
  BY <1>1, <1>4, <1>5, <1>6 DEF StartOf
<1>9. Contiguous'
  <2>1. StartOf(1)' = request'.len
    <3>1. StartOf(1)' = StartOf(1)
      BY <1>8, <1>4
    <3> QED BY <3>1, <1>2 DEF BInv, Contiguous
  <2>2. ASSUME NEW i \in DOMAIN frames'
        PROVE  frames'[i].start + FrameSize(frames'[i].len) = StartOf(i + 1)'
    <3>1. CASE i \in 1 .. k
      <4>1. frames[i].start + FrameSize(frames[i].len) = StartOf(i + 1)
        BY <3>1, <1>5 DEF BInv, Contiguous
      <4>2. StartOf(i + 1)' = StartOf(i + 1)
        BY <3>1, <1>8, <1>4
      <4> QED BY <4>1, <4>2, <1>5, <3>1
    <3>2. CASE i = k + 1
      BY <3>2, <1>1, <1>4, <1>5, <1>6 DEF StartOf
    <3> QED BY <2>2, <1>5, <1>4, <3>1, <3>2
  <2> QED BY <2>1, <2>2 DEF Contiguous
<1>10. RecordsOK'
  BY <1>2 DEF BInv, RecordsOK
<1>11. Next1 \in Nat /\ Next1' = Next1 /\ (~ garbled => Next1 \in 1 .. (k + 1))
  BY <1>2, <1>4 DEF BInv, InSync, Next1
<1>12. InSync'
  <2>1. ~ garbled => StartOf(Next1)' = StartOf(Next1)
    BY <1>11, <1>8
  <2> QED BY <2>1, <1>2, <1>4, <1>5 DEF BInv, InSync, Open
<1>13. RoomToRead'
  BY <1>2 DEF BInv, RoomToRead, Open
<1>14. NothingStranded'
  <2> SUFFICES ASSUME Open', at' = "select"
               PROVE  decrypted' = read' /\ (~ garbled' => read' - parsed' < FrontSize')
    BY DEF NothingStranded
  <2>1. decrypted = read /\ (~ garbled => read - parsed < FrontSize)
    BY <1>2 DEF BInv, NothingStranded, Open
  <2>2. CASE ~ handshaked \/ Next1 \in 1 .. k
    <3>1. FrontSize' = FrontSize
      BY <1>2, <1>5, <1>4, <1>11, <2>2 DEF FrontSize
    <3> QED BY <2>1, <3>1, <1>2
  <2>3. CASE handshaked /\ ~ garbled /\ Next1 = k + 1
    <3>1. parsed = wire /\ read = parsed
      BY <2>3, <1>5, <1>4, <1>11 DEF BInv, InSync, StartOf, TypeOK
    <3>2. FrontSize' \in Nat /\ FrontSize' > 0
      <4>1. FrontSize' \in {FrameSize(n), BUF_LEN}
        BY <2>3, <1>2, <1>5, <1>6, <1>11 DEF FrontSize
      <4> QED BY <4>1, <1>3, BufferAssumption
    <3>3. read' - parsed' = 0
      BY <3>1, <1>2, <1>4
    <3> QED BY <2>1, <3>2, <3>3, <1>2
  <2>4. CASE garbled
    BY <2>1, <2>4, <1>2
  <2> QED BY <2>2, <2>3, <2>4, <1>11, <1>4
<1>15. DiesOnlyInHeader'
  BY <1>2 DEF DiesOnlyInHeader, Open
<1> QED BY <1>7, <1>9, <1>10, <1>12, <1>13, <1>14, <1>15 DEF BInv

LEMMA SealsBInv == BInv /\ PeerSeals => BInv'
<1> SUFFICES ASSUME BInv, PeerSeals PROVE BInv'
  OBVIOUS
<1>1. PICK e : /\ sealed < e /\ e <= wire
               /\ sealed' = e
               /\ records' = Append(records, e)
               /\ e \in CutPoints
  BY DEF PeerSeals
<1>2. UNCHANGED <<request, frames, wire, fin, bufVars>>
  BY DEF PeerSeals
<1>3. e \in Nat
  <2>1. \A i \in DOMAIN frames : frames[i].start \in Nat
    BY FramesTyped DEF BInv
  <2> QED BY <1>1, <2>1, PeerAssumption DEF CutPoints, BInv, TypeOK
<1>4. TypeOK'
  BY <1>1, <1>2, <1>3 DEF BInv, TypeOK, bufVars
<1>5. RecordsOK'
  BY <1>1, <1>3 DEF BInv, TypeOK, RecordsOK
<1>6. /\ Contiguous' /\ InSync'
      /\ RoomToRead' /\ NothingStranded' /\ DiesOnlyInHeader'
  BY <1>2 DEF BInv, Contiguous, StartOf, InSync, RoomToRead, NothingStranded,
       DiesOnlyInHeader, FrontSize, Next1, Open, bufVars
<1> QED BY <1>4, <1>5, <1>6 DEF BInv

LEMMA ClosesBInv == BInv /\ PeerCloses => BInv'
BY DEF BInv, PeerCloses, TypeOK, Contiguous, StartOf, RecordsOK, InSync, RoomToRead,
       NothingStranded, DiesOnlyInHeader, FrontSize, Next1, Open, bufVars

-----------------------------------------------------------------------------
(* The reader.  ReadOK is what SSL_read leaves, whether it read or not: when *)
(* it did not fill frame_buf, OpenSSL has nothing more of the record.        *)

ReadOK ==
  /\ read' \in Nat /\ decrypted' \in Nat
  /\ read <= read' /\ parsed <= read' /\ read' <= decrypted' /\ decrypted' <= sealed
  /\ read' - parsed <= BUF_LEN
  /\ read' - parsed < BUF_LEN => decrypted' = read'
  /\ records' \in Seq(Nat)
  /\ \A i \in DOMAIN records' : records'[i] \in 0 .. sealed

LEMMA ReadFacts ==
  ASSUME BInv, Open,
         SSL_read \/ (WantRead /\ UNCHANGED <<read, decrypted, records>>)
  PROVE  ReadOK /\ (SSL_read => read < read')
<1>1. /\ read \in Nat /\ parsed \in Nat /\ decrypted \in Nat /\ sealed \in Nat
      /\ parsed <= read /\ read <= decrypted /\ decrypted <= sealed
      /\ records \in Seq(Nat)
      /\ BUF_LEN \in Nat
  BY BufferAssumption DEF BInv, TypeOK
<1>2. \A i \in DOMAIN records : records[i] \in 0 .. sealed
  BY DEF BInv, RecordsOK
<1>3. read - parsed < BUF_LEN
  BY DEF BInv, RoomToRead
<1>4. CASE WantRead /\ UNCHANGED <<read, decrypted, records>>
  <2>1. decrypted = read /\ ~ SSL_read
    BY <1>1, <1>4 DEF WantRead, Available, SSL_read
  <2> QED BY <2>1, <1>1, <1>2, <1>3, <1>4 DEF ReadOK
<1>5. CASE SSL_read
  <2>1. /\ Available \in Nat /\ Available <= sealed /\ read < Available
        /\ records' \in Seq(Nat)
        /\ \A i \in DOMAIN records' : records'[i] \in 0 .. sealed
    <3>1. CASE decrypted > read
      BY <3>1, <1>1, <1>2, <1>5 DEF SSL_read, Available
    <3>2. CASE ~ (decrypted > read) /\ records # << >>
      <4>1. Head(records) \in 0 .. sealed
        BY <3>2, <1>1, <1>2
      <4>2. Available = Head(records) /\ records' = Tail(records)
        BY <3>2, <1>5 DEF SSL_read, Available
      <4>3. /\ Tail(records) \in Seq(Nat)
            /\ \A i \in DOMAIN Tail(records) : /\ i + 1 \in DOMAIN records
                                              /\ Tail(records)[i] = records[i + 1]
        BY <3>2, <1>1
      <4>4. read < Available
        BY <1>5, <1>1, <4>1, <4>2 DEF SSL_read
      <4> QED BY <4>1, <4>2, <4>3, <4>4, <1>1, <1>2
    <3>3. CASE ~ (decrypted > read) /\ records = << >>
      BY <3>3, <1>1, <1>5 DEF SSL_read, Available
    <3> QED BY <3>1, <3>2, <3>3
  <2>2. /\ read' = IF Available <= parsed + BUF_LEN THEN Available ELSE parsed + BUF_LEN
        /\ decrypted' = Available
    BY <1>5 DEF SSL_read
  <2>3. /\ read' \in Nat /\ read < read' /\ read' <= decrypted'
        /\ read' - parsed <= BUF_LEN
        /\ read' - parsed < BUF_LEN => decrypted' = read'
    BY <2>1, <2>2, <1>1, <1>3
  <2> QED BY <2>1, <2>2, <2>3, <1>1 DEF ReadOK
<1> QED BY <1>4, <1>5

\* Whenever there is something in frame_buf, a frame starts there.
LEMMA FrontFrame ==
  ASSUME BInv, Open, handshaked, ~ garbled, NEW r \in Nat, parsed < r, r <= wire
  PROVE  /\ Next1 \in DOMAIN frames /\ Next1 \in Nat /\ Next1 <= Len(frames)
         /\ parsed = frames[Next1].start
         /\ parsed + FrameSize(frames[Next1].len) = StartOf(Next1 + 1)
<1>1. parsed = StartOf(Next1)
  BY DEF BInv, InSync
<1>2. Next1 \in DOMAIN frames
  BY <1>1 DEF StartOf, BInv, TypeOK
<1>3. parsed = frames[Next1].start
  BY <1>1, <1>2 DEF StartOf
<1>4. Next1 \in Nat /\ Next1 <= Len(frames)
  BY <1>2 DEF BInv, TypeOK
<1> QED BY <1>2, <1>3, <1>4 DEF BInv, Contiguous

LEMMA FrontPositive == ASSUME TypeOK PROVE FrontSize \in Nat /\ FrontSize > 0
<1>1. CASE ~ handshaked
  BY <1>1, RequestLength DEF FrontSize, TypeOK
<1>2. CASE handshaked /\ Next1 \in DOMAIN frames /\ ReadRight(frames[Next1].len)
  <2>1. FrontSize = FrameSize(frames[Next1].len)
    BY <1>2 DEF FrontSize
  <2> QED BY <2>1, <1>2, FramesTyped
<1>3. CASE handshaked /\ ~ (Next1 \in DOMAIN frames /\ ReadRight(frames[Next1].len))
  BY <1>3, Sizes DEF FrontSize
<1> QED BY <1>1, <1>2, <1>3

\* The parts of the invariant that no reader step touches, given ReadOK and
\* what it says of parsed.
LEMMA ReaderFrame ==
  ASSUME BInv, UNCHANGED <<request, frames, wire, sealed, fin>>, ReadOK,
         parsed' \in Nat, parsed' <= read', handshaked' \in BOOLEAN,
         at' \in {"select", "receive"}, status' \in {"open", "closed", "dead"},
         garbled' \in BOOLEAN,
         delivered' \in Seq([type : FrameType, len : Nat, start : Nat])
  PROVE  TypeOK' /\ Contiguous' /\ RecordsOK'
<1>1. TypeOK'
  <2>1. wire \in Nat /\ sealed \in 0 .. wire /\ request \in Requests /\ frames \in Seq(Frame)
        /\ fin \in BOOLEAN
    BY DEF BInv, TypeOK
  <2>2. decrypted' \in 0 .. sealed /\ read' \in 0 .. decrypted' /\ parsed' \in 0 .. read'
        /\ records' \in Seq(Nat)
    BY <2>1 DEF ReadOK
  <2> QED BY <2>1, <2>2 DEF TypeOK
<1>2. Contiguous'
  BY DEF BInv, Contiguous, StartOf
<1>3. RecordsOK'
  BY DEF ReadOK, RecordsOK
<1> QED BY <1>1, <1>2, <1>3

EnvUnchanged == UNCHANGED <<request, frames, wire, sealed, fin>>

\* Receive fails: only where the process dies is there something to show.
LEMMA EndsBInv ==
  ASSUME BInv, EnvUnchanged, ReadOK, UNCHANGED <<handshaked, parsed, delivered, garbled>>,
         NEW how \in {"closed", "dead"}, Fail(how), how = "dead" => DiesOnlyInHeader'
  PROVE  BInv'
<1>1. /\ parsed' \in Nat /\ parsed' <= read' /\ handshaked' \in BOOLEAN
      /\ at' \in {"select", "receive"} /\ status' \in {"open", "closed", "dead"}
      /\ garbled' \in BOOLEAN
      /\ delivered' \in Seq([type : FrameType, len : Nat, start : Nat])
  BY DEF BInv, TypeOK, Fail, ReadOK
<1>2. TypeOK' /\ Contiguous' /\ RecordsOK'
  BY <1>1, ReaderFrame DEF EnvUnchanged
<1>3. ~ Open'
  BY DEF Fail, Open
<1>4. InSync'
  BY <1>3 DEF BInv, InSync, EnvUnchanged
<1>5. RoomToRead' /\ NothingStranded'
  BY <1>3 DEF RoomToRead, NothingStranded
<1>6. DiesOnlyInHeader'
  BY DEF DiesOnlyInHeader, Fail
<1> QED BY <1>2, <1>4, <1>5, <1>6 DEF BInv

\* Receive finds no whole frame and the reader goes back to select.
LEMMA WaitsBInv ==
  ASSUME BInv, Open, EnvUnchanged, ReadOK, UNCHANGED <<handshaked, parsed, delivered, garbled>>,
         Return("select"), read' - parsed < BUF_LEN, ~ garbled => read' - parsed < FrontSize
  PROVE  BInv'
<1>1. /\ parsed' \in Nat /\ parsed' <= read' /\ handshaked' \in BOOLEAN
      /\ at' \in {"select", "receive"} /\ status' \in {"open", "closed", "dead"}
      /\ garbled' \in BOOLEAN
      /\ delivered' \in Seq([type : FrameType, len : Nat, start : Nat])
  BY DEF BInv, TypeOK, Return, ReadOK
<1>2. TypeOK' /\ Contiguous' /\ RecordsOK'
  BY <1>1, ReaderFrame DEF EnvUnchanged
<1>3. InSync'
  BY DEF BInv, InSync, EnvUnchanged, Return, Open, StartOf, Next1, FrontSize
<1>4. FrontSize' = FrontSize
  BY DEF FrontSize, Next1, EnvUnchanged
<1>5. RoomToRead' /\ NothingStranded'
  BY <1>4 DEF RoomToRead, NothingStranded, ReadOK
<1>6. DiesOnlyInHeader'
  BY DEF DiesOnlyInHeader, Return, Open
<1> QED BY <1>2, <1>3, <1>5, <1>6 DEF BInv

\* What the parsers are given: frame_buf after SSL_read.
LEMMA InBuffer ==
  ASSUME BInv, ReadOK
  PROVE  /\ parsed \in Nat /\ read' \in Nat /\ read' - parsed \in Nat
         /\ read' - parsed <= BUF_LEN /\ read' <= wire
<1>1. /\ parsed \in Nat /\ sealed \in Nat /\ sealed <= wire /\ wire \in Nat
  BY DEF BInv, TypeOK
<1>2. /\ read' \in Nat /\ parsed <= read' /\ read' - parsed <= BUF_LEN
      /\ decrypted' \in Nat /\ read' <= decrypted' /\ decrypted' <= sealed
  BY DEF ReadOK
<1>3. \A x, y \in Nat : y <= x => x - y \in Nat
  OBVIOUS
<1>4. read' - parsed \in Nat
  BY <1>1, <1>2, <1>3
<1>5. \A x, y, z, w \in Nat : x <= y /\ y <= z /\ z <= w => x <= w
  OBVIOUS
<1>6. read' <= wire
  BY <1>1, <1>2, <1>5
<1>7. read' - parsed <= BUF_LEN
  BY <1>2
<1> QED BY <1>1, <1>2, <1>4, <1>6, <1>7

\* The request is taken out of frame_buf.
LEMMA AnswerBInv ==
  ASSUME BInv, Open, EnvUnchanged, ReadOK, ~ handshaked, UNCHANGED delivered,
         request.len <= read' - parsed, Answer(read' - parsed)
  PROVE  BInv' /\ (garbled' => Len(frames) > 0)
<1>0. request \in Requests /\ request.len \in Nat \ {0} /\ parsed = 0 /\ delivered = << >>
      /\ read' \in Nat
  BY RequestLength DEF BInv, TypeOK, InSync, ReadOK
<1>1. parsed' = request.len /\ handshaked' = TRUE
  BY <1>0 DEF Answer
<1>2. /\ at' = "receive" /\ status' = status
      /\ garbled' \in BOOLEAN
      /\ garbled' => read' - request.len > request.len
  <2> DEFINE n == read' - parsed
  <2>1. garbled' \in {FALSE} \cup (IF n - request.len > request.len THEN {TRUE} ELSE {})
    BY DEF Answer, Moved
  <2>2. garbled' \in BOOLEAN /\ (garbled' => n - request.len > request.len)
    <3> HIDE DEF n
    <3> QED BY <2>1
  <2>3. n = read'
    <3>1. \A x \in Nat : x - 0 = x
      OBVIOUS
    <3> QED BY <3>1, <1>0
  <2>4. at' = "receive" /\ status' = status
    <3>1. Return(IF n - request.len = 0 /\ handshaked THEN "select" ELSE "receive")
      BY DEF Answer, Moved
    <3> HIDE DEF n
    <3> QED BY <3>1 DEF Return
  <2> HIDE DEF n
  <2> QED BY <2>2, <2>3, <2>4
<1>3. TypeOK' /\ Contiguous' /\ RecordsOK'
  <2>1. /\ parsed' \in Nat /\ parsed' <= read' /\ handshaked' \in BOOLEAN
        /\ at' \in {"select", "receive"} /\ status' \in {"open", "closed", "dead"}
        /\ delivered' \in Seq([type : FrameType, len : Nat, start : Nat])
    BY <1>0, <1>1, <1>2 DEF BInv, TypeOK
  <2> QED BY <2>1, <1>2, ReaderFrame DEF EnvUnchanged
<1>4. StartOf(1) = request.len /\ StartOf(1)' = request.len
  BY DEF StartOf, BInv, Contiguous, EnvUnchanged
<1>5. InSync'
  <2>1. Next1' = 1 /\ Len(delivered') = 0 /\ Len(delivered') <= Len(frames')
    BY <1>0 DEF Next1, BInv, TypeOK, EnvUnchanged
  <2> QED BY <2>1, <1>4, <1>1 DEF InSync
<1>6. RoomToRead'
  <2>1. read' <= BUF_LEN
    BY <1>0 DEF ReadOK
  <2>2. read' - parsed' < BUF_LEN
    BY <2>1, <1>0, <1>1, Sizes
  <2> QED BY <2>2 DEF RoomToRead
<1>7. NothingStranded' /\ DiesOnlyInHeader'
  BY <1>2 DEF NothingStranded, DiesOnlyInHeader, Open
<1>8. ASSUME garbled' PROVE Len(frames) > 0
  <2>1. request.len < read'
    BY <1>0, <1>2, <1>8
  <2>2. read' <= wire /\ wire \in Nat
    BY InBuffer DEF BInv, TypeOK
  <2>3. StartOf(1) # wire
    BY <2>1, <2>2, <1>0, <1>4
  <2>4. 1 \in DOMAIN frames /\ frames \in Seq(Frame)
    BY <2>3 DEF StartOf, BInv, TypeOK
  <2> QED BY <2>4
<1> QED BY <1>3, <1>5, <1>6, <1>7, <1>8 DEF BInv

\* A text frame is taken out of frame_buf: if its length was read right, what
\* follows is the next frame, and if what follows is garbled in the moving,
\* then there is a next frame.
LEMMA TakeBInv ==
  ASSUME BInv, Open, EnvUnchanged, ReadOK, handshaked, UNCHANGED handshaked,
         NEW p, p.dataLength \in Nat, p.frameLength \in Nat,
         p.dataLength + 6 <= p.frameLength, p.frameLength <= p.dataLength + 14,
         ~ garbled => /\ Next1 \in DOMAIN frames
                      /\ frames[Next1].len \in Nat
                      /\ p.frameLength = p.dataLength + HeaderSize(frames[Next1].len)
                      /\ parsed + FrameSize(frames[Next1].len) = StartOf(Next1 + 1),
         p.dataLength < MSG_LEN, p.frameLength <= read' - parsed,
         TakeText(p, read' - parsed)
  PROVE  /\ BInv'
         /\ garbled' \in BOOLEAN /\ (garbled => garbled')
         /\ delivered' = Append(delivered,
              [type |-> "text", len |-> p.dataLength, start |-> parsed])
         /\ ~ garbled /\ p.dataLength # frames[Next1].len => garbled'
         /\ ~ garbled /\ garbled' /\ p.dataLength = frames[Next1].len =>
              Len(delivered') < Len(frames)
<1> DEFINE n == read' - parsed
           f == frames[Next1]
           astray == garbled \/ p.dataLength # f.len
<1>0. /\ n \in Nat /\ parsed \in Nat /\ read' \in Nat /\ n <= BUF_LEN
      /\ read' <= wire /\ wire \in Nat
      /\ frames \in Seq(Frame) /\ garbled \in BOOLEAN
      /\ Len(delivered) \in Nat /\ Next1 = Len(delivered) + 1 /\ Len(frames) \in Nat
      /\ delivered \in Seq([type : FrameType, len : Nat, start : Nat])
  BY InBuffer DEF BInv, TypeOK, Next1
<1>1. ~ garbled => /\ HeaderSize(f.len) \in 6 .. 14
                   /\ FrameSize(f.len) = HeaderSize(f.len) + f.len
  BY LengthTypes
<1>2. /\ delivered' = Append(delivered, [type |-> "text", len |-> p.dataLength, start |-> parsed])
      /\ parsed' = parsed + p.frameLength
      /\ at' = (IF n - p.frameLength = 0 THEN "select" ELSE "receive")
      /\ status' = status
  BY DEF TakeText, Moved, Return
<1>3. /\ garbled' \in BOOLEAN
      /\ ~ garbled' => ~ garbled /\ p.dataLength = f.len
      /\ garbled' => garbled \/ p.dataLength # f.len \/ n - p.frameLength > p.frameLength
  <2>1. astray \in BOOLEAN
    OBVIOUS
  <2>2. garbled' \in {astray} \cup (IF n - p.frameLength > p.frameLength THEN {TRUE} ELSE {})
    BY DEF TakeText, Moved
  <2>3. garbled' = astray \/ (garbled' = TRUE /\ n - p.frameLength > p.frameLength)
    <3> HIDE DEF astray, n
    <3> QED BY <2>2
  <2>4. garbled' \in BOOLEAN
    BY <2>1, <2>3
  <2> QED BY <2>3, <2>4
<1>4. TypeOK' /\ Contiguous' /\ RecordsOK'
  <2>1. [type |-> "text", len |-> p.dataLength, start |-> parsed]
          \in [type : FrameType, len : Nat, start : Nat]
    BY <1>0 DEF FrameType
  <2>2. delivered' \in Seq([type : FrameType, len : Nat, start : Nat])
    BY <2>1, <1>2, <1>0
  <2>3. parsed' \in Nat /\ parsed' <= read'
    <3>1. \A x, y, z \in Nat : z <= y - x => x + z \in Nat /\ x + z <= y
      OBVIOUS
    <3> QED BY <3>1, <1>0, <1>2
  <2>4. at' \in {"select", "receive"} /\ status' \in {"open", "closed", "dead"}
    BY <1>2 DEF BInv, TypeOK
  <2>5. handshaked' \in BOOLEAN
    BY DEF BInv, TypeOK
  <2> QED BY <2>2, <2>3, <2>4, <2>5, <1>3, ReaderFrame DEF EnvUnchanged
<1>5. Len(delivered') = Len(delivered) + 1 /\ Next1' = Next1 + 1
  BY <1>2, <1>0 DEF Next1
<1>6. ~ garbled => Len(delivered) + 1 <= Len(frames)
  BY <1>0
<1>7. ~ garbled /\ p.dataLength = f.len => parsed' = StartOf(Next1 + 1)
  <2> SUFFICES ASSUME ~ garbled, p.dataLength = f.len PROVE parsed' = StartOf(Next1 + 1)
    OBVIOUS
  <2>1. p.frameLength = FrameSize(f.len)
    <3>1. \A x, y \in Nat : x + y = y + x
      OBVIOUS
    <3>2. HeaderSize(f.len) \in Nat
      BY <1>1
    <3> QED BY <3>1, <3>2, <1>1
  <2> QED BY <2>1, <1>2
<1>8. InSync'
  <2>1. ~ garbled' => Len(delivered') <= Len(frames')
    BY <1>3, <1>5, <1>6, <1>0 DEF EnvUnchanged
  <2>2. ~ garbled' => parsed' = StartOf(Next1)'
    <3>1. StartOf(Next1)' = StartOf(Next1 + 1)
      BY <1>5 DEF StartOf, EnvUnchanged
    <3> QED BY <3>1, <1>3, <1>7
  <2> QED BY <2>1, <2>2 DEF InSync
<1>9. RoomToRead'
  <2>1. read' - parsed' = n - p.frameLength
    BY <1>0, <1>2
  <2>2. n - p.frameLength < BUF_LEN
    <3>1. \A x, y, b \in Nat : x <= b /\ y >= 6 => x - y < b
      OBVIOUS
    <3>2. p.frameLength >= 6
      OBVIOUS
    <3> HIDE DEF n
    <3> QED BY <3>1, <3>2, <1>0, Sizes
  <2> QED BY <2>1, <2>2 DEF RoomToRead
<1>10. NothingStranded'
  <2> SUFFICES ASSUME Open', at' = "select"
               PROVE  decrypted' = read' /\ read' - parsed' < FrontSize'
    BY DEF NothingStranded
  <2>1. n = p.frameLength
    <3>1. n - p.frameLength = 0
      BY <1>2
    <3> HIDE DEF n
    <3> QED BY <3>1, <1>0
  <2>2. n < BUF_LEN
    <3>1. \A l, g, m, b \in Nat : l < m /\ g <= l + 14 /\ m + 14 <= b => g < b
      OBVIOUS
    <3>2. p.frameLength < BUF_LEN
      BY <3>1, Sizes
    <3> HIDE DEF n
    <3> QED BY <3>2, <2>1
  <2>3. decrypted' = read'
    BY <2>2 DEF ReadOK
  <2>4. read' - parsed' = 0
    BY <2>1, <1>0, <1>2
  <2>5. FrontSize' > 0
    <3>1. CASE Next1' \in DOMAIN frames' /\ ReadRight(frames'[Next1'].len)
      <4>1. frames'[Next1'].len \in Nat
        BY <3>1, <1>4, FramesTyped DEF BInv, EnvUnchanged
      <4>2. FrontSize' = FrameSize(frames'[Next1'].len)
        BY <3>1 DEF FrontSize
      <4> QED BY <4>1, <4>2, LengthTypes
    <3>2. CASE ~ (Next1' \in DOMAIN frames' /\ ReadRight(frames'[Next1'].len))
      <4>1. FrontSize' = BUF_LEN
        BY <3>2 DEF FrontSize
      <4> QED BY <4>1, BufferAssumption
    <3> QED BY <3>1, <3>2
  <2> QED BY <2>3, <2>4, <2>5
<1>11. DiesOnlyInHeader'
  BY <1>2 DEF DiesOnlyInHeader, Open
<1>12. ASSUME ~ garbled, garbled', p.dataLength = f.len
       PROVE  Len(delivered') < Len(frames)
  <2>1. n > p.frameLength
    <3>1. n - p.frameLength > p.frameLength
      BY <1>3, <1>12
    <3> HIDE DEF n
    <3> QED BY <3>1, <1>0
  <2>2. StartOf(Next1 + 1) # wire
    <3>1. parsed' < read'
      BY <2>1, <1>0, <1>2
    <3> QED BY <3>1, <1>0, <1>2, <1>7, <1>12
  <2>3. Next1 + 1 \in DOMAIN frames
    BY <2>2 DEF StartOf
  <2> QED BY <2>3, <1>0, <1>5
<1> QED BY <1>2, <1>3, <1>4, <1>8, <1>9, <1>10, <1>11, <1>12 DEF BInv

BoxStep == [Box!Next]_<<frames, delivered, Open, ~ garbled>>

\* To the mailbox, every end of the connection is its closing.
LEMMA EndsBox ==
  ASSUME Open, EnvUnchanged, UNCHANGED <<delivered, garbled>>,
         NEW how \in {"closed", "dead"}, Fail(how)
  PROVE  BoxStep
<1>1. Box!Close
  BY DEF Box!Close, EnvUnchanged, Fail, Open
<1> QED BY <1>1 DEF BoxStep, Box!Next

LEMMA HandshakeStep ==
  ASSUME BInv, Open, at = "receive", EnvUnchanged, ReadOK, ~ handshaked,
         Handshake(read' - parsed)
  PROVE  BInv' /\ BoxStep
<1> DEFINE n == read' - parsed
           parse == wsParseHandshake(request, n)
<1>0. parsed \in Nat /\ n \in Nat
  BY InBuffer
<1>1. UNCHANGED delivered
  BY DEF Handshake
<1>2. CASE parse = "opening" /\ Answer(n)
  <2>1. request.len <= n
    <3> HIDE DEF n
    <3>1. request.len \in Nat
      BY RequestLength DEF BInv, TypeOK
    <3>2. ~ (n < request.len)
      BY <1>2 DEF wsParseHandshake
    <3> QED BY <3>1, <3>2, <1>0
  <2>2. BInv' /\ (garbled' => Len(frames) > 0)
    BY <2>1, <1>1, <1>2, AnswerBInv
  <2>3. status' = status /\ garbled' \in BOOLEAN /\ ~ garbled /\ delivered = << >>
    BY <1>2, <2>2 DEF Answer, Moved, Return, BInv, TypeOK, InSync
  <2>4. CASE garbled'
    <3>1. frames # << >>
      BY <2>2, <2>4
    <3>2. Box!Slip
      BY <3>1, <2>3, <2>4, <1>1 DEF Box!Slip, EnvUnchanged, Open
    <3> QED BY <3>2, <2>2 DEF BoxStep, Box!Next
  <2>5. CASE ~ garbled'
    BY <2>2, <2>3, <2>5, <1>1 DEF BoxStep, EnvUnchanged, Open
  <2> QED BY <2>4, <2>5
<1>3. CASE /\ \/ parse = "opening" /\ Fail("closed")
              \/ parse = "error" /\ Fail("closed")
              \/ parse = "assertion" /\ Fail("dead")
              \/ parse = "incomplete" /\ ~ Room /\ Fail("closed")
           /\ UNCHANGED <<handshaked, parsed, garbled>>
  <2>1. PICK how \in {"closed", "dead"} : Fail(how) /\ (how = "dead" => parse = "assertion")
    BY <1>3
  <2>2. parse = "assertion" => \E name \in FieldName : Has(request, name, {"empty"})
    <3> HIDE DEF n
    <3> QED BY DEF wsParseHandshake
  <2>3. how = "dead" => DiesOnlyInHeader'
    BY <2>1, <2>2, <1>3 DEF DiesOnlyInHeader, EnvUnchanged, Has
  <2>4. BInv'
    BY <2>1, <2>3, <1>1, <1>3, EndsBInv
  <2> QED BY <2>1, <2>4, <1>1, <1>3, EndsBox
<1>4. CASE /\ parse = "incomplete" /\ Room /\ Return("select")
           /\ UNCHANGED <<handshaked, parsed, garbled>>
  <2>1. n < request.len
    <3> HIDE DEF n
    <3> QED BY <1>4 DEF wsParseHandshake
  <2>2. n < BUF_LEN /\ n < FrontSize
    BY <2>1, <1>4 DEF Room, FrontSize
  <2>3. BInv'
    BY <2>2, <1>1, <1>4, WaitsBInv
  <2> QED BY <2>3, <1>1, <1>4 DEF BoxStep, EnvUnchanged, Return, Open
<1> QED BY <1>2, <1>3, <1>4 DEF Handshake

\* What the parser makes of a buffer, whatever is in it.
LEMMA ResultFacts ==
  ASSUME BInv, Open, handshaked, ReadOK, parsed < read',
         NEW p \in Results(read' - parsed)
  PROVE  /\ p.dataLength \in Nat /\ p.frameLength \in Nat
         /\ p.type = "text" => /\ p.dataLength + 6 <= p.frameLength
                               /\ p.frameLength <= p.dataLength + 14
         /\ garbled /\ p.frameLength > read' - parsed => read' - parsed < 14
         /\ ~ garbled =>
              LET f == frames[Next1]
              IN  /\ Next1 \in DOMAIN frames /\ Next1 \in Nat /\ Next1 <= Len(frames)
                  /\ parsed = f.start
                  /\ parsed + FrameSize(f.len) = StartOf(Next1 + 1)
                  /\ f.len \in Nat
                  /\ f = [type |-> f.type, len |-> f.len, start |-> f.start]
                  /\ p.type = "incomplete" /\ ReadRight(f.len) =>
                       read' - parsed < FrameSize(f.len)
                  /\ p.type = "text" =>
                       /\ f.type = "text"
                       /\ p.dataLength = PayloadLength(f.len)
                       /\ p.frameLength = p.dataLength + HeaderSize(f.len)
                  /\ p.frameLength > read' - parsed => read' - parsed < HeaderSize(f.len)
<1> DEFINE n == read' - parsed
           f == frames[Next1]
<1>0. n \in Nat /\ read' \in Nat /\ read' <= wire
  BY InBuffer
<1>1. CASE garbled
  <2>1. PICK g \in Garbage : p = Parsed(g.type, g.data, g.extra, n)
    BY <1>1 DEF Results
  <2>2. g.type \in FrameType /\ g.data \in Nat /\ g.extra \in {0, 2, 8}
    BY PeerAssumption
  <2> DEFINE t == g.type
             data == g.data
             extra == g.extra
  <2>5. t \in FrameType /\ data \in Nat /\ extra \in {0, 2, 8} /\ n \in Nat
        /\ p = Parsed(t, data, extra, n)
    BY <2>1, <2>2, <1>0
  <2> HIDE DEF n, t, data, extra
  <2>3. /\ p.dataLength \in Nat /\ p.frameLength \in Nat
        /\ p.type = "text" => p.dataLength = data /\ p.frameLength = data + 6 + extra
        /\ p.frameLength > n => n < 6 + extra
    BY <2>5, ParsedFacts
  <2>4. /\ p.type = "text" => /\ p.dataLength + 6 <= p.frameLength
                              /\ p.frameLength <= p.dataLength + 14
        /\ p.frameLength > n => n < 14
    BY <2>5, <2>3
  <2> QED BY <2>3, <2>4, <1>1 DEF n
<1>2. CASE ~ garbled
  <2>1. p = wsParseInputFrame(f, n)
    BY <1>2 DEF Results
  <2>2. /\ Next1 \in DOMAIN frames /\ Next1 \in Nat /\ Next1 <= Len(frames)
        /\ parsed = f.start
        /\ parsed + FrameSize(f.len) = StartOf(Next1 + 1)
    BY <1>0, <1>2, FrontFrame
  <2>3. /\ f.len \in Nat /\ f.type \in FrameType
        /\ f = [type |-> f.type, len |-> f.len, start |-> f.start]
        /\ HeaderSize(f.len) \in 6 .. 14
    BY <2>2, FramesTyped DEF BInv
  <2>4. /\ p.dataLength \in Nat /\ p.frameLength \in Nat
        /\ p.type = "incomplete" /\ ReadRight(f.len) => n < FrameSize(f.len)
        /\ p.type = "text" =>
             /\ f.type = "text"
             /\ p.dataLength = PayloadLength(f.len)
             /\ p.frameLength = p.dataLength + HeaderSize(f.len)
        /\ p.frameLength > n => n < HeaderSize(f.len)
    <3> HIDE DEF n, f
    <3> QED BY <2>1, <2>3, <1>0, ParseFacts
  <2>5. p.type = "text" => /\ p.dataLength + 6 <= p.frameLength
                           /\ p.frameLength <= p.dataLength + 14
    <3> HIDE DEF n, f
    <3> QED BY <2>3, <2>4
  <2> QED BY <2>2, <2>3, <2>4, <2>5, <1>2
<1> QED BY <1>1, <1>2

\* A message comes out of the mailbox: as it was sent, or changed, or anything.
LEMMA TakeBox ==
  ASSUME BInv, Open, handshaked, EnvUnchanged, ReadOK, parsed < read', BInv',
         NEW p \in Results(read' - parsed), p.type = "text", UNCHANGED status,
         garbled' \in BOOLEAN, garbled => garbled',
         delivered' = Append(delivered,
           [type |-> "text", len |-> p.dataLength, start |-> parsed]),
         ~ garbled /\ p.dataLength # frames[Next1].len => garbled',
         ~ garbled /\ garbled' /\ p.dataLength = frames[Next1].len =>
           Len(delivered') < Len(frames)
  PROVE  BoxStep
<1> DEFINE f == frames[Next1]
           e == [type |-> "text", len |-> p.dataLength, start |-> parsed]
<1>1. /\ delivered \in Seq([type : FrameType, len : Nat, start : Nat])
      /\ Next1 = Len(delivered) + 1 /\ parsed \in Nat /\ garbled \in BOOLEAN
  BY DEF BInv, TypeOK, Next1
<1>2. p.dataLength \in Nat
  BY ResultFacts
<1>3. Len(delivered') = Len(delivered) + 1 /\ SubSeq(delivered', 1, Len(delivered)) = delivered
  <2>1. e \in [type : FrameType, len : Nat, start : Nat]
    BY <1>1, <1>2 DEF FrameType
  <2> HIDE DEF e
  <2> QED BY <2>1, <1>1 DEF e
<1>4. Open' = Open /\ frames' = frames
  BY DEF Open, EnvUnchanged
<1>5. CASE garbled
  <2>1. Box!GetAnything
    BY <1>3, <1>4, <1>5 DEF Box!GetAnything, Box!OneMore
  <2> QED BY <2>1 DEF BoxStep, Box!Next
<1>6. CASE ~ garbled
  <2>1. /\ Next1 \in Nat /\ Next1 <= Len(frames)
        /\ parsed = f.start /\ f.type = "text"
        /\ p.dataLength = PayloadLength(f.len)
        /\ f = [type |-> f.type, len |-> f.len, start |-> f.start]
    BY <1>6, ResultFacts
  <2>2. Len(delivered) < Len(frames)
    BY <2>1, <1>1
  <2>3. CASE p.dataLength = f.len
    <3>1. e = f
      BY <2>1, <2>3
    <3>2. delivered' = Append(delivered, frames[Len(delivered) + 1])
      BY <3>1, <1>1
    <3>3. (~ garbled') \in BOOLEAN
      OBVIOUS
    <3>4. garbled' => Len(delivered') < Len(frames)
      BY <1>6, <2>3
    <3>5. Box!Get
      BY <3>2, <3>3, <3>4, <2>2, <1>4, <1>6 DEF Box!Get
    <3> QED BY <3>5 DEF BoxStep, Box!Next
  <2>4. CASE p.dataLength # f.len
    <3>1. frames[Len(delivered) + 1] \notin IntactFrames
      BY <2>1, <2>4, <1>1 DEF IntactFrames, ReadRight
    <3>2. garbled'
      BY <1>6, <2>4
    <3>3. Box!GetAltered
      BY <3>1, <3>2, <2>2, <1>3, <1>4, <1>6 DEF Box!GetAltered, Box!OneMore
    <3> QED BY <3>3 DEF BoxStep, Box!Next
  <2> QED BY <2>3, <2>4
<1> QED BY <1>5, <1>6

LEMMA ParseStep ==
  ASSUME BInv, Open, at = "receive", EnvUnchanged, ReadOK, handshaked, parsed < read',
         ParseFrame(read' - parsed)
  PROVE  BInv' /\ BoxStep
<1> DEFINE n == read' - parsed
           f == frames[Next1]
<1>0. /\ parsed \in Nat /\ n \in Nat /\ read' \in Nat /\ read' <= wire
      /\ n <= BUF_LEN /\ BUF_LEN \in Nat
  BY InBuffer, Sizes
<1>1. PICK p \in Results(n) :
        \/ /\ p.type = "text" /\ p.dataLength < MSG_LEN /\ p.frameLength <= n
           /\ TakeText(p, n)
        \/ p.type = "text" /\ Refuse(p, n)
        \/ /\ p.type = "incomplete" /\ Room /\ Return("select")
           /\ UNCHANGED <<delivered, parsed, garbled>>
        \/ /\ Fail("closed") \/ (p.frameLength > BUF_LEN /\ Fail("dead"))
           /\ UNCHANGED <<delivered, parsed, garbled>>
  BY DEF ParseFrame
<1>2. UNCHANGED handshaked
  BY DEF ParseFrame
<1>3. /\ p.dataLength \in Nat /\ p.frameLength \in Nat
      /\ p.type = "text" => /\ p.dataLength + 6 <= p.frameLength
                            /\ p.frameLength <= p.dataLength + 14
      /\ garbled /\ p.frameLength > n => n < 14
      /\ ~ garbled =>
           /\ Next1 \in DOMAIN frames /\ f.len \in Nat
           /\ parsed + FrameSize(f.len) = StartOf(Next1 + 1)
           /\ p.type = "incomplete" /\ ReadRight(f.len) => n < FrameSize(f.len)
           /\ p.type = "text" => p.frameLength = p.dataLength + HeaderSize(f.len)
           /\ p.frameLength > n => n < HeaderSize(f.len)
  BY ResultFacts
<1>4. CASE /\ p.type = "text" /\ p.dataLength < MSG_LEN /\ p.frameLength <= n
           /\ TakeText(p, n)
  <2>1. /\ BInv'
        /\ garbled' \in BOOLEAN /\ (garbled => garbled')
        /\ delivered' = Append(delivered,
             [type |-> "text", len |-> p.dataLength, start |-> parsed])
        /\ ~ garbled /\ p.dataLength # f.len => garbled'
        /\ ~ garbled /\ garbled' /\ p.dataLength = f.len => Len(delivered') < Len(frames)
    BY <1>2, <1>3, <1>4, TakeBInv
  <2>2. UNCHANGED status
    BY <1>4 DEF TakeText, Moved, Return
  <2> QED BY <2>1, <2>2, <1>4, TakeBox
<1>5. CASE \/ p.type = "text" /\ Refuse(p, n)
           \/ /\ Fail("closed") \/ (p.frameLength > BUF_LEN /\ Fail("dead"))
              /\ UNCHANGED <<delivered, parsed, garbled>>
  <2>1. PICK how \in {"closed", "dead"} : Fail(how) /\ (how = "dead" => p.frameLength > n)
    <3>1. \A x, y, z \in Nat : x <= y /\ z > y => z > x
      OBVIOUS
    <3> HIDE DEF n
    <3> QED BY <3>1, <1>0, <1>3, <1>5 DEF Refuse
  <2>2. UNCHANGED <<delivered, parsed, garbled>>
    BY <1>5 DEF Refuse
  <2>3. how = "dead" => DiesOnlyInHeader'
    <3> SUFFICES ASSUME how = "dead" PROVE DiesOnlyInHeader'
      OBVIOUS
    <3>1. /\ garbled => n < 14
          /\ ~ garbled => Next1 \in DOMAIN frames /\ n < HeaderSize(f.len)
      BY <2>1, <1>3
    <3> QED BY <3>1, <2>2, <1>2 DEF DiesOnlyInHeader, Next1, EnvUnchanged
  <2>4. BInv'
    BY <2>1, <2>2, <2>3, <1>2, EndsBInv
  <2> QED BY <2>1, <2>2, <2>4, EndsBox
<1>6. CASE /\ p.type = "incomplete" /\ Room /\ Return("select")
           /\ UNCHANGED <<delivered, parsed, garbled>>
  <2>1. n < BUF_LEN
    BY <1>6 DEF Room
  <2>2. ~ garbled => n < FrontSize
    BY <2>1, <1>3, <1>6 DEF FrontSize
  <2>3. BInv'
    BY <2>1, <2>2, <1>2, <1>6, WaitsBInv
  <2> QED BY <2>3, <1>6 DEF BoxStep, EnvUnchanged, Return, Open
<1> QED BY <1>1, <1>4, <1>5, <1>6

LEMMA ReceiveBInv == BInv /\ Receive => BInv' /\ BoxStep
<1> SUFFICES ASSUME BInv, Receive PROVE BInv' /\ BoxStep
  OBVIOUS
<1>1. Open /\ at = "receive" /\ EnvUnchanged
  BY DEF Receive, EnvUnchanged
<1>2. CASE ReceiveData
  <2>1. ReadOK /\ read < read'
    BY <1>1, <1>2, ReadFacts DEF ReceiveData
  <2>2. parsed < read'
    BY <2>1 DEF BInv, TypeOK, ReadOK
  <2>3. CASE handshaked
    BY <1>1, <1>2, <2>1, <2>2, <2>3, ParseStep DEF ReceiveData, Parse
  <2>4. CASE ~ handshaked
    BY <1>1, <1>2, <2>1, <2>4, HandshakeStep DEF ReceiveData, Parse
  <2> QED BY <2>3, <2>4
<1>3. CASE ReceiveRest
  <2>1. ReadOK /\ handshaked /\ parsed < read'
    BY <1>1, <1>3, ReadFacts DEF ReceiveRest, BInv, TypeOK
  <2> QED BY <1>1, <1>3, <2>1, ParseStep DEF ReceiveRest, Parse
<1>4. CASE ReceiveNothing
  <2>0. WantRead /\ UNCHANGED <<read, decrypted, records, parsed, handshaked, delivered, garbled>>
        /\ Return("select") /\ (~ handshaked \/ read = parsed)
    BY <1>4 DEF ReceiveNothing
  <2>1. ReadOK
    BY <1>1, <2>0, ReadFacts
  <2>2. read' - parsed < BUF_LEN
    BY <1>1, <2>0 DEF BInv, RoomToRead
  <2>3. read' - parsed < FrontSize
    <3>1. CASE ~ handshaked
      BY <3>1, <1>1, <2>0 DEF BInv, InSync, FrontSize
    <3>2. CASE handshaked
      <4>1. FrontSize > 0
        BY <3>2, FrontPositive DEF BInv
      <4>2. read' - parsed = 0
        BY <3>2, <2>0 DEF BInv, TypeOK
      <4> QED BY <4>1, <4>2
    <3> QED BY <3>1, <3>2
  <2>4. BInv'
    BY <1>1, <2>0, <2>1, <2>2, <2>3, WaitsBInv
  <2> QED BY <1>1, <2>0, <2>4 DEF BoxStep, EnvUnchanged, Return, Open
<1>5. CASE ReceiveEnd
  <2>0. /\ UNCHANGED <<read, decrypted, records, parsed, handshaked, delivered, garbled>>
        /\ Fail("closed")
    BY <1>5 DEF ReceiveEnd
  <2>1. TypeOK' /\ Contiguous' /\ RecordsOK'
    BY <1>1, <2>0 DEF BInv, TypeOK, Contiguous, StartOf, RecordsOK, EnvUnchanged, Fail
  <2>2. ~ Open' /\ status' = "closed"
    BY <2>0 DEF Fail, Open
  <2>3. InSync'
    BY <1>1, <2>0, <2>2 DEF BInv, InSync, EnvUnchanged
  <2>4. RoomToRead' /\ NothingStranded' /\ DiesOnlyInHeader'
    BY <2>2 DEF RoomToRead, NothingStranded, DiesOnlyInHeader
  <2>5. BoxStep
    BY <1>1, <2>0, EndsBox
  <2> QED BY <2>1, <2>3, <2>4, <2>5 DEF BInv
<1> QED BY <1>2, <1>3, <1>4, <1>5 DEF Receive

LEMMA SelectBInv == BInv /\ (SelectReady \/ SelectPartial) => BInv' /\ BoxStep
<1> SUFFICES ASSUME BInv, SelectReady \/ SelectPartial PROVE BInv' /\ BoxStep
  OBVIOUS
<1>1. /\ at' = "receive"
      /\ UNCHANGED <<peerVars, decrypted, read, parsed, handshaked, delivered, garbled, status>>
  BY DEF SelectReady, SelectPartial
<1>2. TypeOK' /\ Contiguous' /\ RecordsOK' /\ InSync'
  BY <1>1 DEF BInv, TypeOK, Contiguous, StartOf, RecordsOK, InSync, Open, Next1, peerVars
<1>3. RoomToRead' /\ NothingStranded'
  BY <1>1 DEF BInv, RoomToRead, NothingStranded, Open
<1>4. DiesOnlyInHeader'
  BY <1>1 DEF BInv, DiesOnlyInHeader, Next1, peerVars
<1>5. BoxStep
  BY <1>1 DEF BoxStep, Open, peerVars
<1> QED BY <1>2, <1>3, <1>4, <1>5 DEF BInv

LEMMA PeerBInv == BInv /\ Peer => BInv' /\ BoxStep
<1> SUFFICES ASSUME BInv, Peer PROVE BInv' /\ BoxStep
  OBVIOUS
<1>1. Open
  BY DEF Peer
<1>2. CASE PeerSends
  <2>1. BInv'
    BY <1>1, <1>2, SendsBInv
  <2>2. /\ delivered' = delivered /\ garbled' = garbled /\ Open' = Open
        /\ \E t \in Types, n \in Lengths :
              frames' = Append(frames, [type |-> t, len |-> n, start |-> wire])
    BY <1>2 DEF PeerSends, bufVars, Open
  <2>3. Len(frames') = Len(frames) + 1 /\ SubSeq(frames', 1, Len(frames)) = frames
    <3>1. PICK t \in Types, n \in Lengths :
            frames' = Append(frames, [type |-> t, len |-> n, start |-> wire])
      BY <2>2
    <3> DEFINE f == [type |-> t, len |-> n, start |-> wire]
    <3>2. f \in Frame /\ frames \in Seq(Frame)
      BY DEF BInv, TypeOK, Frame
    <3> HIDE DEF f
    <3> QED BY <3>1, <3>2 DEF f
  <2>4. Box!Put
    BY <2>2, <2>3 DEF Box!Put
  <2> QED BY <2>1, <2>4 DEF BoxStep, Box!Next
<1>3. CASE PeerSeals
  BY <1>3, SealsBInv DEF BoxStep, PeerSeals, bufVars, Open
<1>4. CASE PeerCloses
  BY <1>4, ClosesBInv DEF BoxStep, PeerCloses, bufVars, Open
<1> QED BY <1>2, <1>3, <1>4 DEF Peer

LEMMA NextBInv == BInv /\ [Next]_vars => BInv' /\ BoxStep
<1> SUFFICES ASSUME BInv, [Next]_vars PROVE BInv' /\ BoxStep
  OBVIOUS
<1>1. CASE Next
  BY <1>1, PeerBInv, ReceiveBInv, SelectBInv DEF Next, Reader
<1>2. CASE UNCHANGED vars
  <2>1. BInv'
    BY <1>2 DEF vars, BInv, TypeOK, Contiguous, StartOf, RecordsOK, InSync, RoomToRead,
         NothingStranded, DiesOnlyInHeader, FrontSize, Next1, Open
  <2>2. BoxStep
    BY <1>2 DEF vars, BoxStep, Open
  <2> QED BY <2>1, <2>2
<1> QED BY <1>1, <1>2

-----------------------------------------------------------------------------
(* The theorems. *)

\* The inductive invariant holds of a connection whatever the peer sends and
\* however it is cut into records (Client::Receive, client.cpp).
THEOREM BufferInvariant == Spec => []BInv
<1> QED BY InitBInv, NextBInv, PTL DEF Spec

\* frame_buf_pos never leaves frame_buf: the type invariant of a connection.
THEOREM BufferTypeCorrect == Spec => []TypeOK
<1>1. BInv => TypeOK
  BY DEF BInv
<1> QED BY <1>1, BufferInvariant, PTL

\* Receive always has room to read into, as long as frame_buf is at least 14
\* bytes larger than the longest message ListenMessages takes.
THEOREM BufferHasRoom == Spec => []RoomToRead
<1>1. BInv => RoomToRead
  BY DEF BInv
<1> QED BY <1>1, BufferInvariant, PTL

\* The loop of ListenMessages leaves nothing behind that select does not see.
THEOREM NothingIsStranded == Spec => []NothingStranded
<1>1. BInv => NothingStranded
  BY DEF BInv
<1> QED BY <1>1, BufferInvariant, PTL

\* A frame whose header has been read whole never ends the process, and once
\* the connection is garbled fourteen bytes in frame_buf are enough.
THEOREM ProcessDiesOnlyInHeader == Spec => []DiesOnlyInHeader
<1>1. BInv => DiesOnlyInHeader
  BY DEF BInv
<1> QED BY <1>1, BufferInvariant, PTL

\* A connection implements the mailbox: whatever the cuts, OnMessage gets the
\* frames that were sent, in order, once and whole, up to a misread length or a
\* memcpy whose source and destination overlap, and what has come stays.
THEOREM MessagesComeInOrder == Spec => MessagesInOrder
<1>1. Init => Box!Init
  BY DEF Init, Box!Init, Open
<1>2. BInv /\ [Next]_vars => [Box!Next]_(Box!vars)
  BY NextBInv DEF BoxStep, Box!vars
<1> QED BY <1>1, <1>2, BufferInvariant, PTL DEF Spec, MessagesInOrder, Box!Spec
=============================================================================

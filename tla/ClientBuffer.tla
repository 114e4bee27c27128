---------------------------- MODULE ClientBuffer ----------------------------
(***************************************************************************)
(* One connection as Client sees it: bytes come as TLS records, which end  *)
(* anywhere in the stream; select sees records that have not been read,    *)
(* but neither what OpenSSL has decrypted nor what is in frame_buf; and    *)
(* Client::Receive, called by the loop of ListenMessages as long as it     *)
(* returns "data available", cuts messages out of frame_buf.               *)
(*                                                                         *)
(* Bytes are counted from the start of the stream, which is the request of *)
(* the handshake followed by frames.  frame_buf holds the bytes between    *)
(* parsed and read, frame_buf_pos of them; OpenSSL those between read and  *)
(* decrypted.                                                              *)
(***************************************************************************)
EXTENDS Integers, Sequences, WsFrame

CONSTANTS
  BUF_LEN,     \* bytes in frame_buf (client.h)
  MSG_LEN,     \* bytes in the buffer of ListenMessages (web_socket_server.cpp)
  Requests,    \* requests a peer may open with
  Types,       \* kinds of frames a peer may send,
  Lengths,     \* and the lengths of their payloads
  Garbage,     \* what bytes that are not the start of a frame may read as
  MaxFrames,   \* bound: frames a peer sends
  Splits       \* a record may end so many bytes into the request or a frame

ASSUME BufferAssumption == /\ MSG_LEN \in Nat \ {0}
                           /\ BUF_LEN \in Nat /\ BUF_LEN < Beyond
                           /\ MSG_LEN + 14 <= BUF_LEN

ASSUME PeerAssumption == /\ Requests \subseteq Request
                         /\ Types \subseteq FrameType
                         /\ \A n \in Lengths : n \in Nat /\ n < Beyond
                         /\ Garbage \subseteq [type : FrameType, data : Nat, extra : {0, 2, 8}]
                         /\ MaxFrames \in Nat
                         /\ Splits \subseteq Nat

VARIABLES
  request,    \* what the peer opens with
  frames,     \* what it has sent since: frames, each with the place it starts
  wire,       \* bytes it has written
  sealed,     \* bytes it has sent in records
  records,    \* ends of the records not decrypted yet
  fin,        \* it has closed its side
  decrypted, read, parsed,
  handshaked,
  at,         \* of the reader: "select" or, in the loop, "receive"
  delivered,  \* history: what was passed to OnMessage
  garbled,    \* what is left in frame_buf, and comes after it, does not start
              \* with a frame or is not what was sent
  status      \* "open"; "closed": Receive failed; "dead": an assertion or a
              \* wild write ended the process

bufVars == <<decrypted, read, parsed, handshaked, at, delivered, garbled, status>>
peerVars == <<request, frames, wire, sealed, records, fin>>
vars == <<request, frames, wire, sealed, records, fin, decrypted, read, parsed,
          handshaked, at, delivered, garbled, status>>

Frame == [type : Types, len : Lengths, start : Nat]

Init ==
  /\ request \in Requests
  /\ wire = request.len
  /\ frames = << >> /\ records = << >> /\ delivered = << >>
  /\ sealed = 0 /\ decrypted = 0 /\ read = 0 /\ parsed = 0
  /\ fin = FALSE
  /\ handshaked = FALSE /\ garbled = FALSE
  /\ at = "select"
  /\ status = "open"

Open == status = "open"

-----------------------------------------------------------------------------
(* The peer.  What it does after the connection has ended changes nothing. *)

PeerSends ==
  /\ ~ fin
  /\ Len(frames) < MaxFrames
  /\ \E t \in Types, n \in Lengths :
        /\ frames' = Append(frames, [type |-> t, len |-> n, start |-> wire])
        /\ wire' = wire + FrameSize(n)
  /\ UNCHANGED <<request, sealed, records, fin, bufVars>>

\* Where a record may end: with the request or a frame, or some way into it.
CutPoints ==
  LET starts == {0} \cup {frames[i].start : i \in DOMAIN frames}
  IN  {wire} \cup starts \cup {s + k : s \in starts, k \in Splits}

\* The peer's TLS sends what was written, up to some place, as one record.
PeerSeals ==
  /\ ~ fin
  /\ \E e \in CutPoints :
        /\ sealed < e /\ e <= wire
        /\ sealed' = e
        /\ records' = Append(records, e)
  /\ UNCHANGED <<request, frames, wire, fin, bufVars>>

PeerCloses ==
  /\ ~ fin
  /\ fin' = TRUE
  /\ UNCHANGED <<request, frames, wire, sealed, records, bufVars>>

Peer == Open /\ (PeerSends \/ PeerSeals \/ PeerCloses)

-----------------------------------------------------------------------------
(* Client::Receive. *)

\* The end of what one call of SSL_read can return: the rest of the record it
\* is in, or the next record.
Available == IF decrypted > read THEN decrypted
             ELSE IF records # << >> THEN Head(records) ELSE read

\* SSL_read into the room left in frame_buf.
SSL_read ==
  /\ Available > read
  /\ read' = IF Available <= parsed + BUF_LEN THEN Available ELSE parsed + BUF_LEN
  /\ decrypted' = Available
  /\ records' = IF decrypted > read THEN records ELSE Tail(records)

\* SSL_read has nothing to return; or it finds the end of the stream, or that
\* the connection was reset, and with it the records that were not read.
WantRead == Available = read /\ ~ fin
PeerGone == decrypted = read /\ fin

\* The variant looks for one byte too many.
RoomOffByOne == read' - parsed <= BUF_LEN

Room == read' - parsed < BUF_LEN

Return(place) == at' = place /\ UNCHANGED status
Fail(how) == status' = how /\ UNCHANGED at

\* The variant does not ask for another call when frame_buf is not empty.
MovedOnce(rest, size, astray) ==
  /\ Return(IF handshaked THEN "select" ELSE "receive")
  /\ garbled' = astray

\* memcpy moves the rest of frame_buf to its front; when the two overlap, the
\* result is undefined: right with the usual memcpy, garbled with another.
\* The reader goes on with it, and with a rest that was astray before.
Moved(rest, size, astray) ==
  /\ Return(IF rest = 0 /\ handshaked THEN "select" ELSE "receive")
  /\ garbled' \in {astray} \cup (IF rest > size THEN {TRUE} ELSE {})

Answer(n) ==
  /\ handshaked' = TRUE
  /\ parsed' = parsed + request.len
  /\ Moved(n - request.len, request.len, FALSE)

\* Handshake on the first n bytes.
Handshake(n) ==
  LET parse == wsParseHandshake(request, n)
  IN  /\ UNCHANGED delivered
      /\ \/ parse = "opening" /\ Answer(n)
         \/ /\ \/ parse = "opening" /\ Fail("closed")  \* the answer cannot be sent
               \/ parse = "error" /\ Fail("closed")
               \/ parse = "assertion" /\ Fail("dead")
               \/ parse = "incomplete" /\ IF Room THEN Return("select") ELSE Fail("closed")
            /\ UNCHANGED <<handshaked, parsed, garbled>>

\* The frame at the front of frame_buf, if a frame starts there.
Next1 == Len(delivered) + 1

\* What the parser may make of n bytes.  Bytes that start no frame may read as
\* anything, the masked payload of a frame being at the peer's choice.
Results(n) ==
  IF garbled THEN {Parsed(g.type, g.data, g.extra, n) : g \in Garbage}
  ELSE {wsParseInputFrame(frames[Next1], n)}

\* A text frame is taken out of frame_buf, which holds n bytes.  When its length
\* was misread, what follows is not the start of a frame.
TakeText(p, n) ==
  /\ delivered' = Append(delivered, [type |-> "text", len |-> p.dataLength, start |-> parsed])
  /\ parsed' = parsed + p.frameLength
  /\ Moved(n - p.frameLength, p.frameLength, garbled \/ p.dataLength # frames[Next1].len)

\* The variant has no assertion: a copy that wraps goes on.
RefuseOnlyLarge(p, n) ==
  /\ IF p.dataLength < MSG_LEN THEN Return("select") ELSE Fail("closed")
  /\ parsed' = parsed + p.frameLength
  /\ UNCHANGED <<delivered, garbled>>

\* The variant cuts a message that is too long instead of refusing it.
RefuseByCutting(p, n) ==
  IF p.frameLength > n THEN Fail("dead") /\ UNCHANGED <<delivered, parsed, garbled>>
  ELSE TakeText([p EXCEPT !.dataLength = MSG_LEN - 1], n)

\* The assertion on frame_size fails, or the size of a copy wraps.
Refuse(p, n) ==
  /\ Fail(IF p.frameLength > n THEN "dead" ELSE "closed")
  /\ UNCHANGED <<delivered, parsed, garbled>>

ParseFrame(n) ==
  \E p \in Results(n) :
     /\ UNCHANGED handshaked
     /\ \/ /\ p.type = "text" /\ p.dataLength < MSG_LEN /\ p.frameLength <= n
           /\ TakeText(p, n)
        \/ /\ p.type = "text"
           /\ p.dataLength >= MSG_LEN \/ p.frameLength > n
           /\ Refuse(p, n)
        \/ /\ p.type = "incomplete"
           /\ IF Room THEN Return("select") ELSE Fail("closed")
           /\ UNCHANGED <<delivered, parsed, garbled>>
        \/ /\ p.type \notin {"text", "incomplete"}
           /\ \/ Fail("closed")
              \/ p.frameLength > BUF_LEN /\ Fail("dead")  \* unmasked past frame_buf
           /\ UNCHANGED <<delivered, parsed, garbled>>

Parse == IF handshaked THEN ParseFrame(read' - parsed) ELSE Handshake(read' - parsed)

\* Receive with something read.
ReceiveData == SSL_read /\ Parse

\* The variant returns although something is left in frame_buf.
ReceiveRestWaits ==
  /\ WantRead /\ handshaked /\ read > parsed
  /\ Return("select")
  /\ UNCHANGED <<read, decrypted, records, parsed, handshaked, delivered, garbled>>

\* Receive with nothing to read, on what was left in frame_buf.
ReceiveRest ==
  /\ WantRead /\ handshaked /\ read > parsed
  /\ UNCHANGED <<read, decrypted, records>>
  /\ Parse

ReceiveNothing ==
  /\ WantRead
  /\ ~ handshaked \/ read = parsed
  /\ Return("select")
  /\ UNCHANGED <<read, decrypted, records, parsed, handshaked, delivered, garbled>>

\* CLIENT_DISCONNECTED or NETWORK_ERROR: what is left in frame_buf is not
\* looked at.
ReceiveEnd ==
  /\ PeerGone
  /\ Fail("closed")
  /\ UNCHANGED <<read, decrypted, records, parsed, handshaked, delivered, garbled>>

Receive ==
  /\ at = "receive" /\ Open
  /\ ReceiveData \/ ReceiveRest \/ ReceiveNothing \/ ReceiveEnd
  /\ UNCHANGED <<request, frames, wire, sealed, fin>>

\* select reports the socket: there is a record, or the end of the stream.
SelectReady ==
  /\ at = "select" /\ Open
  /\ records # << >> \/ fin
  /\ at' = "receive"
  /\ UNCHANGED <<peerVars, decrypted, read, parsed, handshaked, delivered, garbled, status>>

\* select reports part of a record, which SSL_read will not return yet.
SelectPartial ==
  /\ at = "select" /\ Open
  /\ at' = "receive"
  /\ UNCHANGED <<peerVars, decrypted, read, parsed, handshaked, delivered, garbled, status>>

Reader == Receive \/ SelectReady \/ SelectPartial

Next == Peer \/ Reader

Spec == Init /\ [][Next]_vars

\* The reader runs; a peer need do nothing.
FairSpec == Spec /\ WF_vars(Receive) /\ WF_vars(SelectReady)
-----------------------------------------------------------------------------
(* Properties. *)

\* frame_buf lies between what was read and what was parsed: frame_buf_pos is
\* never negative (client.cpp:214, 224), and SSL holds what it read ahead.
TypeOK ==
  /\ request \in Requests
  /\ frames \in Seq(Frame)
  /\ records \in Seq(Nat)
  /\ wire \in Nat /\ sealed \in 0 .. wire /\ decrypted \in 0 .. sealed
  /\ read \in 0 .. decrypted /\ parsed \in 0 .. read
  /\ fin \in BOOLEAN /\ handshaked \in BOOLEAN /\ garbled \in BOOLEAN
  /\ at \in {"select", "receive"}
  /\ delivered \in Seq([type : FrameType, len : Nat, start : Nat])
  /\ status \in {"open", "closed", "dead"}

\* The frames whose length the parser reads as it was written.
IntactFrames == {f \in [type : FrameType, len : Nat, start : Nat] : ReadRight(f.len)}

Box == INSTANCE Mailbox
         WITH Intact <- IntactFrames, put <- frames, got <- delivered,
              open <- Open, sound <- ~ garbled

\* However the records cut the frames and however the buffer fills, OnMessage
\* gets what the peer sent, each frame once, in order and whole, until a length
\* of two or eight bytes is misread (websocket.c:261) or a memcpy overlaps
\* (client.cpp:225, 309).  What comes after that, which may be anything, does
\* not touch what came before.
MessagesInOrder == Box!Spec

\* Receive is never called on a full frame_buf: SSL_read would be asked for no
\* bytes, and the 0 it returns be taken for the end of the connection
\* (client.cpp:161, 182).
RoomToRead == Open => read - parsed < BUF_LEN

\* Bytes of the frame at the front of frame_buf, if it has been sent.
FrontSize == IF ~ handshaked THEN request.len
             ELSE IF Next1 \in DOMAIN frames /\ ReadRight(frames[Next1].len)
                  THEN FrameSize(frames[Next1].len) ELSE BUF_LEN

\* When the reader goes back to select, which sees only the socket, neither
\* OpenSSL nor frame_buf holds anything that could be handled now: the loop in
\* ListenMessages (web_socket_server.cpp:248-267) has called Receive until then.
NothingStranded == Open /\ at = "select" =>
  /\ decrypted = read
  /\ ~ garbled => read - parsed < FrontSize

\* The process ends by the parsers only for a request with an empty field, or
\* when what has been read of a frame ends within its header (client.cpp:214,
\* 223; websocket.c:58, 308, 322).  Bytes that start no frame may read as one
\* with the longest header, of 14 bytes; with more of them it goes on.
DiesOnlyInHeader == status = "dead" =>
  IF ~ handshaked THEN \E name \in FieldName : Has(request, name, {"empty"})
  ELSE IF garbled THEN read - parsed < 14
  ELSE /\ Next1 \in DOMAIN frames
       /\ read - parsed < HeaderSize(frames[Next1].len)

\* A text frame that fits and whose bytes have all been sent reaches OnMessage,
\* if those before it are such, unless the connection ends or is garbled.
Whole(i) == /\ i \in DOMAIN frames
            /\ frames[i].start + FrameSize(frames[i].len) <= sealed
            /\ \A j \in 1 .. i : /\ ReadRight(frames[j].len)
                                 /\ frames[j].len < MSG_LEN
MessagesArrive == \A i \in 1 .. MaxFrames : Whole(i) ~> (Len(delivered) >= i \/ ~ Open \/ garbled)
=============================================================================

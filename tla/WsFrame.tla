------------------------------- MODULE WsFrame -------------------------------
(***************************************************************************)
(* The WebSocket codec (cwebsocket/websocket.c) as operators.  A frame is  *)
(* [type, len]: what kind it is and the bytes of its payload; only lengths *)
(* matter here.  RFC 6455 gives a frame a header of two bytes, a longer    *)
(* length of two or eight bytes in network order if the payload has more   *)
(* than 125 bytes, and, from browser to server, a mask of four bytes.      *)
(***************************************************************************)
EXTENDS Naturals

\* A length of 2^16 or more read with its eight bytes in the wrong order: at
\* least 2^32 for any message below 4 GiB.  It stands for all of those.
Beyond == 2147483647

\* What opcode and flags make of a frame; "error" is an opcode the parser does
\* not know, a continuation, an extension bit, or a frame without a mask.
FrameType == {"text", "binary", "ping", "pong", "closing", "error"}

\* Reference: the bytes a browser puts before a payload, and the whole frame.
ExtraBytes(len) == IF len <= 125 THEN 0 ELSE IF len <= 65535 THEN 2 ELSE 8
HeaderSize(len) == 6 + ExtraBytes(len)
FrameSize(len) == HeaderSize(len) + len

\* Two bytes written in one order and read in the other.
Swapped16(n) == (n % 256) * 256 + n \div 256

\* What getPayloadLength reads when the browser has written len: the longer
\* lengths are copied as they are, without ntohs.
PayloadLength(len) == IF len <= 125 THEN len
                      ELSE IF len <= 65535 THEN Swapped16(len) ELSE Beyond

ReadRight(len) == PayloadLength(len) = len

(***************************************************************************)
(* wsParseInputFrame on n bytes that read as a frame of some type, with    *)
(* data bytes of payload announced and a length of 7 bits and extra bytes. *)
(* The number of bytes after the header is n - header in size_t: when not  *)
(* even the header has come it wraps to a number no payload exceeds, so    *)
(* that the frame counts as complete.  A frame without payload is not      *)
(* looked at further.                                                      *)
(***************************************************************************)
Incomplete == [type |-> "incomplete", dataLength |-> 0, frameLength |-> 0]
Malformed  == [type |-> "error", dataLength |-> 0, frameLength |-> 0]

LengthMissing(extra, n) == n < 2 + extra
PayloadMissing(data, extra, n) == data > 0 /\ n >= 6 + extra /\ data > n - (6 + extra)

Complete(type, data, extra) ==
  [type |-> type, dataLength |-> data, frameLength |-> data + 6 + extra]

Parsed(type, data, extra, n) ==
  IF n < 2 THEN Incomplete
  ELSE IF type = "error" THEN Malformed
  ELSE IF LengthMissing(extra, n) \/ PayloadMissing(data, extra, n) THEN Incomplete
  ELSE Complete(type, data, extra)

\* The parser without the second test, as if a header meant a whole frame.
wsParseInputFrameUnchecked(f, n) ==
  IF n < 2 \/ LengthMissing(ExtraBytes(f.len), n) THEN Incomplete
  ELSE Complete(f.type, PayloadLength(f.len), ExtraBytes(f.len))

\* The first n bytes of frame f.
wsParseInputFrame(f, n) == Parsed(f.type, PayloadLength(f.len), ExtraBytes(f.len), n)

(***************************************************************************)
(* wsMakeFrame: the size of the frame and the length in it, with the order *)
(* of its bytes; the server does not mask.                                 *)
(***************************************************************************)
NoFrame == [size |-> 0, length |-> 0, order |-> "none"]

wsMakeFrame(dataLength, outLength) ==
  LET header == IF dataLength <= 125 THEN 2 ELSE IF dataLength <= 65535 THEN 4 ELSE 10
  IN  IF outLength < header + dataLength THEN NoFrame
      ELSE [size |-> header + dataLength, length |-> dataLength,
            order |-> IF dataLength > 65535 THEN "host" ELSE "network"]

(***************************************************************************)
(* wsParseHandshake on the first n bytes of a request.  A request is its   *)
(* length, whether it is a GET, and its fields; a field has the value the  *)
(* server wants, another one, or one whose length is 0 in eight bits,      *)
(* "empty": getUptoLinefeed fails its assertion on it.  The value of the   *)
(* protocol field is not read.                                             *)
(***************************************************************************)
FieldName == {"Host", "Origin", "Sec-WebSocket-Key", "Sec-WebSocket-Protocol",
              "Sec-WebSocket-Version", "Connection", "Upgrade"}
Field == [name : FieldName, value : {"wanted", "other", "empty"}]
Request == [len : Nat \ {0}, get : BOOLEAN, fields : SUBSET Field]

Has(req, name, values) == \E fld \in req.fields : fld.name = name /\ fld.value \in values

Acceptable(req) ==
  /\ Has(req, "Host", {"wanted", "other"})
  /\ Has(req, "Sec-WebSocket-Key", {"wanted", "other"})
  /\ Has(req, "Connection", {"wanted"})
  /\ Has(req, "Upgrade", {"wanted"})
  /\ ~ Has(req, "Sec-WebSocket-Protocol", {"wanted", "other", "empty"})
  /\ ~ Has(req, "Sec-WebSocket-Version", {"other"})

wsParseHandshake(req, n) ==
  IF n < req.len THEN "incomplete"
  ELSE IF ~ req.get THEN "error"
  ELSE IF \E name \in FieldName \ {"Sec-WebSocket-Protocol"} : Has(req, name, {"empty"})
       THEN "assertion"
  ELSE IF Acceptable(req) THEN "opening" ELSE "error"
=============================================================================

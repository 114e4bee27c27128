--------------------------- MODULE MCClientBuffer ---------------------------
(* Values for checking ClientBuffer. *)
EXTENDS ClientBuffer

Fields(names, value) == {[name |-> n, value |-> value] : n \in names}
Needed == {"Host", "Sec-WebSocket-Key", "Connection", "Upgrade"}

\* A request as browsers send it, one without a key, and one with an empty host.
MCRequests ==
  {[len |-> 12, get |-> TRUE, fields |-> Fields(Needed, "wanted")],
   [len |-> 12, get |-> TRUE, fields |-> Fields({"Host"}, "other")],
   [len |-> 12, get |-> TRUE, fields |-> Fields({"Host"}, "empty")]}

\* Bytes that start no frame read as a message, as one announced much longer
\* than it is, or as nothing the server takes.
MCGarbage ==
  {[type |-> "text", data |-> 20, extra |-> 0],
   [type |-> "text", data |-> 100, extra |-> 2],
   [type |-> "closing", data |-> 0, extra |-> 0]}
=============================================================================

---------------------------- MODULE Subscriptions ----------------------------
(***************************************************************************)
(* What the log server promises its clients.  A client asks for files; a   *)
(* line of a file goes to the client that asked for it, while it is there; *)
(* and a client is gone only when nothing it asked for is left.            *)
(***************************************************************************)
CONSTANTS Client,
          File,  \* names of log files
          Log    \* what the server uses to tell subscriptions apart

VARIABLES members,  \* the clients that are connected
          subs,     \* subscriptions: who asked for what
          sending   \* at most one line on its way: of which, and to whom

vars == <<members, subs, sending>>

Init == members = {} /\ subs = {} /\ sending = {}

Join(c) ==
  /\ c \notin members
  /\ members' = members \cup {c}
  /\ UNCHANGED <<subs, sending>>

Leave(c) ==
  /\ \A s \in subs : s.client # c
  /\ members' = members \ {c}
  /\ UNCHANGED <<subs, sending>>

Subscribe(s) ==
  /\ s.client \in members
  /\ \A r \in subs : r.log # s.log
  /\ subs' = subs \cup {s}
  /\ UNCHANGED <<members, sending>>

\* Not while a line of it is on its way.
End(s) ==
  /\ \A x \in sending : x.sub # s
  /\ subs' = subs \ {s}
  /\ UNCHANGED <<members, sending>>

Send(s) ==
  /\ sending = {}
  /\ sending' = {[sub |-> s, to |-> s.client]}
  /\ UNCHANGED <<members, subs>>

Sent ==
  /\ sending # {}
  /\ sending' = {}
  /\ UNCHANGED <<members, subs>>

Next ==
  \/ \E c \in Client : Join(c)
  \/ \E c \in members : Leave(c)
  \/ \E s \in [log : Log, client : members, file : File] : Subscribe(s)
  \/ \E s \in subs : End(s) \/ Send(s)
  \/ Sent

Spec == Init /\ [][Next]_vars
=============================================================================

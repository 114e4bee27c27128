------------------------------ MODULE Launcher ------------------------------
(***************************************************************************)
(* How the panel keeps a log server running (plib/controllers/             *)
(* IndexController.php): every load of the page asks pgrep for a process   *)
(* called log-server and starts one if there is none.  A server that does  *)
(* not get the port ends its thread ListenConnections but not the process. *)
(* Nothing tells the page, and nobody ends such a process.                 *)
(***************************************************************************)
EXTENDS Naturals

CONSTANTS
  Loads,       \* page loads that may go on at the same time
  Servers,     \* processes that may run at the same time
  CertificateReadable,  \* the key and the certificate are where they should be
  MaxCrashes   \* bound: servers that end

VARIABLES
  load,        \* of each load: "none", "loading", "starting"
  server,      \* of each process: "none", "starting", "accepting", "idle"
  port,        \* "free"; "bound"; "held" by connections of a dead server that
               \* are still closing, or by a tail that inherited the socket
  crashes

vars == <<load, server, port, crashes>>

Init ==
  /\ load = [l \in Loads |-> "none"]
  /\ server = [s \in Servers |-> "none"]
  /\ port = "free"
  /\ crashes = 0

Request(l) ==
  /\ load[l] = "none"
  /\ load' = [load EXCEPT ![l] = "loading"]
  /\ UNCHANGED <<server, port, crashes>>

\* exec("pgrep log-server").
Pgrep(l) ==
  /\ load[l] = "loading"
  /\ load' = [load EXCEPT ![l] =
                IF \E s \in Servers : server[s] # "none" THEN "none" ELSE "starting"]
  /\ UNCHANGED <<server, port, crashes>>

\* exec("bin/log-server ... &").
Start(l) ==
  /\ load[l] = "starting"
  /\ \E s \in Servers : /\ server[s] = "none"
                        /\ server' = [server EXCEPT ![s] = "starting"]
  /\ load' = [load EXCEPT ![l] = "none"]
  /\ UNCHANGED <<port, crashes>>

\* InitSSL, then ListenSocket, which does not ask to reuse the address.  When
\* one of them fails, ListenConnections returns.
ListenSocket(s) ==
  /\ server[s] = "starting"
  /\ IF CertificateReadable /\ port = "free"
     THEN server' = [server EXCEPT ![s] = "accepting"] /\ port' = "bound"
     ELSE server' = [server EXCEPT ![s] = "idle"] /\ UNCHANGED port
  /\ UNCHANGED <<load, crashes>>

\* SIGPIPE, a failed assertion or an administrator ends a server.
Crash(s) ==
  /\ server[s] = "accepting"
  /\ crashes < MaxCrashes
  /\ crashes' = crashes + 1
  /\ server' = [server EXCEPT ![s] = "none"]
  /\ port' \in {"free", "held"}
  /\ UNCHANGED load

PortFreed ==
  /\ port = "held"
  /\ port' = "free"
  /\ UNCHANGED <<load, server, crashes>>

Next == \/ \E l \in Loads : Request(l) \/ Pgrep(l) \/ Start(l)
        \/ \E s \in Servers : ListenSocket(s) \/ Crash(s)
        \/ PortFreed

\* PHP, the new process and the kernel go on; nobody need load the page.
Spec == /\ Init /\ [][Next]_vars
        /\ \A l \in Loads : WF_vars(Pgrep(l)) /\ WF_vars(Start(l))
        /\ \A s \in Servers : WF_vars(ListenSocket(s))
        /\ WF_vars(PortFreed)
-----------------------------------------------------------------------------
\* "Check working of log server and start it if needed." (IndexController.php:29):
\* after a page load some server accepts connections.
WorksAfterLoad ==
  \A l \in Loads : load[l] = "loading" ~> \E s \in Servers : server[s] = "accepting"
=============================================================================

---------------------------- MODULE LauncherProofs ----------------------------
(***************************************************************************)
(* Proofs about Launcher, for any number of page loads, processes and      *)
(* crashes: the port belongs to at most one server, and a server that did  *)
(* not get it ends the service for good once the one that has it is gone.  *)
(***************************************************************************)
EXTENDS Launcher, TLAPS

Serving == \E s \in Servers : server[s] = "accepting"

LauncherTypeOK ==
  /\ load \in [Loads -> {"none", "loading", "starting"}]
  /\ server \in [Servers -> {"none", "starting", "accepting", "idle"}]
  /\ port \in {"free", "bound", "held"}

\* However many loads start a server at once, one has the port.
OneServes ==
  /\ port = "bound" <=> Serving
  /\ \A s, t \in Servers : server[s] = "accepting" /\ server[t] = "accepting" => s = t

LauncherInv == LauncherTypeOK /\ OneServes

\* Some server is there, none accepts, and none is on its way.
Stuck ==
  /\ \E s \in Servers : server[s] = "idle"
  /\ \A s \in Servers : server[s] \in {"none", "idle"}
  /\ \A l \in Loads : load[l] # "starting"

-----------------------------------------------------------------------------
\* The initial state satisfies the invariant.
LEMMA LauncherInit == Init => LauncherInv
BY DEF Init, LauncherInv, LauncherTypeOK, OneServes, Serving

\* Every step preserves it.
LEMMA LauncherStep == LauncherInv /\ [Next]_vars => LauncherInv'
<1> SUFFICES ASSUME LauncherInv, [Next]_vars PROVE LauncherInv'
  OBVIOUS
<1> USE DEF LauncherInv, LauncherTypeOK, OneServes, Serving
<1>1. ASSUME NEW l \in Loads, Request(l) \/ Pgrep(l) PROVE LauncherInv'
  BY <1>1 DEF Request, Pgrep
<1>2. ASSUME NEW l \in Loads, Start(l) PROVE LauncherInv'
  BY <1>2 DEF Start
<1>3. ASSUME NEW s \in Servers, ListenSocket(s) PROVE LauncherInv'
  <2>1. CASE CertificateReadable /\ port = "free"
    BY <1>3, <2>1 DEF ListenSocket
  <2>2. CASE ~(CertificateReadable /\ port = "free")
    BY <1>3, <2>2 DEF ListenSocket
  <2> QED
    BY <2>1, <2>2
<1>4. ASSUME NEW s \in Servers, Crash(s) PROVE LauncherInv'
  BY <1>4 DEF Crash
<1>5. CASE PortFreed
  BY <1>5 DEF PortFreed
<1>6. CASE UNCHANGED vars
  BY <1>6 DEF vars
<1> QED
  BY <1>1, <1>2, <1>3, <1>4, <1>5, <1>6 DEF Next

\* The invariant holds in every reachable state.
THEOREM LauncherInvariant == Spec => []LauncherInv
BY LauncherInit, LauncherStep, PTL DEF Spec

\* At most one server ever accepts connections, and it is the one that has the
\* port: starting more than one does no harm while it lives.
THEOREM AtMostOneServes == Spec => []OneServes
<1>1. LauncherInv => OneServes
  BY DEF LauncherInv
<1> QED
  BY <1>1, LauncherInvariant, PTL

\* Every step keeps the service stuck: pgrep finds the idle server.
LEMMA StuckStep == LauncherInv /\ Stuck /\ [Next]_vars => Stuck'
<1> SUFFICES ASSUME LauncherInv, Stuck, [Next]_vars PROVE Stuck'
  OBVIOUS
<1> USE DEF LauncherInv, LauncherTypeOK, Stuck
<1>1. ASSUME NEW l \in Loads, Request(l) PROVE Stuck'
  BY <1>1 DEF Request
<1>2. ASSUME NEW l \in Loads, Pgrep(l) PROVE Stuck'
  <2>1. load' = [load EXCEPT ![l] = "none"] /\ UNCHANGED server
    BY <1>2 DEF Pgrep
  <2> QED
    BY <2>1
<1>3. ASSUME NEW l \in Loads, Start(l) PROVE Stuck'
  BY <1>3 DEF Start
<1>4. ASSUME NEW s \in Servers, ListenSocket(s) \/ Crash(s) PROVE Stuck'
  BY <1>4 DEF ListenSocket, Crash
<1>5. CASE PortFreed \/ UNCHANGED vars
  BY <1>5 DEF PortFreed, vars
<1> QED
  BY <1>1, <1>2, <1>3, <1>4, <1>5 DEF Next

\* Once the only server that is there is one without the port, none ever
\* accepts a connection again, whatever pages are loaded: the check that is to
\* start the server (IndexController.php:29-32) is what keeps it from starting.
THEOREM StuckForGood == Spec => [](Stuck => []~Serving)
<1>1. Stuck => ~Serving
  BY DEF Stuck, Serving
<1> QED
  BY <1>1, StuckStep, LauncherInvariant, PTL DEF Spec

\* A crash of the server that has the port leads there at once if a server
\* without the port is left and none is on its way.
THEOREM CrashLeavesStuck ==
  ASSUME LauncherInv, NEW s \in Servers, Crash(s),
         \E t \in Servers : server[t] = "idle",
         \A t \in Servers : server[t] # "starting",
         \A l \in Loads : load[l] # "starting"
  PROVE  Stuck'
<1> USE DEF LauncherInv, LauncherTypeOK
<1>1. server' = [server EXCEPT ![s] = "none"] /\ UNCHANGED load /\ server[s] = "accepting"
  BY DEF Crash
<1>2. \A t \in Servers : t # s => server[t] \in {"none", "idle"} /\ server'[t] = server[t]
  BY <1>1 DEF OneServes
<1> QED
  BY <1>1, <1>2 DEF Stuck
=============================================================================

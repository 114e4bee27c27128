------------------------------- MODULE Mailbox -------------------------------
(***************************************************************************)
(* What a connection promises the server: while it is sound, the messages  *)
(* put into it come out in the order they went in, none twice and none     *)
(* left out, and each as it went in.  It stops being sound at a message    *)
(* that is not Intact, which may come out changed, or when two messages    *)
(* are in it at once.  Then it may let out anything, but takes back        *)
(* nothing that has come out.                                              *)
(***************************************************************************)
EXTENDS Naturals, Sequences

CONSTANT Intact  \* the messages a sound connection may not change

VARIABLES put,   \* all messages put so far
          got,   \* all messages taken out
          open,  \* the connection still delivers
          sound  \* what comes out is what was put in

vars == <<put, got, open, sound>>

Init == put = << >> /\ got = << >> /\ open = TRUE /\ sound = TRUE

Put == /\ Len(put') = Len(put) + 1
       /\ SubSeq(put', 1, Len(put)) = put
       /\ UNCHANGED <<got, open, sound>>

OneMore == Len(got') = Len(got) + 1 /\ SubSeq(got', 1, Len(got)) = got

\* The oldest message that has not come out comes out; behind it there may be
\* another.
Get == /\ open /\ sound
       /\ Len(got) < Len(put)
       /\ got' = Append(got, put[Len(got) + 1])
       /\ sound' \in BOOLEAN
       /\ ~ sound' => Len(got') < Len(put)
       /\ UNCHANGED <<put, open>>

GetAltered == /\ open /\ sound
              /\ Len(got) < Len(put)
              /\ put[Len(got) + 1] \notin Intact
              /\ OneMore
              /\ sound' = FALSE
              /\ UNCHANGED <<put, open>>

\* The first message is behind what opens the connection.
Slip == /\ open /\ sound
        /\ got = << >> /\ put # << >>
        /\ sound' = FALSE
        /\ UNCHANGED <<put, got, open>>

GetAnything == open /\ ~ sound /\ OneMore /\ UNCHANGED <<put, open, sound>>

Close == open /\ open' = FALSE /\ UNCHANGED <<put, got, sound>>

Next == Put \/ Get \/ GetAltered \/ Slip \/ GetAnything \/ Close

Spec == Init /\ [][Next]_vars
=============================================================================

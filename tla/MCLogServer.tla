----------------------------- MODULE MCLogServer -----------------------------
(* Values for checking LogServer. *)
EXTENDS LogServer, TLC

\* Requests that are understood, and one that is not.
MCText == [op : {"add", "del"}, file : File]
            \cup {[op |-> "junk", file |-> CHOOSE f \in File : TRUE]}
MCAdds == [op : {"add"}, file : File]

MCFd2 == 3 .. 4
MCFd3 == 3 .. 5
MCFd4 == 3 .. 6
MCFd5 == 3 .. 7

MCSymmetry == Permutations(Conn) \cup Permutations(Log)
=============================================================================

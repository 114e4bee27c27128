----------------------------- MODULE MCLineFlow -----------------------------
(* One log of a few lines, on a page that shows two at once.  Two lines have  *)
(* no time; the fourth is of a request that began before the others and ended *)
(* after them, which is when it is written.                                   *)
EXTENDS LineFlow

MCUndated == {2, 5}
MCTime == [line \in 1 .. MaxLines |-> IF line = 4 THEN 1 ELSE line + 1]
=============================================================================

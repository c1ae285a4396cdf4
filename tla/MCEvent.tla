------------------------------- MODULE MCEvent -------------------------------
(* Small instances of Event: two of three watches share a socket; of two    *)
(* widgets that wait for n1 the first triggers n2, for which a third waits. *)
EXTENDS Event, TLC

CONSTANTS w1, w2, w3, d1, d2, x1, x2, x3, n1, n2

SharedFd == (w1 :> d1) @@ (w2 :> d1) @@ (w3 :> d2)

\* To read; to write, once libdbus enables it.
Wanted == {[read |-> TRUE, write |-> FALSE, active |-> TRUE],
           [read |-> FALSE, write |-> TRUE, active |-> FALSE]}

TwoOnOne == (x1 :> n1) @@ (x2 :> n1) @@ (x3 :> n2)

FirstTriggers == (x1 :> n2) @@ (x2 :> Nothing) @@ (x3 :> Nothing)
=============================================================================

------------------------------- MODULE MCEngine -------------------------------
(* TLC instances of Engine: a one-sided touch, a balanced one and the two   *)
(* signals, at a threshold of one half.                                     *)
EXTENDS Engine

MCTouch == {[two_sided |-> FALSE, bid |-> 3, ask |-> 0],
            [two_sided |-> TRUE, bid |-> 1, ask |-> 1],
            [two_sided |-> TRUE, bid |-> 4, ask |-> 1],
            [two_sided |-> TRUE, bid |-> 1, ask |-> 4]}
=============================================================================

----------------------------- MODULE MCSpscQueue -----------------------------
(* TLC instances of SpscQueue: positions wrap after two laps of the ring.  *)
EXTENDS SpscQueue

CONSTANTS v0, v1      \* model values: the queued values differ and no more

MCValue == {v0, v1}
=============================================================================

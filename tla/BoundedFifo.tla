----------------------------- MODULE BoundedFifo -----------------------------
(***************************************************************************)
(* What the single-producer / single-consumer queue promises its callers:  *)
(* a FIFO sequence of at most Capacity values.  `delivered' is the value   *)
(* the consumer's latest pop() has taken out.  A push() or a pop() that    *)
(* returns false changes nothing, so it is a stuttering step here.         *)
(***************************************************************************)
EXTENDS Naturals, Sequences

CONSTANTS Value,      \* the values that can be queued (T)
          Capacity,   \* template argument Capacity
          InitValue   \* what the consumer's variable holds before any pop

VARIABLES q, delivered

vars == << q, delivered >>

Init ==
  /\ q = << >>
  /\ delivered = InitValue

Push(v) ==
  /\ Len(q) < Capacity
  /\ q' = Append(q, v)
  /\ UNCHANGED delivered

Pop ==
  /\ q # << >>
  /\ delivered' = Head(q)
  /\ q' = Tail(q)

Next == (\E v \in Value : Push(v)) \/ Pop

Spec == Init /\ [][Next]_vars
=============================================================================

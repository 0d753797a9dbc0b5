----------------------------- MODULE EngineShared -----------------------------
(***************************************************************************)
(* The state that the engine's threads share (engine.hpp): the order and   *)
(* fill queues, the running flag and the kill flag.  The queues are the    *)
(* bounded FIFOs that SpscQueue implements.                                *)
(***************************************************************************)
EXTENDS Integers, Sequences

CONSTANTS OrderQCap, FillQCap,  \* capacities of the two queues
          OrderSize,            \* EngineConfig::order_size
          MaxOrders             \* bound: orders the strategy may emit

ASSUME SharedAssumption ==
  /\ OrderQCap \in Nat /\ OrderQCap >= 2
  /\ FillQCap \in Nat /\ FillQCap >= 2
  /\ OrderSize \in Nat \ {0}
  /\ MaxOrders \in Nat

VARIABLES order_q,   \* strategy -> gateway
          fill_q,    \* gateway -> strategy
          running,   \* cleared by stop()
          kill,      \* set by trip_kill_switch()
          kill_seen  \* what the gateway's relaxed load of kill returns

flagVars == << running, kill, kill_seen >>
sharedVars == << order_q, fill_q, flagVars >>

Side == {"B", "S"}
OrderId == 0 .. MaxOrders

\* OrderRequest, and the ExecReport that answers it: the identity, side and
\* size; prices, symbols and time stamps decide nothing here.
Order == [id : OrderId, side : Side, size : {0, OrderSize}]
NoOrder == [id |-> 0, side |-> "S", size |-> 0]

Signed(o) == IF o.side = "B" THEN o.size ELSE -o.size

SharedTypeOK ==
  /\ order_q \in Seq(Order) /\ Len(order_q) <= OrderQCap
  /\ fill_q \in Seq(Order) /\ Len(fill_q) <= FillQCap
  /\ running \in BOOLEAN /\ kill \in BOOLEAN /\ kill_seen \in BOOLEAN

SharedInit ==
  /\ order_q = << >> /\ fill_q = << >>
  /\ running = TRUE /\ kill = FALSE /\ kill_seen = FALSE
=============================================================================

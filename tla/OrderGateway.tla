----------------------------- MODULE OrderGateway -----------------------------
(***************************************************************************)
(* The order gateway thread (order_gateway.hpp): fills from the wire are   *)
(* matched against the in-flight table and forwarded, orders pass the risk *)
(* gate, are entered in the table and sent.  The rate limiter's verdict is *)
(* a free choice where it is switched on (RiskGate models its clock).      *)
(***************************************************************************)
EXTENDS EngineShared

CONSTANTS InFlightCapacity,           \* template argument, a power of two
          MaxPosition, MaxOrderSize,  \* RiskLimits
          RateLimited                 \* is the rate limiter switched on?

ASSUME GatewayAssumption ==
  /\ InFlightCapacity \in Nat \ {0}
  /\ MaxPosition \in Nat /\ MaxOrderSize \in Nat
  /\ RateLimited \in BOOLEAN

VARIABLES gw_position,   \* RiskGate::position_
          inflight,      \* the direct-mapped table
          gwPc,          \* where the thread is in run() / poll_once()
          gwOrder,       \* the order in hand
          gwFill,        \* the fill being forwarded
          orderWire,     \* order datagrams on their way to the exchange
          fillWire       \* fill datagrams on their way back

gwVars == << gw_position, inflight, gwPc, gwOrder, gwFill >>
wireVars == << orderWire, fillWire >>

Entry == [id : OrderId, active : BOOLEAN]
TableIndex == 0 .. InFlightCapacity - 1

GatewayTypeOK ==
  /\ gw_position \in -MaxPosition .. MaxPosition
  /\ inflight \in [TableIndex -> Entry]
  /\ gwPc \in {"top", "drain", "forward", "order", "check", "send", "done"}
  /\ gwOrder \in Order /\ gwFill \in Order
  /\ orderWire \subseteq Order /\ fillWire \subseteq Order

GatewayInit ==
  /\ gw_position = 0
  /\ inflight = [i \in TableIndex |-> [id |-> 0, active |-> FALSE]]
  /\ gwPc = "top" /\ gwOrder = NoOrder /\ gwFill = NoOrder
  /\ orderWire = {} /\ fillWire = {}

Gate == INSTANCE RiskGate
          WITH kill <- kill_seen, position <- gw_position, Size <- {0, OrderSize},
               CyclesPerToken <- 0, Burst <- 0, MaxFilled <- 0, MaxNow <- 0, MaxAccepts <- 0,
               tat <- 0, now <- 0, result <- 0, acceptLog <- << >>
-----------------------------------------------------------------------------
\* run(): the loop condition.
GwTop ==
  /\ gwPc = "top"
  /\ gwPc' = IF running THEN "drain" ELSE "done"
  /\ UNCHANGED << gw_position, inflight, gwOrder, gwFill, wireVars, sharedVars >>

\* handle_fill(): the report answers the active entry of its slot, or not.
Slot(id) == id % InFlightCapacity
Matches(r) == inflight[Slot(r.id)].active /\ inflight[Slot(r.id)].id = r.id

\* Mutant: the entry stays active after its fill.
Retire_Forgotten(id) == inflight
Retire(id) == [inflight EXCEPT ![Slot(id)].active = FALSE]

\* A fill is received: it answers the order in its slot, or is passed over.
GwFillMatched(r) ==
  /\ gwPc = "drain" /\ r \in fillWire /\ Matches(r)
  /\ inflight' = Retire(r.id)
  /\ gw_position' = gw_position + Signed(r)
  /\ gwFill' = r
  /\ gwPc' = "forward"
  /\ fillWire' = fillWire \ {r}
  /\ UNCHANGED << gwOrder, orderWire, sharedVars >>
GwFillUnmatched(r) ==
  /\ gwPc = "drain" /\ r \in fillWire /\ ~Matches(r)
  /\ fillWire' = fillWire \ {r}
  /\ UNCHANGED << gwVars, orderWire, sharedVars >>
GwReceive(r) == GwFillMatched(r) \/ GwFillUnmatched(r)

\* Spin until the fill queue takes the report.
GwForward ==
  /\ gwPc = "forward" /\ Len(fill_q) < FillQCap
  /\ fill_q' = Append(fill_q, gwFill)
  /\ gwPc' = "drain"
  /\ UNCHANGED << gw_position, inflight, gwOrder, gwFill, wireVars, order_q, flagVars >>

\* try_recv() has nothing (yet).  (The batch limit of 32 exceeds MaxOrders.)
GwDrained ==
  /\ gwPc = "drain"
  /\ gwPc' = "order"
  /\ UNCHANGED << gw_position, inflight, gwOrder, gwFill, wireVars, sharedVars >>

GwNoOrder ==
  /\ gwPc = "order" /\ order_q = << >>
  /\ gwPc' = "top"
  /\ UNCHANGED << gw_position, inflight, gwOrder, gwFill, wireVars, sharedVars >>
GwPop ==
  /\ gwPc = "order" /\ order_q # << >>
  /\ gwOrder' = Head(order_q)
  /\ order_q' = Tail(order_q)
  /\ gwPc' = "check"
  /\ UNCHANGED << gw_position, inflight, gwFill, wireVars, fill_q, flagVars >>

\* check(), apart from the rate limiter.  Mutant: the kill flag is not consulted.
Refused_NoKill(o) == Gate!SizeBad(o) \/ Gate!PositionBad(o)
Refused(o) == kill_seen \/ Gate!SizeBad(o) \/ Gate!PositionBad(o)

\* The limiter tolerates at least one token of debt, so it never refuses the
\* first two orders; from then on its verdict is a free choice.
MayBeRateLimited(o) == RateLimited /\ o.id > 2

\* risk_.check() says no: the order is dropped, and nobody is told.
GwReject ==
  /\ gwPc = "check" /\ (Refused(gwOrder) \/ MayBeRateLimited(gwOrder))
  /\ gwPc' = "top"
  /\ UNCHANGED << gw_position, inflight, gwOrder, gwFill, wireVars, sharedVars >>

\* It says yes: the order takes its slot of the table, whoever was there.
GwAccept ==
  /\ gwPc = "check" /\ ~Refused(gwOrder)
  /\ inflight' = [inflight EXCEPT ![Slot(gwOrder.id)] = [id |-> gwOrder.id, active |-> TRUE]]
  /\ gwPc' = "send"
  /\ UNCHANGED << gw_position, gwOrder, gwFill, wireVars, sharedVars >>
GwSend ==
  /\ gwPc = "send"
  /\ orderWire' = orderWire \cup {gwOrder}
  /\ gwPc' = "top"
  /\ UNCHANGED << gw_position, inflight, gwOrder, gwFill, fillWire, sharedVars >>
=============================================================================

------------------------------- MODULE Strategy -------------------------------
(***************************************************************************)
(* The imbalance strategy and its thread runner (strategy.hpp).  A market  *)
(* data event is represented by the touch the book shows after applying it *)
(* (BookView models how the book gets there).                              *)
(***************************************************************************)
EXTENDS EngineShared

CONSTANTS Touch,           \* touches an event may lead to: [two_sided, bid, ask]
          ThrNum, ThrDen   \* thr_num_ / kThrDen

VARIABLES position,       \* position_: net shares
          in_flight,      \* in_flight_: an order is outstanding
          last_order_id,
          stratPc,        \* where the thread is in run() / poll_once()
          outgoing        \* the order that poll_once() is pushing

stratVars == << position, in_flight, last_order_id, stratPc, outgoing >>

StrategyTypeOK ==
  /\ position \in Int
  /\ in_flight \in BOOLEAN
  /\ last_order_id \in OrderId
  /\ stratPc \in {"top", "fills", "md", "push", "done"}
  /\ outgoing \in Order

StrategyInit ==
  /\ position = 0 /\ in_flight = FALSE /\ last_order_id = 0
  /\ stratPc = "top" /\ outgoing = NoOrder
-----------------------------------------------------------------------------
\* run(): the loop condition.
StratTop ==
  /\ stratPc = "top"
  /\ stratPc' = IF running THEN "fills" ELSE "done"
  /\ UNCHANGED << position, in_flight, last_order_id, outgoing, sharedVars >>

on_fill(r) ==
  /\ position' = position + Signed(r)
  /\ in_flight' = FALSE

\* poll_once(): drain the fills.  (Its batch limit of 16 exceeds MaxOrders.)
StratFill ==
  /\ stratPc = "fills" /\ fill_q # << >>
  /\ on_fill(Head(fill_q))
  /\ fill_q' = Tail(fill_q)
  /\ UNCHANGED << last_order_id, stratPc, outgoing, order_q, flagVars >>
StratFillsDrained ==
  /\ stratPc = "fills" /\ fill_q = << >>
  /\ stratPc' = "md"
  /\ UNCHANGED << position, in_flight, last_order_id, outgoing, sharedVars >>

\* poll_once(): no market data event is waiting.
StratNoMd ==
  /\ stratPc = "md"
  /\ stratPc' = "top"
  /\ UNCHANGED << position, in_flight, last_order_id, outgoing, sharedVars >>

\* The integer cross-products of on_md().
Buy(t) == (t.bid - t.ask) * ThrDen > ThrNum * (t.bid + t.ask)
Sell(t) == -((t.bid - t.ask) * ThrDen) > ThrNum * (t.bid + t.ask)
\* Mutant: the position is not consulted.
WantBuy_AnyPosition(t) == Buy(t)
WantBuy(t) == Buy(t) /\ position <= 0
WantSell(t) == Sell(t) /\ position >= 0
\* Mutant: an outstanding order does not hold the next one back.
Emits_NoLatch(t) == t.two_sided /\ (WantBuy(t) \/ WantSell(t))
Emits(t) == t.two_sided /\ ~in_flight /\ (WantBuy(t) \/ WantSell(t))

\* on_md(), without and with an order.
StratQuiet(t) ==
  /\ stratPc = "md" /\ ~Emits(t)
  /\ stratPc' = "top"
  /\ UNCHANGED << position, in_flight, last_order_id, outgoing, sharedVars >>
StratEmit(t) ==
  /\ stratPc = "md" /\ Emits(t)
  /\ last_order_id < MaxOrders
  /\ last_order_id' = last_order_id + 1
  /\ outgoing' = [id |-> last_order_id + 1,
                  side |-> IF WantBuy(t) THEN "B" ELSE "S",
                  size |-> OrderSize]
  /\ in_flight' = TRUE
  /\ stratPc' = "push"
  /\ UNCHANGED << position, sharedVars >>

\* emit: spin until the order queue takes the order.
StratPush ==
  /\ stratPc = "push" /\ Len(order_q) < OrderQCap
  /\ order_q' = Append(order_q, outgoing)
  /\ stratPc' = "top"
  /\ UNCHANGED << position, in_flight, last_order_id, outgoing, fill_q, flagVars >>

StratStep ==
  \/ StratTop \/ StratFill \/ StratFillsDrained \/ StratNoMd \/ StratPush
  \/ \E t \in Touch : StratQuiet(t) \/ StratEmit(t)
=============================================================================

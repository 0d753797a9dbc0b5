----------------------------- MODULE EngineProofs -----------------------------
(***************************************************************************)
(* The safety of the order path, for every capacity of the queues and the  *)
(* in-flight table, every number of orders and restarts, every order size  *)
(* and limit, and every fault the network is allowed.                      *)
(***************************************************************************)
EXTENDS Engine, SequenceTheorems, TLAPS

LEMMA SignedType == \A o \in Order : Signed(o) \in Int /\ Signed(o) \in {-o.size, o.size}
  BY SharedAssumption DEF Signed, Order

LEMMA SlotType == \A id \in OrderId : Slot(id) \in TableIndex
  BY SharedAssumption, GatewayAssumption DEF OrderId, Slot, TableIndex

(***************************************************************************)
(* An order in one place at a time is what the sum over the places counts. *)
(***************************************************************************)
LEMMA OnePlaceCounts ==
  ASSUME TypeOK, InOnePlace, OnlyLatest
  PROVE  OneOutstanding
<1> DEFINE push == B2N(stratPc = "push")
           check == B2N(gwPc = "check")
           entered == B2N(ActiveEntries # {})
           forward == B2N(gwPc = "forward")
           latch == B2N(in_flight)
<1>1. /\ IF stratPc = "push" THEN push = 1 ELSE push = 0
      /\ IF gwPc = "check" THEN check = 1 ELSE check = 0
      /\ IF Entered THEN entered = 1 ELSE entered = 0
      /\ IF gwPc = "forward" THEN forward = 1 ELSE forward = 0
      /\ IF in_flight THEN latch = 1 ELSE latch = 0
  BY Zenon DEF B2N, Entered
<1>2. /\ IF order_q = << >> THEN Len(order_q) = 0 ELSE Len(order_q) = 1
      /\ IF fill_q = << >> THEN Len(fill_q) = 0 ELSE Len(fill_q) = 1
  <2>1. Len(<< >>) = 0 /\ Len(<< outgoing >>) = 1
    OBVIOUS
  <2>2. QED
    BY <2>1 DEF OnlyLatest
<1>3. Outstanding = push + Len(order_q) + check + entered + forward + Len(fill_q)
  BY DEF Outstanding
<1> HIDE DEF push, check, entered, forward, latch
<1>4. CASE in_flight
  <2>1. latch = 1
    BY <1>1, <1>4, Zenon
  <2>2. Outstanding <= 1
    <3>1. CASE AtGate
      BY <1>1, <1>2, <1>3, <3>1 DEF InOnePlace, AtGate, Returning
    <3>2. CASE ~AtGate
      BY <1>1, <1>2, <1>3, <3>2 DEF InOnePlace, AtGate, Returning
    <3>3. QED
      BY <3>1, <3>2
  <2>3. QED
    BY <2>1, <2>2 DEF OneOutstanding, OnlyLatest, latch
<1>5. CASE ~in_flight
  <2>1. latch = 0 /\ ~AtGate /\ ~Entered /\ ~Returning
    BY <1>1, <1>5, Zenon DEF InOnePlace
  <2>2. Outstanding = 0
    BY <1>1, <1>2, <1>3, <2>1 DEF AtGate, Returning
  <2>3. QED
    BY <2>1, <2>2 DEF OneOutstanding, OnlyLatest, latch
<1>6. QED
  BY <1>4, <1>5

LEMMA InitIInv == Init => IInv
<1> SUFFICES ASSUME Init PROVE IInv
  OBVIOUS
<1> USE SharedAssumption, GatewayAssumption, FaultsAssumption
<1> USE DEF Init, SharedInit, StrategyInit, GatewayInit
<1>1. TypeOK
  <2>1. NoOrder \in Order /\ 0 \in OrderId
    BY DEF NoOrder, Order, OrderId, Side
  <2>2. SharedTypeOK /\ StrategyTypeOK
    <3>1. in_flight \in BOOLEAN /\ running \in BOOLEAN /\ kill \in BOOLEAN /\ kill_seen \in BOOLEAN
      BY Zenon
    <3>2. QED
      BY <2>1, <3>1 DEF SharedTypeOK, StrategyTypeOK
  <2>3. GatewayTypeOK
    BY <2>1 DEF GatewayTypeOK, Entry
  <2>4. dropped \in BOOLEAN
    BY Zenon
  <2>5. QED
    BY <2>2, <2>3, <2>4 DEF TypeOK
<1>2. ActiveEntries = {}
  BY DEF ActiveEntries
<1>3. InOnePlace
  BY <1>2 DEF InOnePlace, AtGate, Entered, Returning
<1>4. OnlyLatest /\ SentOnce
  BY <1>2 DEF OnlyLatest, SentOnce, AtGate, Entered, NoOrder
<1>5. Reduces /\ StrategyBand /\ GateAhead /\ ExchangeAhead /\ KillStopsFlow /\ OneLateSend
  BY <1>2 DEF Reduces, StrategyBand, GateAhead, ExchangeAhead, FirstFills, KillStopsFlow, OneLateSend,
              Entered, Returning
<1>6. QED
  BY <1>1, <1>3, <1>4, <1>5 DEF IInv

-----------------------------------------------------------------------------
(***************************************************************************)
(* A step that only moves the threads on, or sets the flags: an order may  *)
(* disappear, but none moves and no entry, datagram or position changes.   *)
(***************************************************************************)
LEMMA ControlOnly ==
  ASSUME IInv,
         UNCHANGED << position, in_flight, last_order_id, outgoing, order_q, fill_q,
                      gw_position, inflight, gwOrder, gwFill, wireVars,
                      exchVars, lateSends >>,
         running' \in BOOLEAN, kill' \in BOOLEAN, kill_seen' \in BOOLEAN, kill_seen => kill_seen',
         dropped' \in BOOLEAN, restarts' \in 0 .. MaxRestarts,
         stratPc' = stratPc \/ stratPc' \in {"top", "fills", "md", "done"},
         gwPc' = gwPc \/ /\ gwPc \notin {"forward", "send"}
                         /\ gwPc' \in {"top", "drain", "order", "done"}
  PROVE  IInv'
<1> USE DEF IInv, wireVars, exchVars
<1>1. TypeOK'
  <2>1. in_flight' \in BOOLEAN
    BY Zenon DEF TypeOK, StrategyTypeOK
  <2>2. QED
    BY <2>1 DEF TypeOK, SharedTypeOK, StrategyTypeOK, GatewayTypeOK
<1>2. ActiveEntries' = ActiveEntries /\ Entered' = Entered
  BY DEF ActiveEntries, Entered
<1>3. (AtGate' => AtGate) /\ Returning' = Returning
  BY DEF AtGate, Returning
<1>4. InOnePlace'
  <2>1. AtGate' \/ Entered' \/ Returning' => in_flight'
    BY <1>2, <1>3, Zenon DEF InOnePlace
  <2>2. QED
    BY <1>2, <1>3, <2>1 DEF InOnePlace
<1>5. OnlyLatest'
  BY <1>2 DEF OnlyLatest
<1>6. SentOnce'
  BY <1>2, <1>3 DEF SentOnce
<1>7. Reduces' /\ StrategyBand' /\ KillStopsFlow'
  BY Zenon DEF Reduces, StrategyBand, KillStopsFlow
<1>8. GateAhead'
  BY <1>2, <1>3 DEF GateAhead
<1>9. ExchangeAhead'
  BY <1>2 DEF ExchangeAhead, FirstFills
<1>10. OneLateSend'
  BY DEF OneLateSend
<1>11. QED
  BY <1>1, <1>4, <1>5, <1>6, <1>7, <1>8, <1>9, <1>10
-----------------------------------------------------------------------------
(***************************************************************************)
(* The strategy thread.                                                    *)
(***************************************************************************)
LEMMA FillStep ==
  ASSUME IInv, StratFill, UNCHANGED << gwVars, wireVars, historyVars >>
  PROVE  IInv'
<1> USE DEF IInv, StratFill, gwVars, wireVars, historyVars, exchVars, flagVars
<1>1. /\ fill_q = << outgoing >> /\ Head(fill_q) = outgoing /\ fill_q' = << >>
      /\ position' = position + Signed(outgoing)
  <2>1. fill_q = << outgoing >>
    BY DEF OnlyLatest
  <2>2. Head(<< outgoing >>) = outgoing /\ Tail(<< outgoing >>) = << >>
    OBVIOUS
  <2>3. QED
    BY <2>1, <2>2 DEF on_fill
<1>2. in_flight' = FALSE
  BY Zenon DEF on_fill
<1>3. Returning /\ ~AtGate /\ ~Entered /\ gwPc # "forward"
  BY <1>1 DEF InOnePlace, Returning
<1>4. in_flight
  BY <1>3, Zenon DEF InOnePlace
<1>5. ActiveEntries' = ActiveEntries /\ ~Entered' /\ ~AtGate' /\ ~Returning'
  BY <1>1, <1>3 DEF ActiveEntries, Entered, AtGate, Returning
<1>6. outgoing \in Order /\ Signed(outgoing) \in Int /\ position \in Int
  BY SignedType DEF TypeOK, StrategyTypeOK
<1>7. TypeOK'
  <2>1. in_flight' \in BOOLEAN
    BY <1>2, Zenon
  <2>2. << >> \in Seq(Order) /\ Len(<< >>) <= FillQCap
    BY SharedAssumption
  <2>3. QED
    BY <1>1, <1>6, <2>1, <2>2 DEF TypeOK, SharedTypeOK, StrategyTypeOK, GatewayTypeOK
<1>8. InOnePlace' /\ OnlyLatest' /\ SentOnce'
  BY <1>1, <1>3, <1>5 DEF InOnePlace, OnlyLatest, SentOnce, AtGate, Entered, Returning
<1>9. Reduces'
  BY <1>2, Zenon DEF Reduces
<1>10. StrategyBand'
  <2>1. /\ outgoing.size = OrderSize
        /\ outgoing.side = "B" => position <= 0
        /\ outgoing.side = "S" => position >= 0
    BY <1>4, Zenon DEF Reduces
  <2>2. QED
    BY <1>1, <1>6, <2>1, SharedAssumption DEF StrategyBand, Signed, Order, Side
<1>11. GateAhead' /\ ExchangeAhead'
  BY <1>1, <1>3, <1>5, <1>6 DEF GateAhead, ExchangeAhead, FirstFills, TypeOK, GatewayTypeOK
<1>12. KillStopsFlow' /\ OneLateSend'
  BY DEF KillStopsFlow, OneLateSend
<1>13. QED
  BY <1>7, <1>8, <1>9, <1>10, <1>11, <1>12

LEMMA EmitStep ==
  ASSUME IInv, NEW t, StratEmit(t), UNCHANGED << gwVars, wireVars, historyVars >>
  PROVE  IInv'
<1> USE DEF IInv, gwVars, wireVars, historyVars, exchVars, sharedVars, flagVars
<1>1. /\ last_order_id < MaxOrders /\ last_order_id' = last_order_id + 1
      /\ stratPc = "md" /\ stratPc' = "push"
      /\ UNCHANGED << position, order_q, fill_q, flagVars >>
  BY DEF StratEmit
<1>2. ~in_flight /\ in_flight' = TRUE
  BY Zenon DEF StratEmit, Emits
<1>3. WantBuy(t) \/ WantSell(t)
  BY Zenon DEF StratEmit, Emits
<1>4. /\ outgoing'.id = last_order_id + 1 /\ outgoing'.size = OrderSize
      /\ \/ outgoing'.side = "B" /\ position <= 0
         \/ outgoing'.side = "S" /\ position >= 0
  <2> HIDE DEF IInv
  <2> DEFINE side == IF WantBuy(t) THEN "B" ELSE "S"
  <2>1. \/ side = "B" /\ position <= 0
        \/ side = "S" /\ position >= 0
    BY <1>3, Zenon DEF WantBuy, WantSell
  <2>2. outgoing' = [id |-> last_order_id + 1, side |-> side, size |-> OrderSize]
    BY DEF StratEmit
  <2> HIDE DEF side
  <2>3. QED
    BY <2>1, <2>2
<1>5. last_order_id \in Nat /\ outgoing' \in Order /\ Signed(outgoing') \in Int
  <2>1. last_order_id \in Nat /\ last_order_id + 1 \in OrderId
    BY <1>1, SharedAssumption DEF TypeOK, StrategyTypeOK, OrderId
  <2>2. outgoing' = [id |-> last_order_id + 1, side |-> outgoing'.side, size |-> OrderSize]
    BY DEF StratEmit
  <2>3. outgoing' \in Order
    BY <1>4, <2>1, <2>2 DEF Order, Side
  <2>4. QED
    BY <2>1, <2>3, SignedType
<1>6. ~AtGate /\ ~Entered /\ ~Returning
  BY <1>2, Zenon DEF InOnePlace
<1>7. /\ ActiveEntries' = ActiveEntries /\ ActiveEntries = {} /\ ~Entered' /\ ~Returning'
      /\ order_q = << >> /\ fill_q = << >> /\ gwPc \notin {"check", "forward", "send"}
      /\ orderWire = {}
  BY <1>1, <1>6 DEF ActiveEntries, Entered, Returning, AtGate, SentOnce
<1>8. TypeOK'
  <2>1. in_flight' \in BOOLEAN
    BY <1>2, Zenon
  <2>2. SharedTypeOK' /\ GatewayTypeOK'
    BY <1>1 DEF TypeOK, SharedTypeOK, GatewayTypeOK
  <2>3. StrategyTypeOK'
    BY <1>1, <1>5, <2>1, SharedAssumption DEF TypeOK, StrategyTypeOK, OrderId
  <2>4. QED
    BY <2>2, <2>3 DEF TypeOK
<1>9. InOnePlace'
  <2>1. AtGate' \/ Entered' \/ Returning' => in_flight'
    BY <1>2, Zenon
  <2>2. QED
    BY <1>1, <1>7, <2>1 DEF InOnePlace
<1>10. \A r \in fillWire \cup served : r.id \in Nat /\ r.id <= last_order_id
  BY SharedAssumption DEF OnlyLatest, TypeOK, GatewayTypeOK, Order, OrderId
<1>11. OnlyLatest'
  BY <1>1, <1>4, <1>5, <1>7, <1>10 DEF OnlyLatest
<1>12. SentOnce'
  BY <1>1, <1>4, <1>5, <1>7, <1>10 DEF SentOnce
<1>13. Reduces'
  BY <1>1, <1>4 DEF Reduces
<1>14. StrategyBand' /\ KillStopsFlow' /\ OneLateSend'
  BY <1>1, <1>7 DEF StrategyBand, KillStopsFlow, OneLateSend
<1>15. GateAhead' /\ ExchangeAhead'
  BY <1>1, <1>5, <1>6, <1>7 DEF GateAhead, ExchangeAhead, FirstFills
<1>16. QED
  BY <1>8, <1>9, <1>11, <1>12, <1>13, <1>14, <1>15

LEMMA PushStep ==
  ASSUME IInv, StratPush, UNCHANGED << gwVars, wireVars, historyVars >>
  PROVE  IInv'
<1> USE DEF IInv, StratPush, gwVars, wireVars, historyVars, exchVars, flagVars
<1>1. AtGate /\ ~Entered /\ ~Returning /\ order_q = << >> /\ gwPc # "check"
  BY DEF AtGate, InOnePlace
<1>2. order_q' = << outgoing >> /\ outgoing \in Order
  BY <1>1 DEF TypeOK, StrategyTypeOK
<1>3. /\ ActiveEntries' = ActiveEntries /\ ~Entered' /\ AtGate' /\ ~Returning'
      /\ order_q' # << >>
  BY <1>1, <1>2 DEF ActiveEntries, Entered, AtGate, Returning
<1>4. in_flight /\ in_flight'
  BY <1>1, Zenon DEF InOnePlace
<1>5. TypeOK'
  <2>1. in_flight' \in BOOLEAN
    BY <1>4, Zenon DEF TypeOK, StrategyTypeOK
  <2>2. QED
    BY <1>2, <2>1, SharedAssumption DEF TypeOK, SharedTypeOK, StrategyTypeOK, GatewayTypeOK
<1>6. InOnePlace'
  <2>1. AtGate' \/ Entered' \/ Returning' => in_flight'
    BY <1>4, Zenon
  <2>2. QED
    BY <1>1, <1>3, <2>1 DEF InOnePlace, Returning
<1>7. OnlyLatest' /\ SentOnce'
  BY <1>1, <1>2, <1>3 DEF OnlyLatest, SentOnce
<1>8. Reduces' /\ StrategyBand' /\ KillStopsFlow'
  BY <1>4, Zenon DEF Reduces, StrategyBand, KillStopsFlow
<1>9. GateAhead' /\ ExchangeAhead' /\ OneLateSend'
  BY <1>1, <1>3 DEF GateAhead, ExchangeAhead, FirstFills, OneLateSend
<1>10. QED
  BY <1>5, <1>6, <1>7, <1>8, <1>9
-----------------------------------------------------------------------------
(***************************************************************************)
(* The gateway thread.                                                     *)
(***************************************************************************)
LEMMA DroppedType ==
  ASSUME GwHistory
  PROVE  dropped' \in BOOLEAN
  BY Zenon DEF GwHistory

LEMMA FillMatchedStep ==
  ASSUME IInv, NEW r, GwFillMatched(r), GwHistory, UNCHANGED stratVars
  PROVE  IInv'
<1> USE DEF IInv, GwFillMatched, GwHistory, exchVars, flagVars, stratVars, sharedVars
<1>1. outgoing \in Order /\ Signed(outgoing) \in Int /\ gw_position \in Int
  BY SignedType, GatewayAssumption DEF TypeOK, StrategyTypeOK, GatewayTypeOK
<1>2. /\ r = outgoing /\ Entered /\ ActiveEntries = {Slot(outgoing.id)}
      /\ outgoing \in fillWire
  <2>1. r \in Order /\ Slot(r.id) \in TableIndex
    BY SlotType DEF TypeOK, GatewayTypeOK, Order
  <2>2. Slot(r.id) \in ActiveEntries
    BY <2>1 DEF Matches, ActiveEntries
  <2>3. r.id = last_order_id
    BY <2>2 DEF Matches, OnlyLatest
  <2>4. r = outgoing
    BY <2>3 DEF OnlyLatest
  <2>5. QED
    BY <2>2, <2>4 DEF Entered, OnlyLatest
<1>3. ~AtGate /\ ~Returning
  BY <1>2 DEF InOnePlace
<1>4. in_flight /\ in_flight'
  BY <1>2, Zenon DEF InOnePlace
<1>5. /\ inflight' \in [TableIndex -> Entry] /\ ActiveEntries' = {}
  BY <1>2, SlotType DEF Retire, ActiveEntries, TypeOK, GatewayTypeOK, Entry
<1>6. ~Entered' /\ Returning' /\ ~AtGate' /\ gwPc' = "forward" /\ fill_q' = << >>
  BY <1>3, <1>5 DEF Entered, Returning, AtGate
<1>7. gw_position' = gw_position + Signed(outgoing) /\ gw_position' \in -MaxPosition .. MaxPosition
  BY <1>1, <1>2 DEF GateAhead
<1>8. /\ FirstFills = gw_position + Signed(outgoing)
      /\ gw_position = position
  BY <1>2, <1>3 DEF ExchangeAhead, FirstFills, GateAhead, TypeOK, StrategyTypeOK
<1>9. orderWire = {}
  BY <1>2 DEF SentOnce, OnlyLatest
<1>10. TypeOK'
  <2>1. in_flight' \in BOOLEAN /\ dropped' \in BOOLEAN
    BY DroppedType, Zenon DEF TypeOK, StrategyTypeOK
  <2>2. SharedTypeOK' /\ StrategyTypeOK'
    BY <2>1 DEF TypeOK, SharedTypeOK, StrategyTypeOK
  <2>3. GatewayTypeOK'
    BY <1>1, <1>2, <1>5, <1>7 DEF TypeOK, GatewayTypeOK
  <2>4. lateSends' = lateSends /\ UNCHANGED exchVars /\ restarts' = restarts
    BY DEF TypeOK
  <2>5. QED
    BY <2>1, <2>2, <2>3, <2>4 DEF TypeOK
<1>11. InOnePlace'
  <2>1. AtGate' \/ Entered' \/ Returning' => in_flight'
    BY <1>4, Zenon
  <2>2. QED
    BY <1>3, <1>6, <2>1 DEF InOnePlace, AtGate
<1>12. OnlyLatest'
  BY <1>2, <1>5, <1>6 DEF OnlyLatest
<1>13. SentOnce'
  BY <1>6, <1>9 DEF SentOnce
<1>14. Reduces' /\ StrategyBand'
  BY Zenon DEF Reduces, StrategyBand
<1>15. GateAhead' /\ ExchangeAhead'
  BY <1>1, <1>6, <1>7, <1>8, <1>9 DEF GateAhead, ExchangeAhead, FirstFills
<1>16. KillStopsFlow' /\ OneLateSend'
  BY DEF KillStopsFlow, OneLateSend, TypeOK
<1>17. QED
  BY <1>10, <1>11, <1>12, <1>13, <1>14, <1>15, <1>16

(***************************************************************************)
(* A step that only takes datagrams off the wire: an unmatched fill that   *)
(* is discarded, or a loss.                                                *)
(***************************************************************************)
LEMMA WireShrinks ==
  ASSUME IInv,
         UNCHANGED << stratVars, gwVars, sharedVars, exchVars, lateSends, restarts >>,
         orderWire' \subseteq orderWire, fillWire' \subseteq fillWire, dropped' \in BOOLEAN
  PROVE  IInv'
<1> USE DEF IInv, stratVars, gwVars, sharedVars, exchVars, flagVars
<1>1. TypeOK'
  <2>1. in_flight' \in BOOLEAN
    BY Zenon DEF TypeOK, StrategyTypeOK
  <2>2. QED
    BY <2>1 DEF TypeOK, SharedTypeOK, StrategyTypeOK, GatewayTypeOK
<1>2. /\ ActiveEntries' = ActiveEntries /\ Entered' = Entered
      /\ AtGate' = AtGate /\ Returning' = Returning
  BY DEF ActiveEntries, Entered, AtGate, Returning
<1>3. InOnePlace'
  <2>1. AtGate' \/ Entered' \/ Returning' => in_flight'
    BY <1>2, Zenon DEF InOnePlace
  <2>2. QED
    BY <1>2, <2>1 DEF InOnePlace
<1>4. OnlyLatest' /\ SentOnce'
  BY <1>2 DEF OnlyLatest, SentOnce
<1>5. Reduces' /\ StrategyBand'
  BY Zenon DEF Reduces, StrategyBand
<1>6. GateAhead' /\ ExchangeAhead' /\ KillStopsFlow' /\ OneLateSend'
  BY <1>2 DEF GateAhead, ExchangeAhead, FirstFills, KillStopsFlow, OneLateSend
<1>7. QED
  BY <1>1, <1>3, <1>4, <1>5, <1>6

LEMMA ForwardStep ==
  ASSUME IInv, GwForward, GwHistory, UNCHANGED stratVars
  PROVE  IInv'
<1> USE DEF IInv, GwForward, GwHistory, exchVars, flagVars, stratVars, wireVars
<1>1. Returning /\ ~AtGate /\ ~Entered /\ fill_q = << >> /\ gwFill = outgoing
  BY DEF InOnePlace, Returning, OnlyLatest
<1>2. fill_q' = << outgoing >> /\ outgoing \in Order
  BY <1>1 DEF TypeOK, StrategyTypeOK
<1>3. /\ ActiveEntries' = ActiveEntries /\ Entered' = Entered /\ Returning'
      /\ fill_q' # << >> /\ ~AtGate'
  BY <1>1, <1>2 DEF ActiveEntries, Entered, Returning, AtGate
<1>4. in_flight /\ in_flight'
  BY <1>1, Zenon DEF InOnePlace
<1>5. TypeOK'
  <2>1. in_flight' \in BOOLEAN /\ dropped' \in BOOLEAN
    BY DroppedType, Zenon DEF TypeOK, StrategyTypeOK
  <2>2. SharedTypeOK' /\ StrategyTypeOK' /\ GatewayTypeOK'
    BY <1>2, <2>1, SharedAssumption DEF TypeOK, SharedTypeOK, StrategyTypeOK, GatewayTypeOK
  <2>3. QED
    BY <2>1, <2>2 DEF TypeOK
<1>6. InOnePlace'
  <2>1. AtGate' \/ Entered' \/ Returning' => in_flight'
    BY <1>4, Zenon
  <2>2. QED
    BY <1>1, <1>3, <2>1 DEF InOnePlace, AtGate
<1>7. OnlyLatest' /\ SentOnce'
  BY <1>1, <1>2, <1>3 DEF OnlyLatest, SentOnce
<1>8. Reduces' /\ StrategyBand'
  BY Zenon DEF Reduces, StrategyBand
<1>9. GateAhead' /\ ExchangeAhead' /\ KillStopsFlow' /\ OneLateSend'
  BY <1>1, <1>3 DEF GateAhead, ExchangeAhead, FirstFills, KillStopsFlow, OneLateSend, TypeOK
<1>10. QED
  BY <1>5, <1>6, <1>7, <1>8, <1>9

LEMMA PopStep ==
  ASSUME IInv, GwPop, GwHistory, UNCHANGED stratVars
  PROVE  IInv'
<1> USE DEF IInv, GwPop, GwHistory, exchVars, flagVars, stratVars, wireVars
<1>1. order_q = << outgoing >> /\ gwOrder' = outgoing /\ order_q' = << >>
  <2>1. order_q = << outgoing >>
    BY DEF OnlyLatest
  <2>2. Head(<< outgoing >>) = outgoing /\ Tail(<< outgoing >>) = << >>
    OBVIOUS
  <2>3. QED
    BY <2>1, <2>2
<1>2. AtGate /\ ~Entered /\ ~Returning /\ stratPc # "push"
  BY <1>1 DEF AtGate, InOnePlace
<1>3. /\ ActiveEntries' = ActiveEntries /\ Entered' = Entered /\ AtGate' /\ ~Returning'
  BY <1>2 DEF ActiveEntries, Entered, Returning, AtGate
<1>4. in_flight /\ in_flight'
  BY <1>2, Zenon DEF InOnePlace
<1>5. TypeOK'
  <2>1. in_flight' \in BOOLEAN /\ dropped' \in BOOLEAN
    BY DroppedType, Zenon DEF TypeOK, StrategyTypeOK
  <2>2. << >> \in Seq(Order) /\ Len(<< >>) <= OrderQCap
    BY SharedAssumption
  <2>3. SharedTypeOK' /\ StrategyTypeOK' /\ GatewayTypeOK'
    BY <1>1, <2>1, <2>2 DEF TypeOK, SharedTypeOK, StrategyTypeOK, GatewayTypeOK
  <2>4. QED
    BY <2>1, <2>3 DEF TypeOK
<1>6. InOnePlace'
  <2>1. AtGate' \/ Entered' \/ Returning' => in_flight'
    BY <1>4, Zenon
  <2>2. QED
    BY <1>1, <1>2, <1>3, <2>1 DEF InOnePlace
<1>7. OnlyLatest' /\ SentOnce'
  BY <1>1, <1>2, <1>3 DEF OnlyLatest, SentOnce
<1>8. Reduces' /\ StrategyBand'
  BY Zenon DEF Reduces, StrategyBand
<1>9. GateAhead' /\ ExchangeAhead' /\ KillStopsFlow' /\ OneLateSend'
  BY <1>2, <1>3 DEF GateAhead, ExchangeAhead, FirstFills, KillStopsFlow, OneLateSend, TypeOK
<1>10. QED
  BY <1>5, <1>6, <1>7, <1>8, <1>9

LEMMA AcceptStep ==
  ASSUME IInv, GwAccept, GwHistory, UNCHANGED stratVars
  PROVE  IInv'
<1> USE DEF IInv, GwAccept, GwHistory, exchVars, flagVars, stratVars, wireVars, sharedVars
<1>1. AtGate /\ ~Entered /\ ~Returning /\ stratPc # "push" /\ order_q = << >>
  BY DEF AtGate, InOnePlace
<1>2. gwOrder = outgoing /\ outgoing \in Order /\ outgoing.id = last_order_id
  BY DEF OnlyLatest, TypeOK, StrategyTypeOK
<1>3. Signed(outgoing) \in Int /\ gw_position \in Int /\ Slot(last_order_id) \in TableIndex
  BY SignedType, SlotType, GatewayAssumption DEF TypeOK, StrategyTypeOK, GatewayTypeOK
<1>4. gw_position + Signed(outgoing) \in -MaxPosition .. MaxPosition
  <2>1. ~Gate!PositionBad(outgoing)
    BY <1>2, Zenon DEF Refused
  <2>2. Gate!Signed(outgoing.side, outgoing.size) = Signed(outgoing)
    BY DEF Gate!Signed, Signed
  <2>3. QED
    BY <1>3, <2>1, <2>2, GatewayAssumption DEF Gate!PositionBad
<1>5. ~kill_seen
  BY Zenon DEF Refused
<1>6. /\ inflight' \in [TableIndex -> Entry]
      /\ inflight'[Slot(last_order_id)] = [id |-> last_order_id, active |-> TRUE]
      /\ \A i \in TableIndex : i # Slot(last_order_id) => inflight'[i] = inflight[i]
  BY <1>2, <1>3 DEF TypeOK, GatewayTypeOK, StrategyTypeOK, Entry
<1>7. ActiveEntries' = {Slot(last_order_id)} /\ Entered' /\ ~AtGate' /\ ~Returning'
  <2>1. \A i \in TableIndex : ~inflight[i].active
    BY <1>1 DEF Entered, ActiveEntries
  <2>2. ActiveEntries' = {Slot(last_order_id)}
    BY <1>3, <1>6, <2>1 DEF ActiveEntries
  <2>3. QED
    BY <1>1, <2>2 DEF Entered, AtGate, Returning
<1>8. in_flight /\ in_flight'
  BY <1>1, Zenon DEF InOnePlace
<1>9. TypeOK'
  <2>1. in_flight' \in BOOLEAN /\ dropped' \in BOOLEAN
    BY DroppedType, Zenon DEF TypeOK, StrategyTypeOK
  <2>2. SharedTypeOK' /\ StrategyTypeOK' /\ GatewayTypeOK'
    BY <1>6, <2>1 DEF TypeOK, SharedTypeOK, StrategyTypeOK, GatewayTypeOK
  <2>3. QED
    BY <2>1, <2>2 DEF TypeOK
<1>10. InOnePlace'
  <2>1. AtGate' \/ Entered' \/ Returning' => in_flight'
    BY <1>8, Zenon
  <2>2. QED
    BY <1>1, <1>7, <2>1 DEF InOnePlace
<1>11. OnlyLatest'
  BY <1>2, <1>6, <1>7 DEF OnlyLatest
<1>12. SentOnce'
  BY <1>1, <1>7 DEF SentOnce
<1>13. Reduces' /\ StrategyBand'
  BY Zenon DEF Reduces, StrategyBand
<1>14. GateAhead' /\ ExchangeAhead'
  BY <1>1, <1>4, <1>7 DEF GateAhead, ExchangeAhead, FirstFills, SentOnce
<1>15. KillStopsFlow' /\ OneLateSend'
  BY <1>5 DEF KillStopsFlow, OneLateSend, TypeOK
<1>16. QED
  BY <1>9, <1>10, <1>11, <1>12, <1>13, <1>14, <1>15

LEMMA SendStep ==
  ASSUME IInv, GwSend, GwHistory, UNCHANGED stratVars
  PROVE  IInv'
<1> USE DEF IInv, GwSend, GwHistory, exchVars, flagVars, stratVars, sharedVars
<1>1. /\ Entered /\ ~AtGate /\ ~Returning /\ orderWire = {} /\ gwOrder = outgoing
      /\ outgoing \notin fillWire
  BY DEF InOnePlace, SentOnce, OnlyLatest
<1>2. orderWire' = {outgoing}
  BY <1>1
<1>3. ActiveEntries' = ActiveEntries /\ Entered' /\ ~AtGate' /\ ~Returning'
  BY <1>1 DEF ActiveEntries, Entered, AtGate, Returning
<1>4. in_flight /\ in_flight'
  BY <1>1, Zenon DEF InOnePlace
<1>5. lateSends = 0 /\ lateSends' \in {0, 1} /\ (lateSends' # 0 => kill_seen')
  BY DEF OneLateSend
<1>6. TypeOK'
  <2>1. in_flight' \in BOOLEAN /\ dropped' \in BOOLEAN
    BY DroppedType, Zenon DEF TypeOK, StrategyTypeOK
  <2>2. SharedTypeOK' /\ StrategyTypeOK' /\ GatewayTypeOK'
    BY <1>2, <2>1 DEF TypeOK, SharedTypeOK, StrategyTypeOK, GatewayTypeOK
  <2>3. QED
    BY <1>5, <2>1, <2>2 DEF TypeOK
<1>7. InOnePlace'
  <2>1. AtGate' \/ Entered' \/ Returning' => in_flight'
    BY <1>4, Zenon
  <2>2. QED
    BY <1>1, <1>3, <2>1 DEF InOnePlace, AtGate
<1>8. OnlyLatest' /\ SentOnce'
  BY <1>1, <1>2, <1>3 DEF OnlyLatest, SentOnce
<1>9. Reduces' /\ StrategyBand'
  BY Zenon DEF Reduces, StrategyBand
<1>10. GateAhead' /\ ExchangeAhead'
  BY <1>1, <1>3 DEF GateAhead, ExchangeAhead, FirstFills
<1>11. KillStopsFlow' /\ OneLateSend'
  BY <1>5 DEF KillStopsFlow, OneLateSend
<1>12. QED
  BY <1>6, <1>7, <1>8, <1>9, <1>10, <1>11
-----------------------------------------------------------------------------
(***************************************************************************)
(* The exchange.                                                           *)
(***************************************************************************)
LEMMA ExchangeStep ==
  ASSUME IInv, Exchange
  PROVE  IInv'
<1> USE DEF IInv, stratVars, gwVars, sharedVars, exchVars, flagVars
<1>1. /\ orderWire = {outgoing} /\ orderWire' = {} /\ fillWire' = fillWire \cup {outgoing}
      /\ exch_position' = exch_position + Signed(outgoing)
      /\ served' = served \cup {outgoing}
      /\ UNCHANGED << stratVars, gwVars, sharedVars, surplus, copies, lateSends, dropped, restarts >>
  BY DEF Exchange, OnlyLatest
<1>2. outgoing \in Order /\ Signed(outgoing) \in Int /\ gw_position \in Int
  BY SignedType, GatewayAssumption DEF TypeOK, StrategyTypeOK, GatewayTypeOK
<1>3. /\ Entered /\ ~AtGate /\ ~Returning /\ gwPc # "send" /\ outgoing \notin fillWire
      /\ FirstFills = gw_position
  BY <1>1 DEF SentOnce, InOnePlace, ExchangeAhead, FirstFills
<1>4. /\ ActiveEntries' = ActiveEntries /\ Entered' = Entered
      /\ AtGate' = AtGate /\ Returning' = Returning
  BY <1>1 DEF ActiveEntries, Entered, AtGate, Returning
<1>5. TypeOK'
  <2>1. in_flight' \in BOOLEAN /\ dropped' \in BOOLEAN
    BY <1>1, Zenon DEF TypeOK, StrategyTypeOK
  <2>2. QED
    BY <1>1, <1>2, <1>3, <2>1 DEF TypeOK, SharedTypeOK, StrategyTypeOK, GatewayTypeOK
<1>6. InOnePlace'
  <2>1. AtGate' \/ Entered' \/ Returning' => in_flight'
    BY <1>1, <1>4, Zenon DEF InOnePlace
  <2>2. QED
    BY <1>1, <1>4, <2>1 DEF InOnePlace
<1>7. OnlyLatest'
  <2>1. last_order_id \in Int
    BY SharedAssumption DEF TypeOK, StrategyTypeOK, OrderId
  <2>2. QED
    BY <1>1, <1>4, <2>1 DEF OnlyLatest
<1>8. SentOnce'
  BY <1>1, <1>3, <1>4 DEF SentOnce
<1>9. Reduces' /\ StrategyBand'
  BY <1>1, Zenon DEF Reduces, StrategyBand
<1>10. GateAhead' /\ ExchangeAhead' /\ KillStopsFlow' /\ OneLateSend'
  <2>1. FirstFills' = gw_position + Signed(outgoing)
    <3>1. exch_position \in Int /\ surplus \in Int
      BY DEF TypeOK
    <3>2. QED
      BY <1>1, <1>2, <1>3, <3>1 DEF FirstFills
  <2>2. ExchangeAhead'
    BY <1>1, <1>3, <1>4, <2>1 DEF ExchangeAhead
  <2>3. QED
    BY <1>1, <1>4, <2>2 DEF GateAhead, KillStopsFlow, OneLateSend
<1>11. QED
  BY <1>5, <1>6, <1>7, <1>8, <1>9, <1>10

(***************************************************************************)
(* A copy of an order: what is filled is one fill more of an order that    *)
(* has been filled before, and the surplus.                                *)
(***************************************************************************)
LEMMA ExchangeAgainStep ==
  ASSUME IInv, ExchangeAgain
  PROVE  IInv'
<1> USE DEF IInv, stratVars, gwVars, sharedVars, flagVars
<1>1. PICK o \in served :
        /\ fillWire' = fillWire \cup {o}
        /\ exch_position' = exch_position + Signed(o)
        /\ surplus' = surplus + Signed(o)
  BY DEF ExchangeAgain
<1>2. /\ copies < MaxCopies /\ copies' = copies + 1
      /\ UNCHANGED << stratVars, gwVars, sharedVars, orderWire, served, lateSends, dropped, restarts >>
  BY DEF ExchangeAgain
<1>3. o \in Order /\ Signed(o) \in Int /\ exch_position \in Int /\ surplus \in Int
  BY SignedType DEF TypeOK
<1>4. FirstFills' = FirstFills
  BY <1>1, <1>3 DEF FirstFills
<1>5. /\ ActiveEntries' = ActiveEntries /\ Entered' = Entered
      /\ AtGate' = AtGate /\ Returning' = Returning
  BY <1>2 DEF ActiveEntries, Entered, AtGate, Returning
<1>6. TypeOK'
  <2>1. in_flight' \in BOOLEAN /\ dropped' \in BOOLEAN
    BY <1>2, Zenon DEF TypeOK, StrategyTypeOK
  <2>2. SharedTypeOK' /\ StrategyTypeOK' /\ GatewayTypeOK'
    BY <1>1, <1>2, <1>3, <2>1 DEF TypeOK, SharedTypeOK, StrategyTypeOK, GatewayTypeOK
  <2>3. exch_position' \in Int /\ surplus' \in Int /\ copies' \in 0 .. MaxCopies
    BY <1>1, <1>2, <1>3, FaultsAssumption DEF TypeOK
  <2>4. QED
    BY <1>2, <2>1, <2>2, <2>3 DEF TypeOK
<1>7. InOnePlace'
  <2>1. AtGate' \/ Entered' \/ Returning' => in_flight'
    BY <1>2, <1>5, Zenon DEF InOnePlace
  <2>2. QED
    BY <1>2, <1>5, <2>1 DEF InOnePlace
<1>8. OnlyLatest'
  BY <1>1, <1>2, <1>5 DEF OnlyLatest
<1>9. SentOnce'
  BY <1>1, <1>2, <1>5 DEF SentOnce
<1>10. Reduces' /\ StrategyBand'
  BY <1>2, Zenon DEF Reduces, StrategyBand
<1>11. ExchangeAhead'
  BY <1>1, <1>2, <1>4, <1>5 DEF ExchangeAhead
<1>12. GateAhead' /\ KillStopsFlow' /\ OneLateSend'
  BY <1>2, <1>5 DEF GateAhead, KillStopsFlow, OneLateSend
<1>13. QED
  BY <1>6, <1>7, <1>8, <1>9, <1>10, <1>11, <1>12

(***************************************************************************)
(* A copy of a fill: that order has been filled before.                    *)
(***************************************************************************)
LEMMA FillAgainStep ==
  ASSUME IInv, FillAgain
  PROVE  IInv'
<1> USE DEF IInv, stratVars, gwVars, sharedVars, flagVars
<1>1. PICK o \in served : fillWire' = fillWire \cup {o}
  BY DEF FillAgain
<1>2. /\ copies < MaxCopies /\ copies' = copies + 1
      /\ UNCHANGED << stratVars, gwVars, sharedVars, orderWire, exch_position, surplus,
                      served, lateSends, dropped, restarts >>
  BY DEF FillAgain
<1>3. o \in Order
  BY DEF TypeOK
<1>4. FirstFills' = FirstFills
  BY <1>2 DEF FirstFills
<1>5. /\ ActiveEntries' = ActiveEntries /\ Entered' = Entered
      /\ AtGate' = AtGate /\ Returning' = Returning
  BY <1>2 DEF ActiveEntries, Entered, AtGate, Returning
<1>6. TypeOK'
  <2>1. in_flight' \in BOOLEAN /\ dropped' \in BOOLEAN
    BY <1>2, Zenon DEF TypeOK, StrategyTypeOK
  <2>2. SharedTypeOK' /\ StrategyTypeOK' /\ GatewayTypeOK'
    BY <1>1, <1>2, <1>3, <2>1 DEF TypeOK, SharedTypeOK, StrategyTypeOK, GatewayTypeOK
  <2>3. copies' \in 0 .. MaxCopies
    BY <1>2, FaultsAssumption DEF TypeOK
  <2>4. QED
    BY <1>2, <2>1, <2>2, <2>3 DEF TypeOK
<1>7. InOnePlace'
  <2>1. AtGate' \/ Entered' \/ Returning' => in_flight'
    BY <1>2, <1>5, Zenon DEF InOnePlace
  <2>2. QED
    BY <1>2, <1>5, <2>1 DEF InOnePlace
<1>8. OnlyLatest'
  BY <1>1, <1>2, <1>5 DEF OnlyLatest
<1>9. SentOnce'
  BY <1>1, <1>2, <1>5 DEF SentOnce
<1>10. Reduces' /\ StrategyBand'
  BY <1>2, Zenon DEF Reduces, StrategyBand
<1>11. ExchangeAhead'
  BY <1>1, <1>2, <1>4, <1>5 DEF ExchangeAhead
<1>12. GateAhead' /\ KillStopsFlow' /\ OneLateSend'
  BY <1>2, <1>5 DEF GateAhead, KillStopsFlow, OneLateSend
<1>13. QED
  BY <1>6, <1>7, <1>8, <1>9, <1>10, <1>11, <1>12
-----------------------------------------------------------------------------
LEMMA StrategyStep ==
  ASSUME IInv, StrategyThread
  PROVE  IInv'
<1> USE DEF StrategyThread
<1>1. /\ running \in BOOLEAN /\ kill \in BOOLEAN /\ kill_seen \in BOOLEAN /\ dropped \in BOOLEAN
      /\ restarts \in 0 .. MaxRestarts
  BY DEF IInv, TypeOK, SharedTypeOK
<1>2. ASSUME UNCHANGED << position, in_flight, last_order_id, outgoing, sharedVars >>,
             stratPc' \in {"top", "fills", "md", "done"}
      PROVE  IInv'
  BY <1>1, <1>2, ControlOnly DEF sharedVars, flagVars, gwVars, wireVars, historyVars
<1>3. ASSUME StratTop PROVE IInv'
  BY <1>2, <1>3 DEF StratTop
<1>4. ASSUME StratFill PROVE IInv'
  BY <1>4, FillStep
<1>5. ASSUME StratFillsDrained PROVE IInv'
  BY <1>2, <1>5 DEF StratFillsDrained
<1>6. ASSUME StratNoMd PROVE IInv'
  BY <1>2, <1>6 DEF StratNoMd
<1>7. ASSUME StratPush PROVE IInv'
  BY <1>7, PushStep
<1>8. ASSUME NEW t \in Touch, StratQuiet(t) PROVE IInv'
  BY <1>2, <1>8 DEF StratQuiet
<1>9. ASSUME NEW t \in Touch, StratEmit(t) PROVE IInv'
  BY <1>9, EmitStep
<1>10. QED
  BY <1>3, <1>4, <1>5, <1>6, <1>7, <1>8, <1>9 DEF StratStep

LEMMA GatewayStep ==
  ASSUME IInv, GatewayThread
  PROVE  IInv'
<1> USE DEF GatewayThread
<1>1. /\ running \in BOOLEAN /\ kill \in BOOLEAN /\ kill_seen \in BOOLEAN /\ restarts \in 0 .. MaxRestarts
      /\ lateSends \in Nat
  BY DEF IInv, TypeOK, SharedTypeOK
<1>2. dropped' \in BOOLEAN
  BY DroppedType
<1>3. ASSUME UNCHANGED << gw_position, inflight, gwOrder, gwFill, wireVars, sharedVars >>,
             gwPc \notin {"forward", "send"}, gwPc' \in {"top", "drain", "order", "done"}
      PROVE  IInv'
  <2>1. lateSends' = lateSends
    BY <1>1, <1>3 DEF GwHistory
  <2>2. QED
    BY <1>1, <1>2, <1>3, <2>1, ControlOnly DEF GwHistory, sharedVars, flagVars, stratVars, wireVars
<1>4. ASSUME GwTop PROVE IInv'
  BY <1>3, <1>4 DEF GwTop
<1>5. ASSUME NEW r \in fillWire, GwReceive(r) PROVE IInv'
  <2>1. CASE GwFillMatched(r)
    BY <2>1, FillMatchedStep
  <2>2. CASE GwFillUnmatched(r)
    <3>1. lateSends' = lateSends
      BY <1>1, <2>2 DEF GwFillUnmatched, GwHistory
    <3>2. QED
      BY <1>2, <2>2, <3>1, WireShrinks DEF GwFillUnmatched, GwHistory
  <2>3. QED
    BY <1>5, <2>1, <2>2 DEF GwReceive
<1>6. ASSUME GwForward PROVE IInv'
  BY <1>6, ForwardStep
<1>7. ASSUME GwDrained PROVE IInv'
  BY <1>3, <1>7 DEF GwDrained
<1>8. ASSUME GwNoOrder PROVE IInv'
  BY <1>3, <1>8 DEF GwNoOrder
<1>9. ASSUME GwPop PROVE IInv'
  BY <1>9, PopStep
<1>10. ASSUME GwReject PROVE IInv'
  BY <1>3, <1>10 DEF GwReject
<1>11. ASSUME GwAccept PROVE IInv'
  BY <1>11, AcceptStep
<1>12. ASSUME GwSend PROVE IInv'
  BY <1>12, SendStep
<1>13. QED
  BY <1>4, <1>5, <1>6, <1>7, <1>8, <1>9, <1>10, <1>11, <1>12 DEF GwStep

(***************************************************************************)
(* IInv is inductive: each step of either thread, of the exchange, of the  *)
(* network and of the operator keeps it.                                   *)
(***************************************************************************)
LEMMA StepIInv == IInv /\ [Next]_vars => IInv'
<1> SUFFICES ASSUME IInv, [Next]_vars PROVE IInv'
  OBVIOUS
<1> USE DEF stratVars, gwVars, wireVars, sharedVars, historyVars, flagVars
<1>1. /\ running \in BOOLEAN /\ kill \in BOOLEAN /\ kill_seen \in BOOLEAN /\ dropped \in BOOLEAN
      /\ restarts \in 0 .. MaxRestarts /\ restarts \in Nat
  BY FaultsAssumption DEF IInv, TypeOK, SharedTypeOK
<1>2. CASE StrategyThread
  BY <1>2, StrategyStep
<1>3. CASE GatewayThread
  BY <1>3, GatewayStep
<1>4. CASE Exchange
  BY <1>4, ExchangeStep
<1>5. CASE ExchangeAgain
  BY <1>5, ExchangeAgainStep
<1>6. CASE FillAgain
  BY <1>6, FillAgainStep
<1>7. CASE Lose
  <2>1. dropped' \in BOOLEAN
    BY <1>7, Zenon DEF Lose
  <2>2. QED
    BY <1>7, <2>1, WireShrinks DEF Lose
<1>8. CASE TripKillSwitch
  <2>1. kill' = TRUE
    BY <1>8, Zenon DEF TripKillSwitch
  <2>2. kill' \in BOOLEAN
    BY <2>1, Zenon
  <2>3. QED
    BY <1>1, <1>8, <2>2, ControlOnly DEF TripKillSwitch
<1>9. CASE KillVisible
  <2>1. kill_seen' = TRUE
    BY <1>9, Zenon DEF KillVisible
  <2>2. kill_seen' \in BOOLEAN /\ (kill_seen => kill_seen')
    BY <2>1, Zenon
  <2>3. QED
    BY <1>1, <1>9, <2>2, ControlOnly DEF KillVisible
<1>10. CASE Stop
  <2>1. running' \in BOOLEAN
    BY <1>10, Zenon DEF Stop
  <2>2. QED
    BY <1>1, <1>10, <2>1, ControlOnly DEF Stop
<1>11. CASE Restart
  <2>1. running' \in BOOLEAN
    BY <1>11, Zenon DEF Restart
  <2>2. restarts' \in 0 .. MaxRestarts
    BY <1>1, <1>11, FaultsAssumption DEF Restart
  <2>3. QED
    BY <1>1, <1>11, <2>1, <2>2, ControlOnly DEF Restart, Stopped, StartQueues
<1>12. CASE UNCHANGED vars
  BY <1>1, <1>12, ControlOnly DEF vars
<1>13. QED
  BY <1>2, <1>3, <1>4, <1>5, <1>6, <1>7, <1>8, <1>9, <1>10, <1>11, <1>12
  DEF Next, Terminated
-----------------------------------------------------------------------------
LEMMA AlwaysIInv == Spec => []IInv
  BY InitIInv, StepIInv, PTL DEF Spec

(***************************************************************************)
(* Every variable of the order path keeps its type; in particular neither  *)
(* queue exceeds its capacity and the gate's position stays within         *)
(* RiskLimits::max_position.                                               *)
(***************************************************************************)
THEOREM TypeCorrect == Spec => []TypeOK
<1>1. IInv => TypeOK
  BY DEF IInv
<1>2. QED
  BY <1>1, AlwaysIInv, PTL

(***************************************************************************)
(* The one-order latch of on_md() works across both threads, the network   *)
(* and a restart: an order or its fill is in at most one place, and only   *)
(* while in_flight_ is set.                                                *)
(***************************************************************************)
THEOREM OneOrderAtATime == Spec => []OneOutstanding
<1>1. IInv => OneOutstanding
  BY OnePlaceCounts DEF IInv
<1>2. QED
  BY <1>1, AlwaysIInv, PTL

(***************************************************************************)
(* The strategy and the risk gate count every fill once each: they agree   *)
(* on the position whenever the latch is free, whatever the network loses  *)
(* or repeats.                                                             *)
(***************************************************************************)
THEOREM BothCountAlike == Spec => []PositionsAgree
<1>1. IInv => PositionsAgree
  <2> SUFFICES ASSUME IInv, ~in_flight PROVE position = gw_position
    BY DEF PositionsAgree
  <2>1. ~Returning
    BY Zenon DEF IInv, InOnePlace
  <2>2. position \in Int /\ gw_position = position + 0
    BY <2>1 DEF IInv, GateAhead, TypeOK, StrategyTypeOK
  <2>3. QED
    BY <2>2
<1>2. QED
  BY <1>1, AlwaysIInv, PTL

(***************************************************************************)
(* The strategy never holds more than one order's worth of shares.         *)
(***************************************************************************)
THEOREM PositionInBand == Spec => []StrategyBand
<1>1. IInv => StrategyBand
  BY DEF IInv
<1>2. QED
  BY <1>1, AlwaysIInv, PTL

(***************************************************************************)
(* What the exchange has filled stays within RiskLimits::max_position even *)
(* though fills are lost on their way back: a lost fill leaves the latch   *)
(* set, so no further order relies on the stale position.  Copies of an    *)
(* order that the network delivers shift it by exactly the shares that     *)
(* the exchange fills for them, however many they are.                     *)
(***************************************************************************)
THEOREM ExchangeWithinLimit == Spec => []TruePositionWithinLimit
<1>1. IInv => TruePositionWithinLimit
  <2> SUFFICES ASSUME IInv PROVE TruePositionWithinLimit
    OBVIOUS
  <2>1. /\ exch_position \in Int /\ surplus \in Int /\ MaxPosition \in Nat
        /\ gw_position \in -MaxPosition .. MaxPosition
    BY GatewayAssumption DEF IInv, TypeOK, GatewayTypeOK
  <2>2. FirstFills \in -MaxPosition .. MaxPosition
    BY <2>1 DEF IInv, ExchangeAhead, GateAhead
  <2>3. QED
    BY <2>1, <2>2 DEF FirstFills, TruePositionWithinLimit
<1>2. QED
  BY <1>1, AlwaysIInv, PTL

(***************************************************************************)
(* The kill switch lets at most one order through once the gateway's loads *)
(* return it, the one that check() had already passed.                     *)
(***************************************************************************)
THEOREM KillLetsOneThrough == Spec => []KillStopsFlow
<1>1. IInv => KillStopsFlow
  BY DEF IInv
<1>2. QED
  BY <1>1, AlwaysIInv, PTL
=============================================================================

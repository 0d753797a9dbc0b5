-------------------------------- MODULE Engine --------------------------------
(***************************************************************************)
(* The order path of the engine: the strategy and gateway threads joined   *)
(* by their two queues (engine.hpp), the exchange that answers every order *)
(* with a full fill (sim_exchange.hpp), and UDP in between.                *)
(***************************************************************************)
EXTENDS Strategy, OrderGateway

CONSTANTS Faults,   \* what the network may do: see FaultKind
          MayKill,  \* may an operator trip the kill switch?
          MaxRestarts, \* bound: calls of start() after a stop()
          MaxCopies    \* bound: orders and fills that the network repeats

FaultKind == {"loseOrder", "loseFill", "dupOrder", "dupFill"}
ASSUME FaultsAssumption ==
  /\ Faults \subseteq FaultKind /\ MayKill \in BOOLEAN
  /\ MaxRestarts \in Nat /\ MaxCopies \in Nat

VARIABLES exch_position,  \* history: net shares the exchange has filled
          surplus,        \* history: those of them filled for repeated datagrams
          served,         \* orders the exchange has had; they and their fills may arrive again
          copies,         \* history: how often the network has repeated one
          lateSends,      \* history: orders sent although the gateway sees the kill
          dropped,        \* history: an order or a fill was refused or lost
          restarts        \* history: calls of start() after a stop()

exchVars == << exch_position, surplus, served, copies >>
historyVars == << exchVars, lateSends, dropped, restarts >>
vars == << stratVars, gwVars, wireVars, sharedVars, historyVars >>

TypeOK ==
  /\ SharedTypeOK /\ StrategyTypeOK /\ GatewayTypeOK
  /\ exch_position \in Int /\ surplus \in Int
  /\ served \subseteq Order /\ copies \in 0 .. MaxCopies
  /\ lateSends \in Nat /\ dropped \in BOOLEAN
  /\ restarts \in 0 .. MaxRestarts

Init ==
  /\ SharedInit /\ StrategyInit /\ GatewayInit
  /\ exch_position = 0 /\ surplus = 0 /\ served = {} /\ copies = 0
  /\ lateSends = 0 /\ dropped = FALSE /\ restarts = 0
-----------------------------------------------------------------------------
StrategyThread == StratStep /\ UNCHANGED << gwVars, wireVars, historyVars >>

GwStep ==
  \/ GwTop \/ GwForward \/ GwDrained \/ GwNoOrder \/ GwPop \/ GwReject \/ GwAccept \/ GwSend
  \/ \E r \in fillWire : GwReceive(r)

\* What the history records of a step of the gateway.
GwHistory ==
  /\ lateSends' = lateSends + (IF gwPc = "send" /\ kill_seen THEN 1 ELSE 0)
  /\ dropped' = (dropped \/ (gwPc = "check" /\ gwPc' = "top"))
  /\ UNCHANGED << exchVars, restarts >>

GatewayThread == GwStep /\ GwHistory /\ UNCHANGED stratVars

\* SimExchange::service_orders(): a full fill for every order received.
Exchange ==
  \E o \in orderWire :
    /\ fillWire' = fillWire \cup {o}
    /\ orderWire' = orderWire \ {o}
    /\ served' = served \cup {o}
    /\ exch_position' = exch_position + Signed(o)
    /\ UNCHANGED << stratVars, gwVars, sharedVars, surplus, copies, lateSends, dropped, restarts >>

\* UDP delivers an order once more.  The exchange keeps no record of what it has
\* filled: it fills every copy.
ExchangeAgain ==
  /\ "dupOrder" \in Faults /\ copies < MaxCopies
  /\ \E o \in served :
       /\ fillWire' = fillWire \cup {o}
       /\ exch_position' = exch_position + Signed(o)
       /\ surplus' = surplus + Signed(o)
  /\ copies' = copies + 1
  /\ UNCHANGED << stratVars, gwVars, sharedVars, orderWire, served, lateSends, dropped, restarts >>

\* UDP delivers a fill once more.
FillAgain ==
  /\ "dupFill" \in Faults /\ copies < MaxCopies
  /\ \E o \in served \ fillWire : fillWire' = fillWire \cup {o}
  /\ copies' = copies + 1
  /\ UNCHANGED << stratVars, gwVars, sharedVars, orderWire, exch_position, surplus,
                  served, lateSends, dropped, restarts >>

\* UDP loses a datagram.
Lose ==
  /\ \/ /\ "loseOrder" \in Faults
        /\ \E o \in orderWire : orderWire' = orderWire \ {o}
        /\ UNCHANGED fillWire
     \/ /\ "loseFill" \in Faults
        /\ \E r \in fillWire : fillWire' = fillWire \ {r}
        /\ UNCHANGED orderWire
  /\ dropped' = TRUE
  /\ UNCHANGED << stratVars, gwVars, sharedVars, exchVars, lateSends, restarts >>

\* trip_kill_switch(): nothing in the engine clears the flag again.
TripKillSwitch ==
  /\ MayKill /\ ~kill
  /\ kill' = TRUE
  /\ UNCHANGED << order_q, fill_q, running, kill_seen, stratVars, gwVars, wireVars, historyVars >>

\* The relaxed store reaches the gateway's loads: C++ asks for finite time, not
\* for the next load.
KillVisible ==
  /\ kill /\ ~kill_seen
  /\ kill_seen' = TRUE
  /\ UNCHANGED << order_q, fill_q, running, kill, stratVars, gwVars, wireVars, historyVars >>

\* stop(): clear the running flag, then join the threads.
Stop ==
  /\ running
  /\ running' = FALSE
  /\ UNCHANGED << order_q, fill_q, kill, kill_seen, stratVars, gwVars, wireVars, historyVars >>

\* stop() has returned.
Stopped == stratPc = "done" /\ gwPc = "done"
Terminated == Stopped /\ UNCHANGED vars

\* Mutant: the threads of the new run start with empty queues.
StartQueues_Cleared == order_q' = << >> /\ fill_q' = << >>
StartQueues == UNCHANGED << order_q, fill_q >>

\* start() after stop(): new threads on what the old ones left behind.
Restart ==
  /\ ~running /\ Stopped /\ restarts < MaxRestarts
  /\ restarts' = restarts + 1
  /\ running' = TRUE
  /\ stratPc' = "top" /\ gwPc' = "top"
  /\ StartQueues
  /\ UNCHANGED << position, in_flight, last_order_id, outgoing, kill, kill_seen,
                  gw_position, inflight, gwOrder, gwFill, wireVars,
                  exchVars, lateSends, dropped >>

Next ==
  \/ StrategyThread \/ GatewayThread
  \/ Exchange \/ ExchangeAgain \/ FillAgain \/ Lose
  \/ TripKillSwitch \/ KillVisible \/ Stop \/ Restart \/ Terminated

Spec == Init /\ [][Next]_vars

(***************************************************************************)
(* Fairness: each thread keeps running (they are never blocked on a lock), *)
(* a datagram that stays on the wire is received in the end, and the       *)
(* gateway leaves drain_fills(), whose loop is bounded by 32 datagrams.    *)
(***************************************************************************)
Fairness ==
  /\ WF_vars(StrategyThread)
  /\ WF_vars(GatewayThread)
  /\ WF_vars(Exchange)
  /\ \A id \in 1 .. MaxOrders :
       SF_vars((\E r \in fillWire : r.id = id /\ GwReceive(r)) /\ GatewayThread)
  /\ SF_vars(GwDrained /\ GatewayThread)
FairSpec == Spec /\ Fairness
-----------------------------------------------------------------------------
(* Properties                                                              *)

(***************************************************************************)
(* The latch admits one order at a time: an order or its fill is in at     *)
(* most one place between on_md() and on_fill(), and only while the latch  *)
(* is held.  So neither queue can fill up, neither spin loop can block,    *)
(* and the in-flight table has no collisions.                              *)
(***************************************************************************)
B2N(b) == IF b THEN 1 ELSE 0
ActiveEntries == { i \in TableIndex : inflight[i].active }
Outstanding ==
  B2N(stratPc = "push") + Len(order_q) + B2N(gwPc = "check")
    + B2N(ActiveEntries # {}) + B2N(gwPc = "forward") + Len(fill_q)
OneOutstanding ==
  /\ Outstanding <= B2N(in_flight)
  /\ \A i, j \in ActiveEntries : i = j

(***************************************************************************)
(* The strategy's position and the gate's position agree whenever no order *)
(* is outstanding: each fill is counted once by each of them, although the *)
(* network may repeat orders and fills.                                    *)
(***************************************************************************)
PositionsAgree == ~in_flight => position = gw_position

(***************************************************************************)
(* The strategy's position is "in {-order_size, 0, +order_size}"           *)
(* (strategy.hpp:118).                                                     *)
(***************************************************************************)
StrategyBand == position \in {-OrderSize, 0, OrderSize}

(***************************************************************************)
(* What the exchange has really filled stays within the position limit,    *)
(* although the gate only knows the fills that came back, NOT counting     *)
(* what it fills for copies of an order: service_orders() fills every      *)
(* datagram, so a repeated order takes the position itself out of the      *)
(* "absolute net-position bound" (risk_gate.hpp:43), and nothing in the    *)
(* engine notices.                                                         *)
(***************************************************************************)
TruePositionWithinLimit ==
  exch_position \in (surplus - MaxPosition) .. (surplus + MaxPosition)

(***************************************************************************)
(* Once the gateway's loads return the kill flag, at most one more order   *)
(* leaves: the one that had passed its check already.  This is weaker than *)
(* the file's own "when set, nothing gets out" (risk_gate.hpp:8), which    *)
(* the code does not keep: that order leaves all the same, and before the  *)
(* relaxed load sees the store, any number does.                           *)
(***************************************************************************)
KillStopsFlow == lateSends <= 1

(***************************************************************************)
(* stop() returns: neither thread is left spinning on a queue whose other  *)
(* end has already exited.                                                 *)
(***************************************************************************)
StopReturns == ~running ~> Stopped

(***************************************************************************)
(* In an engine that is not stopped for good, and unless an order or a     *)
(* fill was refused or lost, every order's latch is released again: the    *)
(* fill finds its way back through the table and both queues, past         *)
(* repeated fills of earlier orders, and past a stop() and a start() that  *)
(* came in between.                                                        *)
(***************************************************************************)
LatchReleased == <>[]running => (in_flight ~> (~in_flight \/ dropped))

(***************************************************************************)
(* The latch is released again: order flow stays alive (strategy.hpp:7-8)  *)
(* until the engine is stopped.                                            *)
(***************************************************************************)
FlowStaysAlive == in_flight ~> (~in_flight \/ ~running)
-----------------------------------------------------------------------------
(***************************************************************************)
(* The inductive strengthening behind the safety properties: where the     *)
(* outstanding order can be, and what each party knows of it.              *)
(***************************************************************************)
AtGate == stratPc = "push" \/ order_q # << >> \/ gwPc = "check"
Entered == ActiveEntries # {}
Returning == gwPc = "forward" \/ fill_q # << >>

\* The outstanding order is in one place, and the latch is held meanwhile.
InOnePlace ==
  /\ AtGate \/ Entered \/ Returning => in_flight
  /\ AtGate => ~Entered /\ ~Returning
  /\ Entered => ~Returning
  /\ stratPc = "push" => order_q = << >> /\ gwPc # "check"
  /\ order_q # << >> => gwPc # "check"
  /\ gwPc = "forward" => fill_q = << >>

\* Whatever is under way is the latest order; only fills may be old ones.
OnlyLatest ==
  /\ outgoing.id = last_order_id
  /\ order_q \in {<< >>, << outgoing >>} /\ fill_q \in {<< >>, << outgoing >>}
  /\ gwPc \in {"check", "send"} => gwOrder = outgoing
  /\ gwPc = "forward" => gwFill = outgoing
  /\ \A i \in ActiveEntries : i = Slot(last_order_id) /\ inflight[i].id = last_order_id
  /\ orderWire \subseteq {outgoing}
  /\ \A r \in fillWire \cup served : r.id <= last_order_id /\ (r.id = last_order_id => r = outgoing)

\* The latest order is filled only after it was entered and sent.
SentOnce ==
  /\ orderWire # {} => Entered
  /\ gwPc = "send" => Entered /\ orderWire = {}
  /\ (AtGate \/ gwPc = "send" \/ orderWire # {}) => outgoing \notin fillWire \cup served

\* An order that is outstanding does not add to a position on its own side.
Reduces ==
  in_flight => /\ outgoing.size = OrderSize
               /\ outgoing.side = "B" => position <= 0
               /\ outgoing.side = "S" => position >= 0

\* The gate is one fill ahead of the strategy while the fill is returning, and
\* has room for the order it has entered.
GateAhead ==
  /\ gw_position = position + (IF Returning THEN Signed(outgoing) ELSE 0)
  /\ Entered => gw_position + Signed(outgoing) \in -MaxPosition .. MaxPosition

\* The exchange is at most one fill ahead of the gate, copies not counted.
FirstFills == exch_position - surplus
ExchangeAhead ==
  /\ FirstFills \in {gw_position, gw_position + Signed(outgoing)}
  /\ ~Entered \/ gwPc = "send" \/ orderWire # {} => FirstFills = gw_position
  /\ Entered /\ outgoing \in fillWire \cup served => FirstFills = gw_position + Signed(outgoing)

OneLateSend == lateSends # 0 => kill_seen /\ gwPc # "send"

IInv == /\ TypeOK /\ InOnePlace /\ OnlyLatest /\ SentOnce
        /\ Reduces /\ StrategyBand /\ GateAhead /\ ExchangeAhead
        /\ KillStopsFlow /\ OneLateSend
=============================================================================

----------------------------- MODULE Itch50Replay -----------------------------
(***************************************************************************)
(* Replay of an ITCH 5.0 file (itch50_replay.cpp): the order-based decoder *)
(* of itch50.hpp keeps the live orders and turns every message into level  *)
(* deltas, which the replay loop applies to a BookView one by one.         *)
(***************************************************************************)
EXTENDS BookView

CONSTANTS NumRefs,            \* bound: how many order reference numbers occur
          ItchPrice,          \* prices on the wire, four implied decimals
          Shares,             \* share counts on the wire
          PriceScale,         \* kPriceScale
          ItchPriceDivisor    \* kItchPriceDivisor

\* ITCH and engine prices: to_engine_price() is an integer division.
to_engine_price(p) == (p * PriceScale) \div ItchPriceDivisor
EnginePrice == { to_engine_price(p) : p \in ItchPrice }

ASSUME ReplayAssumption ==
  /\ NumRefs \in Nat
  /\ Shares \subseteq Size     \* both are std::uint32_t
  /\ Price = EnginePrice

VARIABLES orders,    \* orders_: the live orders, by reference
          delta,     \* the LevelDelta in hand
          pending,   \* pending_: the second half of a Replace
          stats,     \* Decoder::Stats
          silent,    \* history: live orders recorded without a delta
          tainted    \* history: the buy levels that such an order was recorded at

vars == << orders, delta, pending, stats, silent, tainted, bookVars >>

Ref == 1 .. NumRefs
Side == {"B", "S"}
NotLive == [live |-> FALSE, price |-> 0, shares |-> 0, side |-> "B"]
Live(price, shares, side) ==
  [live |-> TRUE, price |-> price, shares |-> shares, side |-> side]

NoDelta == [valid |-> FALSE, type |-> "unknown", side |-> "B", price |-> 0, size |-> 0]
Delta(type, side, price, size) ==
  [valid |-> TRUE, type |-> type, side |-> side, price |-> price, size |-> size]

\* Decoder::Order and LevelDelta
Order == { NotLive } \cup { Live(price, n, side) : price \in Price, n \in Size, side \in Side }
LevelDelta ==
  { NoDelta } \cup { Delta(type, side, price, n) :
      type \in {"add", "execute", "cancel"}, side \in Side, price \in Price, n \in Size }

Stat == {"decoded", "ignored", "malformed", "unknown_order"}
Bump(set) == [s \in Stat |-> IF s \in set THEN (stats[s] + 1) % CounterMod ELSE stats[s]]

TypeOK ==
  /\ orders \in [Ref -> Order]
  /\ delta \in LevelDelta /\ pending \in LevelDelta
  /\ stats \in [Stat -> 0 .. CounterMod - 1]
  /\ silent \subseteq Ref /\ tainted \subseteq Index
  /\ BookTypeOK

Init ==
  /\ orders = [r \in Ref |-> NotLive]
  /\ delta = NoDelta /\ pending = NoDelta
  /\ stats = [s \in Stat |-> 0]
  /\ silent = {} /\ tainted = {}
  /\ BookInit
-----------------------------------------------------------------------------
(* Decoder::apply(), one action per message type.  The loop asks for the   *)
(* next message when the deltas of the last one are used up.               *)

AtNextMessage == ~delta.valid

\* A reference in use is not announced again (the exchange's promise).
Unused(ref) == ~orders[ref].live

StillSilent ==
  /\ silent' = { r \in silent : orders'[r].live }
  /\ UNCHANGED tainted

\* 'A', 'F'
AddOrder(ref, side, shares, p) ==
  /\ AtNextMessage /\ Unused(ref)
  /\ orders' = [orders EXCEPT ![ref] = Live(to_engine_price(p), shares, side)]
  /\ delta' = Delta("add", side, to_engine_price(p), shares)
  /\ stats' = Bump({"decoded"}) /\ StillSilent
  /\ UNCHANGED << pending, bookVars >>

\* Mutant: an exhausted order is reduced past zero in the delta.
Taken_Unclamped(ref, shares) == shares
Taken(ref, shares) ==
  IF shares >= orders[ref].shares THEN orders[ref].shares ELSE shares

\* 'E', 'C' (type execute) and 'X' (type cancel): reduce()
ReduceOrder(ref, shares, type) ==
  LET o == orders[ref]
      left == o.shares - Taken(ref, shares)
  IN  /\ AtNextMessage /\ o.live
      /\ orders' = [orders EXCEPT ![ref] =
                      IF left = 0 THEN NotLive ELSE Live(o.price, left, o.side)]
      /\ delta' = Delta(type, o.side, o.price, Taken(ref, shares))
      /\ stats' = Bump({"decoded"}) /\ StillSilent
      /\ UNCHANGED << pending, bookVars >>

\* Mutant: the removal is not marked as a level change.
Removal_Invalid(o) == [Delta("cancel", o.side, o.price, o.shares) EXCEPT !.valid = FALSE]
\* Mutant: the whole level is deleted instead of the order's remainder.
Removal_WholeLevel(o) == Delta("delete", o.side, o.price, o.shares)
Removal(o) == Delta("cancel", o.side, o.price, o.shares)

\* 'D'
DeleteOrder(ref) ==
  /\ AtNextMessage /\ orders[ref].live
  /\ orders' = [orders EXCEPT ![ref] = NotLive]
  /\ delta' = Removal(orders[ref])
  /\ stats' = Bump({"decoded"}) /\ StillSilent
  /\ UNCHANGED << pending, bookVars >>

\* 'E', 'C', 'X', 'D' for a reference that is not in the map
UnknownOrder(ref) ==
  /\ AtNextMessage /\ Unused(ref)
  /\ stats' = Bump({"decoded", "unknown_order"})
  /\ UNCHANGED << orders, delta, pending, silent, tainted, bookVars >>

\* 'U': the removal now, the add of the replacement as the pending delta
ReplaceOrder(orig, fresh, shares, p) ==
  LET o == orders[orig]
      price == to_engine_price(p)
  IN  /\ AtNextMessage /\ o.live /\ Unused(fresh)
      /\ orders' = [orders EXCEPT ![orig] = NotLive, ![fresh] = Live(price, shares, o.side)]
      /\ delta' = Removal(o)
      /\ pending' = Delta("add", o.side, price, shares)
      /\ stats' = Bump({"decoded"}) /\ StillSilent
      /\ UNCHANGED bookVars

\* 'U' of an unknown original: the replacement is recorded, as a buy order,
\* and no delta is emitted.
ReplaceUnknown(orig, fresh, shares, p) ==
  /\ AtNextMessage /\ Unused(orig) /\ Unused(fresh) /\ orig # fresh
  /\ orders' = [orders EXCEPT ![fresh] = Live(to_engine_price(p), shares, "B")]
  /\ stats' = Bump({"decoded", "unknown_order"})
  /\ silent' = silent \cup {fresh}
  /\ tainted' = tainted \cup ({to_index(to_engine_price(p))} \cap Index)
  /\ UNCHANGED << delta, pending, bookVars >>

\* What expected_length() decides: a known type of the right length, a type that
\* is not decoded, a length that disagrees with the type.
Verdict == {"decoded", "ignored", "malformed"}

\* Administrative and trade messages, unknown types, wrong lengths.
NoLevelChange(stat) ==
  /\ AtNextMessage
  /\ stats' = Bump({stat})
  /\ UNCHANGED << orders, delta, pending, silent, tainted, bookVars >>

\* The replay loop's body: book.apply(delta), then take_pending().
ApplyDelta ==
  /\ delta.valid
  /\ apply(delta)
  /\ delta' = pending
  /\ pending' = NoDelta
  /\ UNCHANGED << orders, stats, silent, tainted >>

Next ==
  \/ \E ref \in Ref :
       \/ \E side \in Side, shares \in Shares, p \in ItchPrice :
            AddOrder(ref, side, shares, p)
       \/ \E shares \in Shares, type \in {"execute", "cancel"} :
            ReduceOrder(ref, shares, type)
       \/ DeleteOrder(ref)
       \/ UnknownOrder(ref)
       \/ \E fresh \in Ref, shares \in Shares, p \in ItchPrice :
            ReplaceOrder(ref, fresh, shares, p) \/ ReplaceUnknown(ref, fresh, shares, p)
  \/ \E stat \in Verdict : NoLevelChange(stat)
  \/ ApplyDelta

Spec == Init /\ [][Next]_vars
-----------------------------------------------------------------------------
(* Properties                                                              *)

Total(w) ==
  LET SumTo[n \in 0 .. NumRefs] == IF n = 0 THEN 0 ELSE SumTo[n - 1] + w[n]
  IN  SumTo[NumRefs]

\* The shares that some live orders add up to at one level of one side.
SharesAt(o, side, i) ==
  IF o.live /\ o.side = side /\ to_index(o.price) = i THEN o.shares ELSE 0
SharesOf(refs, side, i) ==
  Total([r \in Ref |-> IF r \in refs THEN SharesAt(orders[r], side, i) ELSE 0])
RestingShares(side, i) == SharesOf(Ref, side, i)

(***************************************************************************)
(* Between messages every level of the book holds exactly the shares of    *)
(* the live orders at it: each message is "emitted" as deltas that leave   *)
(* the level book equal to the order book it stands for, a Replace "as a   *)
(* delete plus an add" (README.md, ITCH 5.0 message coverage).  Where a    *)
(* Replace of an unknown order was recorded without a delta, the damage    *)
(* stays at the one level it was recorded at, whatever later messages do   *)
(* with that order.                                                        *)
(***************************************************************************)
BookMatchesOrders ==
  AtNextMessage =>
    \A i \in Index :
      /\ i \notin tainted => bid[i] = RestingShares("B", i)
      /\ ask[i] = RestingShares("S", i)

(***************************************************************************)
(* A file that starts after the first orders can make the book show too    *)
(* little (replacements whose original was never seen), but never shares   *)
(* that no live order has.                                                 *)
(***************************************************************************)
NeverOverstated ==
  AtNextMessage =>
    \A i \in Index :
      /\ bid[i] <= RestingShares("B", i)
      /\ ask[i] <= RestingShares("S", i)

(***************************************************************************)
(* A reference that was never announced is "counted, not guessed"          *)
(* (test_itch50.cpp), so whatever is done with it, the shares of the       *)
(* orders that were announced stay on the book.                            *)
(***************************************************************************)
AnnouncedSharesShown ==
  AtNextMessage =>
    \A i \in Index :
      /\ bid[i] >= SharesOf(Ref \ silent, "B", i)
      /\ ask[i] >= SharesOf(Ref \ silent, "S", i)
-----------------------------------------------------------------------------
(* Inductive strengthening: what the book will hold once the deltas in     *)
(* hand are applied.                                                       *)

\* What a delta makes of n shares at a level, were levels unbounded.
After(d, side, i, n) ==
  IF ~d.valid \/ d.side # side \/ to_index(d.price) # i THEN n
  ELSE IF d.type = "add" THEN n + d.size ELSE Reduced(n, d.size)
Settled(side, i) ==
  After(pending, side, i, After(delta, side, i, LevelAt(side = "B", i)))

\* Only a Replace leaves a pending delta, the add that follows its removal.
PendingFollows == pending.valid => delta.valid /\ pending.type = "add"

NoMoreThanOrders ==
  \A side \in Side, i \in Index : Settled(side, i) <= RestingShares(side, i)
Unspoilt(side, i) == side = "B" => i \notin tainted
JustTheOrders ==
  \A side \in Side, i \in Index :
    Unspoilt(side, i) => Settled(side, i) = RestingShares(side, i)

\* No level can saturate: the orders together are smaller than a level's width.
LargestOrder(q) == Shares \subseteq 0 .. q
LevelsFit == \E q \in Size : LargestOrder(q) /\ NumRefs * q <= MaxLevelSize
OrdersBounded == \A r \in Ref : \A q \in Size : LargestOrder(q) => orders[r].shares <= q

IInv ==
  /\ TypeOK /\ TopOfBook /\ PendingFollows /\ OrdersBounded
  /\ NoMoreThanOrders
  /\ LevelsFit => JustTheOrders
=============================================================================

------------------------------- MODULE BookView -------------------------------
(***************************************************************************)
(* The flat-array limit order book of book_view.hpp: resting size per tick *)
(* on each side, with cached best indices that apply() maintains one       *)
(* message at a time instead of recomputing them.                          *)
(***************************************************************************)
EXTENDS Integers

CONSTANTS NumTicks,      \* template argument NumTicks
          Base, Tick,    \* constructor arguments: price of index 0, tick size
          IntSpan,       \* number of values of int (2^32 in the build)
          MaxLevelSize,  \* kMaxLevelSize, the largest std::uint32_t
          CounterMod,    \* number of values of a std::uint64_t counter
          Price          \* the prices messages may carry (std::int64_t)

ASSUME WindowAssumption ==
  /\ NumTicks \in Nat /\ NumTicks >= 4
  /\ Base \in Int /\ Tick \in Nat \ {0}
  /\ IntSpan \in Nat /\ IntSpan % 2 = 0 /\ NumTicks < IntSpan \div 2
  /\ MaxLevelSize \in Nat \ {0}
  /\ CounterMod \in Nat \ {0}
  /\ Price \subseteq Int

VARIABLES bid, ask, best_bid_idx, best_ask_idx, out_of_range

bookVars == << bid, ask, best_bid_idx, best_ask_idx, out_of_range >>

Index == 0 .. NumTicks - 1
Size == 0 .. MaxLevelSize

\* ItchMessage, as far as the book looks at it.  Any side byte other than
\* 'B' selects the ask array; trade and unknown types are not book messages.
MsgType == {"add", "execute", "cancel", "delete", "trade", "unknown"}
Message == [type : MsgType, side : {"B", "S"}, price : Price, size : Size]

BookTypeOK ==
  /\ bid \in [Index -> Size] /\ ask \in [Index -> Size]
  /\ best_bid_idx \in -1 .. NumTicks - 1
  /\ best_ask_idx \in 0 .. NumTicks
  /\ out_of_range \in 0 .. CounterMod - 1

BookInit ==
  /\ bid = [i \in Index |-> 0] /\ ask = [i \in Index |-> 0]
  /\ best_bid_idx = -1 /\ best_ask_idx = NumTicks
  /\ out_of_range = 0
-----------------------------------------------------------------------------
\* C++ integer division truncates toward zero; the cast to int keeps the low bits.
Trunc(d) == IF d >= 0 THEN d \div Tick ELSE -((-d) \div Tick)
Narrow(x) == ((x + IntSpan \div 2) % IntSpan) - IntSpan \div 2
to_index(price) == Narrow(Trunc(price - Base))

\* Mutant: the sum is not bounded at all.
Accumulate_Unbounded(have, add) == have + add
\* Mutant: a wrapping sum, as the code had before it saturated.
Accumulate_Wrap(have, add) == (have + add) % (MaxLevelSize + 1)
Accumulate(have, add) == IF have > MaxLevelSize - add THEN MaxLevelSize ELSE have + add
Reduced(have, less) == IF less >= have THEN 0 ELSE have - less

has_bid == best_bid_idx >= 0
has_ask == best_ask_idx < NumTicks
best_bid_size == IF has_bid THEN bid[best_bid_idx] ELSE 0
best_ask_size == IF has_ask THEN ask[best_ask_idx] ELSE 0

\* The walks of on_level_emptied(): the next non-empty level away from the touch.
WalkDown(arr, idx) ==
  CHOOSE j \in -1 .. idx - 1 :
    /\ j >= 0 => arr[j] # 0
    /\ \A k \in j + 1 .. idx - 1 : arr[k] = 0
WalkUp(arr, idx) ==
  CHOOSE j \in idx + 1 .. NumTicks :
    /\ j < NumTicks => arr[j] # 0
    /\ \A k \in idx + 1 .. j - 1 : arr[k] = 0

SetLevel(is_bid, idx, size) ==
  /\ bid' = IF is_bid THEN [bid EXCEPT ![idx] = size] ELSE bid
  /\ ask' = IF is_bid THEN ask ELSE [ask EXCEPT ![idx] = size]

on_size_increased(is_bid, idx) ==
  /\ best_bid_idx' = IF is_bid /\ idx > best_bid_idx THEN idx ELSE best_bid_idx
  /\ best_ask_idx' = IF ~is_bid /\ idx < best_ask_idx THEN idx ELSE best_ask_idx

\* Mutant: the walk is skipped for the bid side.
on_level_emptied_NoWalk(is_bid, idx) ==
  /\ best_bid_idx' = IF is_bid /\ idx = best_bid_idx THEN idx - 1 ELSE best_bid_idx
  /\ best_ask_idx' =
       IF ~is_bid /\ idx = best_ask_idx THEN WalkUp(ask', idx) ELSE best_ask_idx
on_level_emptied(is_bid, idx) ==
  /\ best_bid_idx' =
       IF is_bid /\ idx = best_bid_idx THEN WalkDown(bid', idx) ELSE best_bid_idx
  /\ best_ask_idx' =
       IF ~is_bid /\ idx = best_ask_idx THEN WalkUp(ask', idx) ELSE best_ask_idx

LevelAt(is_bid, idx) == IF is_bid THEN bid[idx] ELSE ask[idx]
-----------------------------------------------------------------------------
(* apply(): one disjunct per case of its switch                            *)

OutOfRange(m) ==
  /\ to_index(m.price) \notin Index
  /\ out_of_range' = (out_of_range + 1) % CounterMod
  /\ UNCHANGED << bid, ask, best_bid_idx, best_ask_idx >>

Add(m) ==
  LET idx == to_index(m.price)
      is_bid == m.side = "B"
  IN  /\ idx \in Index /\ m.type = "add" /\ m.size # 0
      /\ SetLevel(is_bid, idx, Accumulate(LevelAt(is_bid, idx), m.size))
      /\ on_size_increased(is_bid, idx)
      /\ UNCHANGED out_of_range

Reduce(m) ==
  LET idx == to_index(m.price)
      is_bid == m.side = "B"
      left == Reduced(LevelAt(is_bid, idx), m.size)
  IN  /\ idx \in Index /\ m.type \in {"execute", "cancel"}
      /\ SetLevel(is_bid, idx, left)
      /\ IF left = 0 THEN on_level_emptied(is_bid, idx)
                     ELSE UNCHANGED << best_bid_idx, best_ask_idx >>
      /\ UNCHANGED out_of_range

Delete(m) ==
  LET idx == to_index(m.price)
      is_bid == m.side = "B"
  IN  /\ idx \in Index /\ m.type = "delete"
      /\ SetLevel(is_bid, idx, 0)
      /\ on_level_emptied(is_bid, idx)
      /\ UNCHANGED out_of_range

Ignored(m) ==
  /\ to_index(m.price) \in Index
  /\ m.type \in {"trade", "unknown"} \/ (m.type = "add" /\ m.size = 0)
  /\ UNCHANGED bookVars

apply(m) == OutOfRange(m) \/ Add(m) \/ Reduce(m) \/ Delete(m) \/ Ignored(m)

BookNext == \E m \in Message : apply(m)

BookSpec == BookInit /\ [][BookNext]_bookVars
-----------------------------------------------------------------------------
(* Properties                                                              *)

(***************************************************************************)
(* The incrementally maintained touch is the true one: the cached best     *)
(* index is a non-empty level with nothing better beyond it, or the "none" *)
(* value of an empty side.  The strategy divides no sizes, but it relies   *)
(* on bid + ask > 0 whenever the book is two-sided.                        *)
(***************************************************************************)
BidTouch ==
  /\ has_bid => best_bid_size # 0
  /\ \A k \in Index : k > best_bid_idx => bid[k] = 0
AskTouch ==
  /\ has_ask => best_ask_size # 0
  /\ \A k \in Index : k < best_ask_idx => ask[k] = 0
TopOfBook == BidTouch /\ AskTouch
BookIInv == BookTypeOK /\ TopOfBook

(***************************************************************************)
(* Prices outside the window [Base, Base + NumTicks * Tick) are "counted   *)
(* and dropped rather than folded back in" (README.md, on the book).       *)
(***************************************************************************)
OutsideWindow(price) == price < Base \/ price >= Base + NumTicks * Tick
OutsideIsDropped ==
  [][\A m \in Message :
       apply(m) /\ OutsideWindow(m.price) => UNCHANGED << bid, ask >>]_bookVars
=============================================================================

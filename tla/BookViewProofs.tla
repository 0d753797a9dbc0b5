---------------------------- MODULE BookViewProofs ----------------------------
(***************************************************************************)
(* The cached touch of the book is the true one for every window size,     *)
(* price set and integer width.                                            *)
(***************************************************************************)
EXTENDS BookView, WellFoundedInduction, TLAPS

(***************************************************************************)
(* A non-empty set of naturals has a least element (what makes the walks   *)
(* of on_level_emptied() end).                                             *)
(***************************************************************************)
LEMMA LeastNat ==
  ASSUME NEW T, T \subseteq Nat, T # {}
  PROVE  \E x \in T : \A y \in T : x <= y
<1>1. PICK x \in T : \A y \in T : ~(<<y, x>> \in OpToRel(<, Nat))
  BY NatLessThanWellFounded, WFMin
<1>2. ASSUME NEW y \in T PROVE x <= y
  <2>1. x \in Nat /\ y \in Nat
    OBVIOUS
  <2>2. ASSUME y < x PROVE <<y, x>> \in OpToRel(<, Nat)
    BY <2>1, <2>2, Zenon DEF OpToRel
  <2>3. ~(y < x)
    BY <1>1, <2>2
  <2>4. QED
    BY <2>1, <2>3
<1>3. QED
  BY <1>2

LEMMA StrictlyBetween ==
  ASSUME NEW a \in Int, NEW b \in Int, NEW k \in Int, a < k, k < b
  PROVE  k \in a + 1 .. b - 1
  OBVIOUS

(***************************************************************************)
(* The downward walk stops at a non-empty level or at -1 and skips only    *)
(* empty levels.                                                           *)
(***************************************************************************)
LEMMA WalkDownStops ==
  ASSUME NEW arr, NEW idx \in Index
  PROVE  LET j == WalkDown(arr, idx)
         IN  /\ j \in -1 .. idx - 1
             /\ j >= 0 => arr[j] # 0
             /\ \A k \in j + 1 .. idx - 1 : arr[k] = 0
<1> DEFINE D == { d \in Nat : d <= idx /\ (idx - 1 - d >= 0 => arr[idx - 1 - d] # 0) }
<1>1. idx \in Nat
  BY WindowAssumption DEF Index
<1>2. idx \in D
  BY <1>1
<1>3. PICK d \in D : \A e \in D : d <= e
  <2> HIDE DEF D
  <2>1. D \subseteq Nat
    BY DEF D
  <2> QED BY <1>2, <2>1, LeastNat
<1> DEFINE j == idx - 1 - d
<1>4. j \in -1 .. idx - 1 /\ (j >= 0 => arr[j] # 0)
  BY <1>1, <1>3
<1>5. ASSUME NEW k \in j + 1 .. idx - 1 PROVE arr[k] = 0
  <2>1. idx - 1 - k \in Nat /\ idx - 1 - k < d /\ idx - 1 - (idx - 1 - k) = k /\ k >= 0
    BY <1>1, <1>3, <1>4, <1>5
  <2>2. idx - 1 - k \notin D
    BY <1>3, <2>1
  <2>3. QED
    BY <1>1, <1>3, <2>1, <2>2
<1>6. QED
  <2>1. \E i \in -1 .. idx - 1 : /\ i >= 0 => arr[i] # 0
                                 /\ \A k \in i + 1 .. idx - 1 : arr[k] = 0
    <3> HIDE DEF j
    <3> QED BY <1>4, <1>5
  <2>2. QED
    BY <2>1, Zenon DEF WalkDown

(***************************************************************************)
(* The upward walk stops at a non-empty level or at NumTicks and skips     *)
(* only empty levels.                                                      *)
(***************************************************************************)
LEMMA WalkUpStops ==
  ASSUME NEW arr, NEW idx \in Index
  PROVE  LET j == WalkUp(arr, idx)
         IN  /\ j \in idx + 1 .. NumTicks
             /\ j < NumTicks => arr[j] # 0
             /\ \A k \in idx + 1 .. j - 1 : arr[k] = 0
<1> DEFINE D == { d \in idx + 1 .. NumTicks : d < NumTicks => arr[d] # 0 }
<1>1. idx \in Nat /\ NumTicks \in Nat /\ idx < NumTicks
  BY WindowAssumption DEF Index
<1>2. NumTicks \in D
  BY <1>1
<1>3. PICK j \in D : \A e \in D : j <= e
  <2>1. D \subseteq Nat
    BY <1>1
  <2> HIDE DEF D
  <2> QED BY <1>2, <2>1, LeastNat
<1>4. j \in idx + 1 .. NumTicks /\ (j < NumTicks => arr[j] # 0)
  BY <1>3
<1>5. ASSUME NEW k \in idx + 1 .. j - 1 PROVE arr[k] = 0
  <2>1. k \in idx + 1 .. NumTicks /\ k < NumTicks /\ ~(j <= k)
    BY <1>1, <1>4, <1>5
  <2>2. k \notin D
    BY <1>3, <2>1
  <2>3. QED
    BY <2>1, <2>2
<1>6. QED
  BY <1>4, <1>5, Zenon DEF WalkUp

(***************************************************************************)
(* Saturating sums and floored differences stay within a level's width,    *)
(* and an add of a non-zero size never leaves an empty level behind.       *)
(***************************************************************************)
LEMMA LevelArithmetic ==
  \A have, n \in Size :
    /\ Accumulate(have, n) \in Size
    /\ n # 0 => Accumulate(have, n) # 0
    /\ Reduced(have, n) \in Size
  BY WindowAssumption DEF Size, Accumulate, Reduced

(***************************************************************************)
(* Emptying one level keeps the touch exact.                               *)
(***************************************************************************)
LEMMA EmptyingKeepsTouch ==
  ASSUME BookIInv, NEW is_bid \in BOOLEAN, NEW idx \in Index,
         SetLevel(is_bid, idx, 0), on_level_emptied(is_bid, idx),
         UNCHANGED out_of_range
  PROVE  BookIInv'
<1> USE WindowAssumption
<1>1. BookTypeOK /\ BidTouch /\ AskTouch
  BY DEF BookIInv, TopOfBook
<1>2. bid' \in [Index -> Size] /\ ask' \in [Index -> Size]
  BY <1>1 DEF BookTypeOK, SetLevel, Size
<1>3. CASE is_bid
  <2>1. bid' = [bid EXCEPT ![idx] = 0] /\ ask' = ask /\ best_ask_idx' = best_ask_idx
    BY <1>3 DEF SetLevel, on_level_emptied
  <2>2. best_bid_idx' \in -1 .. NumTicks - 1 /\ BidTouch'
    <3>1. CASE idx = best_bid_idx
      <4>1. best_bid_idx' = WalkDown(bid', idx)
        BY <1>3, <3>1 DEF on_level_emptied
      <4>2. /\ best_bid_idx' \in -1 .. idx - 1
            /\ best_bid_idx' >= 0 => bid'[best_bid_idx'] # 0
            /\ \A k \in best_bid_idx' + 1 .. idx - 1 : bid'[k] = 0
        BY <4>1, WalkDownStops
      <4>3. best_bid_idx' \in -1 .. NumTicks - 1
        BY <4>2 DEF Index
      <4>4. ASSUME NEW k \in Index, k > best_bid_idx' PROVE bid'[k] = 0
        <5>1. CASE k < idx
          <6>0. k \in Int /\ idx \in Int /\ best_bid_idx' \in Int
            BY <4>3 DEF Index
          <6>1. k \in best_bid_idx' + 1 .. idx - 1
            BY <4>4, <5>1, <6>0, StrictlyBetween
          <6>2. QED
            BY <4>2, <6>1
        <5>2. CASE k = idx
          BY <1>1, <2>1, <5>2 DEF BookTypeOK
        <5>3. CASE k > idx
          BY <1>1, <2>1, <3>1, <5>3 DEF BookTypeOK, BidTouch, has_bid, best_bid_size, Index
        <5>4. QED
          BY <5>1, <5>2, <5>3 DEF Index
      <4>5. QED
        BY <4>2, <4>3, <4>4 DEF BidTouch, has_bid, best_bid_size
    <3>2. CASE idx # best_bid_idx
      BY <1>1, <1>3, <2>1, <3>2
      DEF on_level_emptied, BookTypeOK, BidTouch, has_bid, best_bid_size, Index
    <3>3. QED
      BY <3>1, <3>2
  <2>3. AskTouch'
    BY <1>1, <2>1 DEF AskTouch, has_ask, best_ask_size
  <2>4. QED
    BY <1>1, <1>2, <2>1, <2>2, <2>3 DEF BookIInv, BookTypeOK, TopOfBook
<1>4. CASE ~is_bid
  <2>1. ask' = [ask EXCEPT ![idx] = 0] /\ bid' = bid /\ best_bid_idx' = best_bid_idx
    BY <1>4 DEF SetLevel, on_level_emptied
  <2>2. best_ask_idx' \in 0 .. NumTicks /\ AskTouch'
    <3>1. CASE idx = best_ask_idx
      <4>1. best_ask_idx' = WalkUp(ask', idx)
        BY <1>4, <3>1 DEF on_level_emptied
      <4>2. /\ best_ask_idx' \in idx + 1 .. NumTicks
            /\ best_ask_idx' < NumTicks => ask'[best_ask_idx'] # 0
            /\ \A k \in idx + 1 .. best_ask_idx' - 1 : ask'[k] = 0
        BY <4>1, WalkUpStops
      <4>3. best_ask_idx' \in 0 .. NumTicks
        BY <4>2 DEF Index
      <4>4. ASSUME NEW k \in Index, k < best_ask_idx' PROVE ask'[k] = 0
        <5>1. CASE k > idx
          <6>0. k \in Int /\ idx \in Int /\ best_ask_idx' \in Int
            BY <4>3 DEF Index
          <6>1. k \in idx + 1 .. best_ask_idx' - 1
            BY <4>4, <5>1, <6>0, StrictlyBetween
          <6>2. QED
            BY <4>2, <6>1
        <5>2. CASE k = idx
          BY <1>1, <2>1, <5>2 DEF BookTypeOK
        <5>3. CASE k < idx
          BY <1>1, <2>1, <3>1, <5>3 DEF BookTypeOK, AskTouch, has_ask, best_ask_size, Index
        <5>4. QED
          BY <5>1, <5>2, <5>3 DEF Index
      <4>5. QED
        BY <4>2, <4>3, <4>4 DEF AskTouch, has_ask, best_ask_size
    <3>2. CASE idx # best_ask_idx
      BY <1>1, <1>4, <2>1, <3>2
      DEF on_level_emptied, BookTypeOK, AskTouch, has_ask, best_ask_size, Index
    <3>3. QED
      BY <3>1, <3>2
  <2>3. BidTouch'
    BY <1>1, <2>1 DEF BidTouch, has_bid, best_bid_size
  <2>4. QED
    BY <1>1, <1>2, <2>1, <2>2, <2>3 DEF BookIInv, BookTypeOK, TopOfBook
<1>5. QED
  BY <1>3, <1>4

LEMMA BookInitIInv == BookInit => BookIInv
  BY WindowAssumption
  DEF BookInit, BookIInv, BookTypeOK, TopOfBook, BidTouch, has_bid, best_bid_size,
      AskTouch, has_ask, best_ask_size, Index, Size

(***************************************************************************)
(* Every message keeps the touch exact, whatever price and type it has.    *)
(***************************************************************************)
LEMMA ApplyIInv ==
  ASSUME BookIInv, NEW m, m.size \in Size, apply(m)
  PROVE  BookIInv'
<1> USE WindowAssumption
<1>t. BookTypeOK /\ BidTouch /\ AskTouch
  BY DEF BookIInv, TopOfBook
<1>1. CASE OutOfRange(m)
  BY <1>t, <1>1
  DEF OutOfRange, BookIInv, BookTypeOK, TopOfBook, BidTouch, has_bid, best_bid_size,
      AskTouch, has_ask, best_ask_size
<1>2. CASE Add(m)
  <2> DEFINE idx == to_index(m.price)
             is_bid == m.side = "B"
             n == Accumulate(LevelAt(is_bid, idx), m.size)
  <2>1. /\ idx \in Index /\ m.size # 0 /\ m.size \in Size
        /\ SetLevel(is_bid, idx, n) /\ on_size_increased(is_bid, idx)
        /\ out_of_range' = out_of_range
    BY <1>2 DEF Add
  <2>2. is_bid \in BOOLEAN
    OBVIOUS
  <2> HIDE DEF idx, is_bid
  <2>3. LevelAt(is_bid, idx) \in Size
    BY <1>t, <2>1, <2>2 DEF LevelAt, BookTypeOK
  <2>4. n \in Size /\ n # 0
    BY <2>1, <2>3, LevelArithmetic
  <2> HIDE DEF n
  <2>5. BookTypeOK'
    BY <1>t, <2>1, <2>2, <2>4 DEF BookTypeOK, SetLevel, on_size_increased, Index
  <2>6. BidTouch'
    BY <1>t, <2>1, <2>2, <2>4
    DEF BookTypeOK, BidTouch, has_bid, best_bid_size, SetLevel, on_size_increased, Index
  <2>7. AskTouch'
    BY <1>t, <2>1, <2>2, <2>4
    DEF BookTypeOK, AskTouch, has_ask, best_ask_size, SetLevel, on_size_increased, Index
  <2>8. QED
    BY <2>5, <2>6, <2>7 DEF BookIInv, TopOfBook
<1>3. CASE Reduce(m)
  <2> DEFINE idx == to_index(m.price)
             is_bid == m.side = "B"
             n == Reduced(LevelAt(is_bid, idx), m.size)
  <2>1. /\ idx \in Index /\ m.size \in Size
        /\ SetLevel(is_bid, idx, n)
        /\ IF n = 0 THEN on_level_emptied(is_bid, idx)
                    ELSE best_bid_idx' = best_bid_idx /\ best_ask_idx' = best_ask_idx
        /\ out_of_range' = out_of_range
    BY <1>3 DEF Reduce
  <2>2. is_bid \in BOOLEAN
    OBVIOUS
  <2> HIDE DEF idx, is_bid
  <2>3. LevelAt(is_bid, idx) \in Size
    BY <1>t, <2>1, <2>2 DEF LevelAt, BookTypeOK
  <2>4. n \in Size
    BY <2>1, <2>3, LevelArithmetic
  <2>5. CASE n = 0
    BY <2>1, <2>2, <2>5, EmptyingKeepsTouch
  <2>6. CASE n # 0
    <3>0. LevelAt(is_bid, idx) # 0
      BY <2>1, <2>3, <2>6 DEF Reduced, Size
    <3> HIDE DEF n
    <3>1. BookTypeOK'
      BY <1>t, <2>1, <2>2, <2>4, <2>6 DEF BookTypeOK, SetLevel
    <3>2. BidTouch'
      BY <1>t, <2>1, <2>2, <2>6, <3>0
      DEF BookTypeOK, BidTouch, has_bid, best_bid_size, SetLevel, LevelAt, Index
    <3>3. AskTouch'
      BY <1>t, <2>1, <2>2, <2>6, <3>0
      DEF BookTypeOK, AskTouch, has_ask, best_ask_size, SetLevel, LevelAt, Index
    <3>4. QED
      BY <3>1, <3>2, <3>3 DEF BookIInv, TopOfBook
  <2>7. QED
    BY <2>5, <2>6
<1>4. CASE Delete(m)
  <2> DEFINE is_bid == m.side = "B"
  <2>1. is_bid \in BOOLEAN
    OBVIOUS
  <2>2. QED
    BY <1>4, <2>1, EmptyingKeepsTouch DEF Delete
<1>5. CASE Ignored(m)
  BY <1>t, <1>5
  DEF Ignored, bookVars, BookIInv, BookTypeOK, TopOfBook, BidTouch, has_bid, best_bid_size,
      AskTouch, has_ask, best_ask_size
<1>6. QED
  BY <1>1, <1>2, <1>3, <1>4, <1>5 DEF apply

LEMMA BookStepIInv == BookIInv /\ [BookNext]_bookVars => BookIInv'
<1> SUFFICES ASSUME BookIInv, [BookNext]_bookVars PROVE BookIInv'
  OBVIOUS
<1>1. ASSUME NEW m \in Message, apply(m) PROVE BookIInv'
  BY <1>1, ApplyIInv DEF Message
<1>2. CASE UNCHANGED bookVars
  BY <1>2
  DEF bookVars, BookIInv, BookTypeOK, TopOfBook, BidTouch, has_bid, best_bid_size,
      AskTouch, has_ask, best_ask_size
<1>3. QED
  BY <1>1, <1>2 DEF BookNext

(***************************************************************************)
(* Type correctness of the book: levels never leave the range of a         *)
(* uint32, best indices never leave the window.                            *)
(***************************************************************************)
THEOREM BookTypeCorrect == BookSpec => []BookTypeOK
<1>1. BookIInv => BookTypeOK
  BY DEF BookIInv
<1>2. QED
  BY <1>1, BookInitIInv, BookStepIInv, PTL DEF BookSpec

(***************************************************************************)
(* The touch the strategy reads is exact after every message sequence.     *)
(***************************************************************************)
THEOREM TouchIsExact == BookSpec => []TopOfBook
<1>1. BookIInv => TopOfBook
  BY DEF BookIInv
<1>2. QED
  BY <1>1, BookInitIInv, BookStepIInv, PTL DEF BookSpec
=============================================================================

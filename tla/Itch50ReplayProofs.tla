-------------------------- MODULE Itch50ReplayProofs --------------------------
(***************************************************************************)
(* The level book that the replay builds from order messages agrees with   *)
(* the live orders, for every number of orders, set of prices and window.  *)
(***************************************************************************)
EXTENDS Itch50Replay, BookViewProofs

(* Sums over the references                                                *)

(***************************************************************************)
(* The recursive definition of the partial sums has a solution, so Total() *)
(* means what it says.                                                     *)
(***************************************************************************)
LEMMA SumsExist ==
  ASSUME NEW w, NEW N \in Nat
  PROVE  \E f : f = [n \in 0 .. N |-> IF n = 0 THEN 0 ELSE f[n - 1] + w[n]]
<1> DEFINE Bad == { k \in Nat : ~ \E f : f = [n \in 0 .. k |-> IF n = 0 THEN 0 ELSE f[n - 1] + w[n]] }
<1>1. ASSUME Bad # {} PROVE FALSE
  <2>1. PICK k \in Bad : \A j \in Bad : k <= j
    <3>1. Bad \subseteq Nat
      OBVIOUS
    <3> HIDE DEF Bad
    <3> QED BY <1>1, <3>1, LeastNat
  <2>2. k # 0
    <3> DEFINE g == [n \in 0 .. 0 |-> 0]
    <3>1. g = [n \in 0 .. 0 |-> IF n = 0 THEN 0 ELSE g[n - 1] + w[n]]
      OBVIOUS
    <3> HIDE DEF g
    <3>2. 0 \notin Bad
      BY <3>1
    <3>3. QED
      BY <2>1, <3>2
  <2>3. k - 1 \in Nat /\ k - 1 \notin Bad
    <3>1. Bad \subseteq Nat
      OBVIOUS
    <3> HIDE DEF Bad
    <3> QED BY <2>1, <2>2, <3>1
  <2>4. PICK f : f = [n \in 0 .. k - 1 |-> IF n = 0 THEN 0 ELSE f[n - 1] + w[n]]
    BY <2>3
  <2> DEFINE g == [n \in 0 .. k |-> IF n = k THEN f[k - 1] + w[k] ELSE f[n]]
  <2>5. ASSUME NEW n \in 0 .. k PROVE g[n] = IF n = 0 THEN 0 ELSE g[n - 1] + w[n]
    <3>1. k \in Nat \ {0}
      BY <2>2
    <3>2. CASE n = k
      BY <3>1, <3>2
    <3>3. CASE n # k
      BY <2>4, <3>1, <3>3
    <3>4. QED
      BY <3>2, <3>3
  <2>6. g = [n \in 0 .. k |-> g[n]]
    OBVIOUS
  <2> HIDE DEF g
  <2>7. g = [n \in 0 .. k |-> IF n = 0 THEN 0 ELSE g[n - 1] + w[n]]
    BY <2>5, <2>6
  <2>8. QED
    BY <2>1, <2>7
<1>2. QED
  BY <1>1

LEMMA TotalIsSum ==
  ASSUME NEW w \in [Ref -> Nat]
  PROVE  \E s \in [0 .. NumRefs -> Nat] :
           /\ s[0] = 0
           /\ \A n \in Ref : s[n] = s[n - 1] + w[n]
           /\ Total(w) = s[NumRefs]
<1> USE ReplayAssumption DEF Ref
<1> DEFINE s == CHOOSE f : f = [n \in 0 .. NumRefs |-> IF n = 0 THEN 0 ELSE f[n - 1] + w[n]]
<1>1. s = [n \in 0 .. NumRefs |-> IF n = 0 THEN 0 ELSE s[n - 1] + w[n]]
  BY SumsExist, Zenon
<1>2. Total(w) = s[NumRefs]
  BY Zenon DEF Total
<1> HIDE DEF s
<1>3. s[0] = 0 /\ \A n \in Ref : s[n] = s[n - 1] + w[n]
  BY <1>1
<1> DEFINE Bad == { n \in 0 .. NumRefs : s[n] \notin Nat }
<1>4. ASSUME Bad # {} PROVE FALSE
  <2>0. Bad \subseteq Nat
    OBVIOUS
  <2>1. PICK k \in Bad : \A j \in Bad : k <= j
    <3> HIDE DEF Bad
    <3> QED BY <1>4, <2>0, LeastNat
  <2>2. k \in Ref /\ k - 1 \in 0 .. NumRefs
    BY <1>3, <2>1
  <2>3. s[k - 1] \in Nat
    BY <2>1, <2>2
  <2>4. QED
    BY <1>3, <2>1, <2>2, <2>3
<1>5. s \in [0 .. NumRefs -> Nat]
  BY <1>1, <1>4
<1>6. QED
  BY <1>2, <1>3, <1>5

LEMMA TotalType ==
  ASSUME NEW w \in [Ref -> Nat] PROVE Total(w) \in Nat
  BY TotalIsSum, ReplayAssumption

(***************************************************************************)
(* Changing the shares of one reference changes the total by as much.      *)
(***************************************************************************)
LEMMA TotalUpdate ==
  ASSUME NEW w \in [Ref -> Nat], NEW v \in [Ref -> Nat], NEW r \in Ref,
         \A q \in Ref \ {r} : v[q] = w[q]
  PROVE  Total(v) = Total(w) + v[r] - w[r]
<1> USE ReplayAssumption DEF Ref
<1>1. PICK s \in [0 .. NumRefs -> Nat] :
        s[0] = 0 /\ (\A n \in Ref : s[n] = s[n - 1] + w[n]) /\ Total(w) = s[NumRefs]
  BY TotalIsSum
<1>2. PICK t \in [0 .. NumRefs -> Nat] :
        t[0] = 0 /\ (\A n \in Ref : t[n] = t[n - 1] + v[n]) /\ Total(v) = t[NumRefs]
  BY TotalIsSum
<1> DEFINE Bad == { n \in 0 .. NumRefs : t[n] # s[n] + (IF n >= r THEN v[r] - w[r] ELSE 0) }
<1>3. ASSUME Bad # {} PROVE FALSE
  <2>0. Bad \subseteq Nat
    OBVIOUS
  <2>1. PICK k \in Bad : \A j \in Bad : k <= j
    <3> HIDE DEF Bad
    <3> QED BY <1>3, <2>0, LeastNat
  <2>2. k \in Ref /\ k - 1 \in 0 .. NumRefs
    BY <1>1, <1>2, <2>1
  <2>3. k - 1 \notin Bad
    <3> HIDE DEF Bad
    <3> QED BY <2>0, <2>1, <2>2
  <2>4. t[k - 1] = s[k - 1] + (IF k - 1 >= r THEN v[r] - w[r] ELSE 0)
    BY <2>2, <2>3
  <2>5. t[k] # s[k] + (IF k >= r THEN v[r] - w[r] ELSE 0)
    BY <2>1
  <2> HIDE DEF Bad
  <2>6. t[k] = t[k - 1] + v[k] /\ s[k] = s[k - 1] + w[k]
    BY <1>1, <1>2, <2>2
  <2>7. t[k - 1] \in Nat /\ s[k - 1] \in Nat /\ v[k] \in Nat /\ w[k] \in Nat
    BY <2>2
  <2>8. v[r] \in Nat /\ w[r] \in Nat /\ k \in Nat /\ r \in Nat
    BY <2>2
  <2>9. CASE k = r
    <3>1. ~(k - 1 >= r) /\ k >= r
      BY <2>8, <2>9
    <3>2. QED
      BY <2>4, <2>5, <2>6, <2>7, <2>9, <3>1
  <2>10. CASE k < r
    <3>1. v[k] = w[k] /\ ~(k - 1 >= r) /\ ~(k >= r)
      BY <2>2, <2>8, <2>10
    <3>2. t[k - 1] = s[k - 1] + 0 /\ t[k] # s[k] + 0
      BY <2>4, <2>5, <3>1, Zenon
    <3>3. t[k] = t[k - 1] + w[k]
      BY <2>6, <3>1, Zenon
    <3>4. t[k - 1] = s[k - 1] /\ t[k] # s[k]
      BY <2>6, <2>7, <3>2, <3>3
    <3>5. QED
      BY <2>6, <3>3, <3>4, Zenon
  <2>11. CASE k > r
    <3>1. v[k] = w[k] /\ k - 1 >= r /\ k >= r
      BY <2>2, <2>8, <2>11
    <3>2. t[k - 1] = s[k - 1] + (v[r] - w[r]) /\ t[k] # s[k] + (v[r] - w[r])
      BY <2>4, <2>5, <3>1, Zenon
    <3>3. t[k] = t[k - 1] + w[k]
      BY <2>6, <3>1, Zenon
    <3>4. s[k] = s[k - 1] + w[k]
      BY <2>6
    <3>5. (s[k - 1] + (v[r] - w[r])) + w[k] = (s[k - 1] + w[k]) + (v[r] - w[r])
      BY <2>7, <2>8
    <3>6. QED
      BY <3>2, <3>3, <3>4, <3>5, Zenon
  <2>12. QED
    BY <2>8, <2>9, <2>10, <2>11
<1>4. NumRefs \in 0 .. NumRefs /\ NumRefs \notin Bad
  <2> HIDE DEF Bad
  <2> QED BY <1>3
<1>5. t[NumRefs] = s[NumRefs] + (IF NumRefs >= r THEN v[r] - w[r] ELSE 0)
  BY <1>4
<1> HIDE DEF Bad
<1>6. /\ NumRefs >= r /\ v[r] \in Nat /\ w[r] \in Nat
      /\ s[NumRefs] \in Nat /\ t[NumRefs] \in Nat
  BY <1>4
<1>7. QED
  BY <1>1, <1>2, <1>5, <1>6

LEMMA TotalAtLeast ==
  ASSUME NEW w \in [Ref -> Nat], NEW r \in Ref PROVE w[r] <= Total(w)
<1> DEFINE v == [w EXCEPT ![r] = 0]
<1>1. v \in [Ref -> Nat] /\ v[r] = 0 /\ \A q \in Ref \ {r} : v[q] = w[q]
  OBVIOUS
<1> HIDE DEF v
<1>2. Total(v) = Total(w) + v[r] - w[r]
  BY <1>1, TotalUpdate
<1>3. Total(v) \in Nat /\ Total(w) \in Nat /\ w[r] \in Nat
  BY <1>1, TotalType
<1>4. QED
  BY <1>1, <1>2, <1>3

LEMMA TotalBounded ==
  ASSUME NEW w \in [Ref -> Nat], NEW q \in Nat, \A r \in Ref : w[r] <= q
  PROVE  Total(w) <= NumRefs * q
<1> USE ReplayAssumption DEF Ref
<1>1. PICK s \in [0 .. NumRefs -> Nat] :
        s[0] = 0 /\ (\A n \in Ref : s[n] = s[n - 1] + w[n]) /\ Total(w) = s[NumRefs]
  BY TotalIsSum
<1> DEFINE Bad == { n \in 0 .. NumRefs : ~(s[n] <= n * q) }
<1>2. ASSUME Bad # {} PROVE FALSE
  <2>0. Bad \subseteq Nat
    OBVIOUS
  <2>1. PICK k \in Bad : \A j \in Bad : k <= j
    <3> HIDE DEF Bad
    <3> QED BY <1>2, <2>0, LeastNat
  <2>2. k \in Ref /\ k - 1 \in 0 .. NumRefs
    BY <1>1, <2>1
  <2>3. k - 1 \notin Bad
    <3> HIDE DEF Bad
    <3> QED BY <2>0, <2>1, <2>2
  <2>4. s[k - 1] <= (k - 1) * q
    BY <2>2, <2>3
  <2>5. s[k] = s[k - 1] + w[k] /\ w[k] <= q
    BY <1>1, <2>2
  <2>6. (k - 1) * q + q = k * q
    BY <2>2
  <2>7. ~(s[k] <= k * q)
    BY <2>1
  <2>8. s[k] \in Nat /\ s[k - 1] \in Nat /\ w[k] \in Nat /\ (k - 1) * q \in Int /\ k * q \in Int
    BY <2>2
  <2> HIDE DEF Bad
  <2>9. QED
    BY <2>4, <2>5, <2>6, <2>7, <2>8
<1>3. NumRefs \notin Bad
  BY <1>2
<1>4. QED
  BY <1>1, <1>3
-----------------------------------------------------------------------------
(* Orders and deltas at a level                                            *)

LEMMA OrderFields ==
  ASSUME NEW o \in Order
  PROVE  o.shares \in Size /\ o.side \in Side /\ (o.live \/ o = NotLive)
  BY WindowAssumption DEF Order, NotLive, Live, Size, Side

LEMMA NotLiveIsOrder == NotLive \in Order
  BY DEF Order

LEMMA LiveIsOrder ==
  ASSUME NEW p \in Price, NEW n \in Size, NEW s \in Side
  PROVE  Live(p, n, s) \in Order
  BY DEF Order

LEMMA LiveOrder ==
  ASSUME NEW o \in Order, o.live
  PROVE  /\ o = Live(o.price, o.shares, o.side)
         /\ o.price \in Price /\ o.shares \in Size /\ o.side \in Side
<1>1. o # NotLive
  BY DEF NotLive
<1>2. PICK p \in Price, n \in Size, s \in Side : o = Live(p, n, s)
  BY <1>1 DEF Order
<1>3. QED
  BY <1>2 DEF Live

LEMMA DeltaType ==
  /\ NoDelta \in LevelDelta
  /\ \A type \in {"add", "execute", "cancel"}, s \in Side, p \in Price, n \in Size :
       Delta(type, s, p, n) \in LevelDelta
  BY DEF LevelDelta

LEMMA ValidDelta ==
  ASSUME NEW d \in LevelDelta, d.valid
  PROVE  \E type \in {"add", "execute", "cancel"}, s \in Side, p \in Price, n \in Size :
           d = Delta(type, s, p, n)
<1>1. d # NoDelta
  BY DEF NoDelta
<1>2. QED
  BY <1>1 DEF LevelDelta

LEMMA SharesAtNone ==
  \A side \in Side, i \in Index : SharesAt(NotLive, side, i) = 0
  BY DEF SharesAt, NotLive

LEMMA SharesAtLive ==
  \A p, n, s, side, i :
    SharesAt(Live(p, n, s), side, i) = IF s = side /\ to_index(p) = i THEN n ELSE 0
  BY DEF SharesAt, Live

LEMMA SharesAtType ==
  ASSUME NEW o \in Order, NEW side \in Side, NEW i \in Index
  PROVE  SharesAt(o, side, i) \in Nat /\ SharesAt(o, side, i) <= o.shares
<1>1. o.shares \in Nat
  BY OrderFields, WindowAssumption DEF Size
<1>2. SharesAt(o, side, i) = o.shares \/ SharesAt(o, side, i) = 0
  BY Zenon DEF SharesAt
<1>3. QED
  BY <1>1, <1>2

(***************************************************************************)
(* An add puts a new order's shares on its level, an execution or a cancel *)
(* takes an order's off, and other levels stay as they are.                *)
(***************************************************************************)
LEMMA AfterNothing == \A side, i, n : After(NoDelta, side, i, n) = n
  BY DEF After, NoDelta

LEMMA AfterAdd ==
  ASSUME NEW p, NEW k \in Nat, NEW s, NEW side, NEW i, NEW n \in Nat
  PROVE  After(Delta("add", s, p, k), side, i, n) = n + SharesAt(Live(p, k, s), side, i)
<1>1. CASE s = side /\ to_index(p) = i
  <2>1. After(Delta("add", s, p, k), side, i, n) = n + k
    BY <1>1 DEF After, Delta
  <2>2. QED
    BY <1>1, <2>1, SharesAtLive
<1>2. CASE ~(s = side /\ to_index(p) = i)
  <2>1. After(Delta("add", s, p, k), side, i, n) = n
    BY <1>2 DEF After, Delta
  <2>2. SharesAt(Live(p, k, s), side, i) = 0
    BY <1>2, SharesAtLive
  <2>3. QED
    BY <2>1, <2>2
<1>3. QED
  BY <1>1, <1>2

LEMMA AfterTake ==
  ASSUME NEW type \in {"execute", "cancel"}, NEW p, NEW k \in Nat, NEW s,
         NEW side, NEW i, NEW n \in Nat
  PROVE  After(Delta(type, s, p, k), side, i, n) = Reduced(n, SharesAt(Live(p, k, s), side, i))
<1>1. CASE s = side /\ to_index(p) = i
  <2>1. After(Delta(type, s, p, k), side, i, n) = Reduced(n, k)
    BY <1>1 DEF After, Delta
  <2>2. QED
    BY <1>1, <2>1, SharesAtLive
<1>2. CASE ~(s = side /\ to_index(p) = i)
  <2>1. After(Delta(type, s, p, k), side, i, n) = n
    BY <1>2 DEF After, Delta
  <2>2. SharesAt(Live(p, k, s), side, i) = 0
    BY <1>2, SharesAtLive
  <2>3. QED
    BY <2>1, <2>2 DEF Reduced
<1>3. QED
  BY <1>1, <1>2

LEMMA Taking ==
  ASSUME NEW n \in Nat, NEW sum \in Nat, NEW k \in Nat, k <= sum
  PROVE  /\ Reduced(n, k) \in Nat
         /\ n <= sum => Reduced(n, k) <= sum - k
         /\ n = sum => Reduced(n, k) = sum - k
  BY DEF Reduced

(***************************************************************************)
(* Changing one order changes what the orders add up to at a level by the  *)
(* difference.                                                             *)
(***************************************************************************)
Weights(os, side, i) == [r \in Ref |-> SharesAt(os[r], side, i)]

LEMMA WeightsType ==
  ASSUME NEW os \in [Ref -> Order], NEW side \in Side, NEW i \in Index
  PROVE  Weights(os, side, i) \in [Ref -> Nat]
  BY SharesAtType DEF Weights

LEMMA OneChange ==
  ASSUME NEW os \in [Ref -> Order], NEW ref \in Ref, NEW x \in Order,
         NEW side \in Side, NEW i \in Index
  PROVE  LET before == Total(Weights(os, side, i))
         IN  /\ before \in Nat /\ SharesAt(os[ref], side, i) <= before
             /\ Total(Weights([os EXCEPT ![ref] = x], side, i))
                  = before + SharesAt(x, side, i) - SharesAt(os[ref], side, i)
<1> DEFINE w == Weights(os, side, i)
           new == [os EXCEPT ![ref] = x]
           v == Weights(new, side, i)
<1>1. new \in [Ref -> Order] /\ new[ref] = x /\ \A q \in Ref \ {ref} : new[q] = os[q]
  OBVIOUS
<1>2. w \in [Ref -> Nat] /\ v \in [Ref -> Nat]
  BY <1>1, WeightsType
<1>3. /\ w[ref] = SharesAt(os[ref], side, i) /\ v[ref] = SharesAt(x, side, i)
      /\ \A q \in Ref \ {ref} : v[q] = w[q]
  BY <1>1 DEF Weights
<1> HIDE DEF w, v
<1>4. Total(v) = Total(w) + v[ref] - w[ref]
  BY <1>2, <1>3, TotalUpdate
<1>5. Total(w) \in Nat /\ w[ref] <= Total(w)
  BY <1>2, TotalType, TotalAtLeast
<1>6. QED
  BY <1>3, <1>4, <1>5 DEF w, v
-----------------------------------------------------------------------------
(* The inductive invariant                                                 *)

Held(side, i) == LevelAt(side = "B", i)
Agrees(side, i) ==
  /\ Settled(side, i) <= RestingShares(side, i)
  /\ LevelsFit /\ Unspoilt(side, i) => Settled(side, i) = RestingShares(side, i)

LEMMA AgreeEverywhere ==
  (\A side \in Side, i \in Index : Agrees(side, i)) <=>
    NoMoreThanOrders /\ (LevelsFit => JustTheOrders)
  BY Zenon DEF Agrees, NoMoreThanOrders, JustTheOrders

LEMMA RestingIsTotal ==
  \A side, i : RestingShares(side, i) = Total(Weights(orders, side, i))
  BY DEF RestingShares, SharesOf, Weights

LEMMA HeldType ==
  BookTypeOK => \A side \in Side, i \in Index : Held(side, i) \in Size
<1> SUFFICES ASSUME BookTypeOK, NEW side \in Side, NEW i \in Index PROVE Held(side, i) \in Size
  OBVIOUS
<1>1. bid[i] \in Size /\ ask[i] \in Size
  BY DEF BookTypeOK
<1>2. QED
  BY <1>1 DEF Held, LevelAt

(***************************************************************************)
(* Between messages nothing is in hand, so the book is what has settled.   *)
(***************************************************************************)
LEMMA AtRest ==
  ASSUME IInv, AtNextMessage, NEW side \in Side, NEW i \in Index
  PROVE  LET sum == Total(Weights(orders, side, i))
         IN  /\ Held(side, i) \in Nat /\ sum \in Nat
             /\ Held(side, i) <= sum
             /\ LevelsFit /\ Unspoilt(side, i) => Held(side, i) = sum
<1>1. ~delta.valid /\ ~pending.valid
  BY DEF AtNextMessage, IInv, PendingFollows
<1>2. Settled(side, i) = Held(side, i)
  BY <1>1 DEF Settled, After, Held
<1>3. Held(side, i) \in Nat
  BY HeldType, WindowAssumption DEF IInv, TypeOK, Size
<1>4. Agrees(side, i)
  BY AgreeEverywhere DEF IInv
<1>5. Total(Weights(orders, side, i)) \in Nat
  BY WeightsType, TotalType DEF IInv, TypeOK
<1>6. QED
  BY <1>2, <1>3, <1>4, <1>5, RestingIsTotal DEF Agrees

LEMMA BookAlone == BookIInv /\ UNCHANGED bookVars => BookIInv'
  BY BookStepIInv

LEMMA BumpType ==
  ASSUME TypeOK, NEW set PROVE Bump(set) \in [Stat -> 0 .. CounterMod - 1]
  BY WindowAssumption DEF TypeOK, Bump

(***************************************************************************)
(* A message changes orders and deltas and leaves the book alone: what is  *)
(* left to show for each type of message.                                  *)
(***************************************************************************)
LEMMA MessageKeeps ==
  ASSUME IInv, UNCHANGED bookVars, NEW set, stats' = Bump(set),
         orders' \in [Ref -> Order], delta' \in LevelDelta, pending' \in LevelDelta,
         silent' \subseteq Ref, tainted' \subseteq Index,
         PendingFollows', OrdersBounded',
         \A side \in Side, i \in Index :
           /\ Settled(side, i)' <= Total(Weights(orders', side, i))
           /\ LevelsFit /\ Unspoilt(side, i)' => Settled(side, i)' = Total(Weights(orders', side, i))
  PROVE  IInv'
<1>1. BookIInv'
  BY BookAlone DEF IInv, TypeOK, TopOfBook, BookIInv
<1>2. stats' \in [Stat -> 0 .. CounterMod - 1]
  BY BumpType DEF IInv
<1>3. TypeOK' /\ TopOfBook'
  BY <1>1, <1>2 DEF TypeOK, TopOfBook, BookIInv
<1>4. \A side, i : RestingShares(side, i)' = Total(Weights(orders', side, i))
  BY Zenon DEF RestingShares, SharesOf, Weights
<1>5. (\A side \in Side, i \in Index : Agrees(side, i))'
  BY <1>4 DEF Agrees, LevelsFit, LargestOrder
<1>6. (NoMoreThanOrders /\ (LevelsFit => JustTheOrders))'
  BY <1>5, AgreeEverywhere, PTL
<1>7. QED
  BY <1>3, <1>6 DEF IInv

LEMMA HeldAlone ==
  ASSUME UNCHANGED bookVars, NEW side, NEW i
  PROVE  Settled(side, i)' = After(pending', side, i, After(delta', side, i, Held(side, i)))
<1>1. bid' = bid /\ ask' = ask
  BY DEF bookVars
<1>2. QED
  BY <1>1, Zenon DEF Settled, Held, LevelAt, After

LEMMA StillSilentType ==
  ASSUME IInv, StillSilent PROVE silent' \subseteq Ref /\ tainted' \subseteq Index /\ tainted' = tainted
<1>1. silent' \subseteq Ref
  BY DEF IInv, TypeOK, StillSilent
<1>2. tainted' \subseteq Index /\ tainted' = tainted
  BY Zenon DEF IInv, TypeOK, StillSilent
<1>3. QED
  BY <1>1, <1>2

LEMMA MessageSizes ==
  ASSUME NEW shares \in Shares, NEW p \in ItchPrice
  PROVE  /\ to_engine_price(p) \in Price /\ shares \in Size /\ shares \in Nat
         /\ \A q \in Size : LargestOrder(q) => shares <= q
  BY ReplayAssumption, WindowAssumption DEF EnginePrice, LargestOrder, Size

LEMMA AddStep ==
  ASSUME IInv, NEW ref \in Ref, NEW s \in Side, NEW shares \in Shares, NEW p \in ItchPrice,
         AddOrder(ref, s, shares, p)
  PROVE  IInv'
<1> DEFINE price == to_engine_price(p)
           x == Live(price, shares, s)
<1>1. /\ AtNextMessage /\ ~orders[ref].live
      /\ orders' = [orders EXCEPT ![ref] = x]
      /\ delta' = Delta("add", s, price, shares)
      /\ stats' = Bump({"decoded"}) /\ StillSilent
      /\ pending' = pending /\ UNCHANGED bookVars
  BY DEF AddOrder, Unused
<1>2. price \in Price /\ shares \in Size /\ shares \in Nat /\ x \in Order
  BY MessageSizes, LiveIsOrder
<1>3. orders \in [Ref -> Order] /\ pending \in LevelDelta
  BY DEF IInv, TypeOK
<1>4. orders[ref] = NotLive
  BY <1>1, <1>3, OrderFields
<1>5. orders' \in [Ref -> Order] /\ delta' \in LevelDelta /\ pending' \in LevelDelta
  BY <1>1, <1>2, <1>3, DeltaType
<1>6. PendingFollows'
  BY <1>1 DEF IInv, PendingFollows, AtNextMessage
<1>7. OrdersBounded'
  <2>1. \A q \in Size : LargestOrder(q) => x.shares <= q
    BY MessageSizes DEF Live
  <2> HIDE DEF x
  <2>2. QED
    BY <1>1, <1>3, <2>1 DEF IInv, OrdersBounded, LargestOrder
<1>8. ASSUME NEW side \in Side, NEW i \in Index
      PROVE  /\ Settled(side, i)' <= Total(Weights(orders', side, i))
             /\ LevelsFit /\ Unspoilt(side, i)' => Settled(side, i)' = Total(Weights(orders', side, i))
  <2> DEFINE n == Held(side, i)
             sum == Total(Weights(orders, side, i))
             more == SharesAt(x, side, i)
  <2>1. n \in Nat /\ sum \in Nat /\ n <= sum /\ (LevelsFit /\ Unspoilt(side, i) => n = sum)
    BY <1>1, AtRest
  <2>2. Total(Weights(orders', side, i)) = sum + more
    <3>1. SharesAt(orders[ref], side, i) = 0
      BY <1>4, SharesAtNone
    <3>2. more \in Nat
      BY <1>2, SharesAtType
    <3>3. Total(Weights(orders', side, i)) = sum + more - SharesAt(orders[ref], side, i)
      BY <1>1, <1>2, <1>3, OneChange
    <3> HIDE DEF sum, more
    <3>4. QED
      BY <2>1, <3>1, <3>2, <3>3
  <2>3. Settled(side, i)' = n + more
    <3>1. After(delta', side, i, n) = n + more
      BY <1>1, <1>2, <2>1, AfterAdd
    <3>2. ~pending'.valid
      BY <1>1 DEF IInv, PendingFollows, AtNextMessage
    <3>3. After(pending', side, i, After(delta', side, i, n)) = After(delta', side, i, n)
      BY <3>2 DEF After
    <3>4. QED
      BY <1>1, <3>1, <3>3, HeldAlone
  <2>4. more \in Nat /\ Unspoilt(side, i)' = Unspoilt(side, i)
    BY <1>1, <1>2, SharesAtType, StillSilentType DEF Unspoilt
  <2> HIDE DEF n, sum, more, x
  <2>5. QED
    BY <2>1, <2>2, <2>3, <2>4
<1>9. silent' \subseteq Ref /\ tainted' \subseteq Index
  BY <1>1, StillSilentType
<1>10. QED
  BY <1>1, <1>5, <1>6, <1>7, <1>8, <1>9, MessageKeeps

(***************************************************************************)
(* reduce() and the removal: k shares leave an order and, with the delta,  *)
(* its level.                                                              *)
(***************************************************************************)
LEMMA LessAtLevel ==
  ASSUME NEW o \in Order, o.live, NEW k \in Nat, k <= o.shares, NEW x \in Order,
         \/ x = NotLive /\ k = o.shares
         \/ x = Live(o.price, o.shares - k, o.side),
         NEW side \in Side, NEW i \in Index
  PROVE  LET less == SharesAt(Live(o.price, k, o.side), side, i)
         IN  /\ less \in Nat /\ less <= SharesAt(o, side, i)
             /\ SharesAt(x, side, i) = SharesAt(o, side, i) - less
<1>1. o = Live(o.price, o.shares, o.side) /\ o.shares \in Nat
  BY LiveOrder, WindowAssumption DEF Size
<1>2. CASE o.side = side /\ to_index(o.price) = i
  <2>1. SharesAt(Live(o.price, k, o.side), side, i) = k /\ SharesAt(o, side, i) = o.shares
    BY <1>1, <1>2, SharesAtLive
  <2>2. SharesAt(x, side, i) = o.shares - k
    <3>1. CASE x = NotLive /\ k = o.shares
      BY <1>1, <3>1, SharesAtNone
    <3>2. CASE x = Live(o.price, o.shares - k, o.side)
      BY <1>2, <3>2, SharesAtLive
    <3>3. QED
      BY <3>1, <3>2
  <2>3. QED
    BY <1>1, <2>1, <2>2
<1>3. CASE ~(o.side = side /\ to_index(o.price) = i)
  <2>1. SharesAt(Live(o.price, k, o.side), side, i) = 0 /\ SharesAt(o, side, i) = 0
    BY <1>1, <1>3, SharesAtLive
  <2>2. SharesAt(x, side, i) = 0
    BY <1>3, SharesAtLive, SharesAtNone
  <2>3. QED
    BY <2>1, <2>2
<1>4. QED
  BY <1>2, <1>3

LEMMA TakeStep ==
  ASSUME IInv, AtNextMessage, NEW ref \in Ref, orders[ref].live,
         NEW k \in Nat, k <= orders[ref].shares, NEW type \in {"execute", "cancel"}, NEW x,
         \/ x = NotLive /\ k = orders[ref].shares
         \/ x = Live(orders[ref].price, orders[ref].shares - k, orders[ref].side),
         orders' = [orders EXCEPT ![ref] = x],
         delta' = Delta(type, orders[ref].side, orders[ref].price, k),
         stats' = Bump({"decoded"}), StillSilent,
         pending' = pending, UNCHANGED bookVars
  PROVE  IInv'
<1> DEFINE o == orders[ref]
<1>1. orders \in [Ref -> Order] /\ pending \in LevelDelta /\ o \in Order
  BY DEF IInv, TypeOK
<1>2. o = Live(o.price, o.shares, o.side) /\ o.price \in Price /\ o.shares \in Size /\ o.side \in Side
  BY <1>1, LiveOrder
<1>3. k \in Size /\ o.shares - k \in Size
  BY <1>2, WindowAssumption DEF Size
<1>4. x \in Order /\ x.shares <= o.shares /\ x.shares \in Nat
  <2>1. CASE x = NotLive
    BY <1>2, <2>1, NotLiveIsOrder, WindowAssumption DEF NotLive, Size
  <2>2. CASE x = Live(o.price, o.shares - k, o.side)
    <3>1. x \in Order
      BY <1>2, <1>3, <2>2, LiveIsOrder
    <3>2. x.shares = o.shares - k
      BY <2>2 DEF Live
    <3>3. QED
      BY <1>2, <1>3, <3>1, <3>2, WindowAssumption DEF Size
  <2>3. QED
    BY <2>1, <2>2
<1>5. orders' \in [Ref -> Order] /\ delta' \in LevelDelta /\ pending' \in LevelDelta
  BY <1>1, <1>2, <1>3, <1>4, DeltaType
<1>6. PendingFollows'
  BY DEF IInv, PendingFollows, AtNextMessage
<1>7. OrdersBounded'
  <2>1. ASSUME NEW q \in Size, LargestOrder(q) PROVE x.shares <= q
    <3>1. o.shares <= q
      BY <2>1 DEF IInv, OrdersBounded
    <3>2. QED
      BY <1>2, <1>4, <3>1, WindowAssumption DEF Size
  <2>2. QED
    BY <1>1, <2>1 DEF IInv, OrdersBounded, LargestOrder
<1>8. ASSUME NEW side \in Side, NEW i \in Index
      PROVE  /\ Settled(side, i)' <= Total(Weights(orders', side, i))
             /\ LevelsFit /\ Unspoilt(side, i)' => Settled(side, i)' = Total(Weights(orders', side, i))
  <2> DEFINE n == Held(side, i)
             sum == Total(Weights(orders, side, i))
             less == SharesAt(Live(o.price, k, o.side), side, i)
  <2>1. n \in Nat /\ sum \in Nat /\ n <= sum /\ (LevelsFit /\ Unspoilt(side, i) => n = sum)
    BY AtRest
  <2>2. /\ less \in Nat /\ less <= SharesAt(o, side, i)
        /\ SharesAt(x, side, i) = SharesAt(o, side, i) - less
    BY <1>1, <1>4, LessAtLevel
  <2>3. /\ SharesAt(o, side, i) <= sum
        /\ Total(Weights(orders', side, i)) = sum + SharesAt(x, side, i) - SharesAt(o, side, i)
    BY <1>1, <1>4, OneChange
  <2>4. SharesAt(o, side, i) \in Nat
    BY <1>1, SharesAtType
  <2>5. Settled(side, i)' = Reduced(n, less)
    <3>1. After(delta', side, i, n) = Reduced(n, less)
      BY <2>1, AfterTake
    <3>2. ~pending'.valid
      BY DEF IInv, PendingFollows, AtNextMessage
    <3>3. After(pending', side, i, After(delta', side, i, n)) = After(delta', side, i, n)
      BY <3>2 DEF After
    <3>4. QED
      BY <3>1, <3>3, HeldAlone
  <2>6. Unspoilt(side, i)' = Unspoilt(side, i)
    BY StillSilentType DEF Unspoilt
  <2> HIDE DEF n, sum, less
  <2>7. less <= sum /\ Total(Weights(orders', side, i)) = sum - less
    BY <2>1, <2>2, <2>3, <2>4
  <2>8. QED
    BY <2>1, <2>2, <2>5, <2>6, <2>7, Taking
<1>9. silent' \subseteq Ref /\ tainted' \subseteq Index
  BY StillSilentType
<1>10. QED
  BY <1>5, <1>6, <1>7, <1>8, <1>9, MessageKeeps

LEMMA ReduceStep ==
  ASSUME IInv, NEW ref \in Ref, NEW shares \in Shares, NEW type \in {"execute", "cancel"},
         ReduceOrder(ref, shares, type)
  PROVE  IInv'
<1> DEFINE o == orders[ref]
           k == Taken(ref, shares)
           x == IF o.shares - k = 0 THEN NotLive ELSE Live(o.price, o.shares - k, o.side)
<1>1. o \in Order /\ o.shares \in Nat /\ shares \in Nat
  BY OrderFields, ReplayAssumption, WindowAssumption DEF IInv, TypeOK, Size
<1>2. k \in Nat /\ k <= o.shares
  BY <1>1 DEF Taken
<1>3. \/ x = NotLive /\ k = o.shares
      \/ x = Live(o.price, o.shares - k, o.side)
  BY <1>1, <1>2
<1>4. /\ AtNextMessage /\ o.live /\ orders' = [orders EXCEPT ![ref] = x]
      /\ delta' = Delta(type, o.side, o.price, k)
      /\ stats' = Bump({"decoded"}) /\ StillSilent
      /\ pending' = pending /\ UNCHANGED bookVars
  BY Zenon DEF ReduceOrder
<1> HIDE DEF k, x
<1>5. QED
  BY <1>2, <1>3, <1>4, TakeStep

LEMMA DeleteStep ==
  ASSUME IInv, NEW ref \in Ref, DeleteOrder(ref)
  PROVE  IInv'
<1> DEFINE o == orders[ref]
<1>1. o \in Order /\ o.shares \in Nat
  BY OrderFields, WindowAssumption DEF IInv, TypeOK, Size
<1>2. /\ AtNextMessage /\ o.live /\ orders' = [orders EXCEPT ![ref] = NotLive]
      /\ delta' = Delta("cancel", o.side, o.price, o.shares)
      /\ stats' = Bump({"decoded"}) /\ StillSilent
      /\ pending' = pending /\ UNCHANGED bookVars
  BY DEF DeleteOrder, Removal
<1> DEFINE k == o.shares
           x == NotLive
           type == "cancel"
<1>3. k \in Nat /\ k <= o.shares /\ type \in {"execute", "cancel"} /\ x = NotLive
  BY <1>1
<1>4. orders' = [orders EXCEPT ![ref] = x] /\ delta' = Delta(type, o.side, o.price, k)
  BY <1>2
<1>5. k = o.shares
  OBVIOUS
<1> HIDE DEF k, x, type
<1>6. QED
  BY <1>2, <1>3, <1>4, <1>5, TakeStep

(***************************************************************************)
(* A Replace: the removal is in hand, the add pending, and the two orders  *)
(* are different ones, so both changes count in full.                      *)
(***************************************************************************)
LEMMA ReplaceStep ==
  ASSUME IInv, NEW orig \in Ref, NEW fresh \in Ref, NEW shares \in Shares, NEW p \in ItchPrice,
         ReplaceOrder(orig, fresh, shares, p)
  PROVE  IInv'
<1> DEFINE o == orders[orig]
           price == to_engine_price(p)
           x == Live(price, shares, o.side)
           mid == [orders EXCEPT ![orig] = NotLive]
<1>1. /\ AtNextMessage /\ o.live /\ ~orders[fresh].live
      /\ orders' = [orders EXCEPT ![orig] = NotLive, ![fresh] = x]
      /\ delta' = Delta("cancel", o.side, o.price, o.shares)
      /\ pending' = Delta("add", o.side, price, shares)
      /\ stats' = Bump({"decoded"}) /\ StillSilent
      /\ UNCHANGED bookVars
  BY DEF ReplaceOrder, Unused, Removal
<1>2. orders \in [Ref -> Order] /\ o \in Order
  BY DEF IInv, TypeOK
<1>3. /\ o = Live(o.price, o.shares, o.side)
      /\ o.price \in Price /\ o.shares \in Size /\ o.shares \in Nat /\ o.side \in Side
  BY <1>1, <1>2, LiveOrder, WindowAssumption DEF Size
<1>4. price \in Price /\ shares \in Size /\ shares \in Nat /\ x \in Order
  BY <1>3, MessageSizes, LiveIsOrder
<1>5. orders[fresh] = NotLive /\ fresh # orig
  BY <1>1, <1>2, OrderFields
<1>6. /\ mid \in [Ref -> Order] /\ mid[fresh] = NotLive
      /\ orders' = [mid EXCEPT ![fresh] = x]
  <2>1. mid \in [Ref -> Order] /\ mid[fresh] = NotLive
    BY <1>2, <1>5, NotLiveIsOrder
  <2>2. orders' = [mid EXCEPT ![fresh] = x]
    BY <1>1, <1>2
  <2>3. QED
    BY <2>1, <2>2
<1>7. orders' \in [Ref -> Order] /\ delta' \in LevelDelta /\ pending' \in LevelDelta
  <2>1. orders' \in [Ref -> Order]
    BY <1>4, <1>6
  <2>2. QED
    BY <1>1, <1>3, <1>4, <2>1, DeltaType
<1>8. PendingFollows'
  BY <1>1 DEF PendingFollows, Delta
<1>9. OrdersBounded'
  <2>1. \A q \in Size : LargestOrder(q) => x.shares <= q
    BY MessageSizes DEF Live
  <2>2. \A q \in Size : LargestOrder(q) => NotLive.shares <= q
    BY WindowAssumption DEF NotLive, Size
  <2> HIDE DEF x
  <2>3. ASSUME NEW r \in Ref, NEW q \in Size, LargestOrder(q) PROVE orders'[r].shares <= q
    <3>1. orders[r].shares <= q
      BY <2>3 DEF IInv, OrdersBounded
    <3>2. orders'[r] = x \/ orders'[r] = NotLive \/ orders'[r] = orders[r]
      BY <1>1, <1>2
    <3>3. QED
      BY <2>1, <2>2, <2>3, <3>1, <3>2
  <2>4. QED
    BY <2>3 DEF OrdersBounded, LargestOrder
<1>10. ASSUME NEW side \in Side, NEW i \in Index
       PROVE  /\ Settled(side, i)' <= Total(Weights(orders', side, i))
              /\ LevelsFit /\ Unspoilt(side, i)' => Settled(side, i)' = Total(Weights(orders', side, i))
  <2> DEFINE n == Held(side, i)
             sum == Total(Weights(orders, side, i))
             between == Total(Weights(mid, side, i))
             less == SharesAt(o, side, i)
             more == SharesAt(x, side, i)
  <2>1. n \in Nat /\ sum \in Nat /\ n <= sum /\ (LevelsFit /\ Unspoilt(side, i) => n = sum)
    BY <1>1, AtRest
  <2>2. less \in Nat /\ more \in Nat
    BY <1>2, <1>4, SharesAtType
  <2>3. less <= sum /\ between = sum - less
    <3>1. less <= sum /\ between = sum + SharesAt(NotLive, side, i) - less
      BY <1>2, NotLiveIsOrder, OneChange
    <3>2. SharesAt(NotLive, side, i) = 0
      BY SharesAtNone
    <3> HIDE DEF sum, between, less
    <3>3. QED
      BY <2>1, <2>2, <3>1, <3>2
  <2>4. Total(Weights(orders', side, i)) = between + more
    <3>1. between \in Nat
          /\ Total(Weights(orders', side, i)) = between + more - SharesAt(mid[fresh], side, i)
      <4> HIDE DEF mid
      <4> QED BY <1>4, <1>6, OneChange
    <3>2. SharesAt(mid[fresh], side, i) = 0
      BY <1>6, SharesAtNone
    <3> HIDE DEF between, more
    <3>3. QED
      BY <2>2, <3>1, <3>2
  <2>5. Settled(side, i)' = Reduced(n, less) + more
    <3> DEFINE type == "cancel"
    <3>1. less = SharesAt(Live(o.price, o.shares, o.side), side, i)
      BY <1>3
    <3>2. type \in {"execute", "cancel"} /\ delta' = Delta(type, o.side, o.price, o.shares)
      BY <1>1
    <3> HIDE DEF type
    <3>3. After(delta', side, i, n) = Reduced(n, less)
      BY <1>3, <2>1, <3>1, <3>2, AfterTake
    <3>4. Reduced(n, less) \in Nat
      BY <2>1, <2>2, <2>3, Taking
    <3>5. After(pending', side, i, Reduced(n, less)) = Reduced(n, less) + more
      BY <1>1, <1>4, <3>4, AfterAdd
    <3>6. QED
      BY <1>1, <3>3, <3>5, HeldAlone
  <2>6. Unspoilt(side, i)' = Unspoilt(side, i)
    BY <1>1, StillSilentType DEF Unspoilt
  <2> HIDE DEF n, sum, less, more, between
  <2>7. /\ Reduced(n, less) \in Nat /\ Reduced(n, less) <= between
        /\ LevelsFit /\ Unspoilt(side, i) => Reduced(n, less) = between
    BY <2>1, <2>2, <2>3, Taking
  <2>8. between \in Nat
    BY <2>1, <2>2, <2>3
  <2>9. QED
    BY <2>2, <2>4, <2>5, <2>6, <2>7, <2>8
<1>11. silent' \subseteq Ref /\ tainted' \subseteq Index
  BY <1>1, StillSilentType
<1>12. QED
  BY <1>1, <1>7, <1>8, <1>9, <1>10, <1>11, MessageKeeps

(***************************************************************************)
(* A Replace of an unknown order adds a live order that the book does not  *)
(* show: the book can only fall behind.                                    *)
(***************************************************************************)
LEMMA ReplaceUnknownStep ==
  ASSUME IInv, NEW orig \in Ref, NEW fresh \in Ref, NEW shares \in Shares, NEW p \in ItchPrice,
         ReplaceUnknown(orig, fresh, shares, p)
  PROVE  IInv'
<1> DEFINE price == to_engine_price(p)
           s == "B"
           x == Live(price, shares, s)
<1>1. /\ AtNextMessage /\ ~orders[fresh].live
      /\ orders' = [orders EXCEPT ![fresh] = x]
      /\ stats' = Bump({"decoded", "unknown_order"})
      /\ silent' = silent \cup {fresh}
      /\ tainted' = tainted \cup ({to_index(price)} \cap Index)
      /\ delta' = delta /\ pending' = pending /\ UNCHANGED bookVars
  BY Zenon DEF ReplaceUnknown, Unused
<1>2. orders \in [Ref -> Order] /\ delta \in LevelDelta /\ pending \in LevelDelta /\ silent \subseteq Ref
  BY DEF IInv, TypeOK
<1>3. s \in Side
  BY DEF Side
<1>4. price \in Price /\ shares \in Size /\ shares \in Nat /\ x \in Order
  BY <1>3, MessageSizes, LiveIsOrder
<1>5. orders[fresh] = NotLive
  BY <1>1, <1>2, OrderFields
<1>6. orders' \in [Ref -> Order] /\ silent' \subseteq Ref /\ tainted' \subseteq Index
  BY <1>1, <1>2, <1>4 DEF IInv, TypeOK
<1>7. PendingFollows'
  BY <1>1 DEF IInv, PendingFollows
<1>8. OrdersBounded'
  <2>1. \A q \in Size : LargestOrder(q) => x.shares <= q
    BY MessageSizes DEF Live
  <2> HIDE DEF x
  <2>2. QED
    BY <1>1, <1>2, <2>1 DEF IInv, OrdersBounded, LargestOrder
<1>9. ASSUME NEW side \in Side, NEW i \in Index
      PROVE  /\ Settled(side, i)' <= Total(Weights(orders', side, i))
             /\ LevelsFit /\ Unspoilt(side, i)' => Settled(side, i)' = Total(Weights(orders', side, i))
  <2> DEFINE n == Held(side, i)
             sum == Total(Weights(orders, side, i))
             more == SharesAt(x, side, i)
  <2>1. n \in Nat /\ sum \in Nat /\ n <= sum /\ (LevelsFit /\ Unspoilt(side, i) => n = sum)
    BY <1>1, AtRest
  <2>2. more \in Nat
    BY <1>4, SharesAtType
  <2>3. SharesAt(orders[fresh], side, i) = 0
    BY <1>5, SharesAtNone
  <2>4. Total(Weights(orders', side, i)) = sum + more - SharesAt(orders[fresh], side, i)
    BY <1>1, <1>2, <1>4, OneChange
  <2>5. Settled(side, i)' = n
    <3>1. ~delta'.valid /\ ~pending'.valid
      BY <1>1 DEF IInv, PendingFollows, AtNextMessage
    <3>2. After(pending', side, i, After(delta', side, i, n)) = n
      BY <3>1 DEF After
    <3>3. QED
      BY <1>1, <3>2, HeldAlone
  <2>6. Unspoilt(side, i)' => Unspoilt(side, i) /\ more = 0
    <3>1. ASSUME side # "B" PROVE more = 0
      BY <3>1, SharesAtLive
    <3>2. ASSUME i \notin tainted' PROVE i \notin tainted /\ more = 0
      BY <1>1, <3>2, SharesAtLive
    <3>3. QED
      BY <3>1, <3>2 DEF Unspoilt
  <2> HIDE DEF n, sum, more
  <2>7. QED
    BY <2>1, <2>2, <2>3, <2>4, <2>5, <2>6
<1>10. QED
  BY <1>1, <1>2, <1>6, <1>7, <1>8, <1>9, MessageKeeps

LEMMA QuietStep ==
  ASSUME IInv, NEW set, stats' = Bump(set),
         UNCHANGED << orders, delta, pending, silent, tainted, bookVars >>
  PROVE  IInv'
<1>1. orders \in [Ref -> Order] /\ delta \in LevelDelta /\ pending \in LevelDelta /\ silent \subseteq Ref
  BY DEF IInv, TypeOK
<1>2. /\ orders' = orders /\ delta' = delta /\ pending' = pending
      /\ silent' = silent /\ UNCHANGED bookVars
  OBVIOUS
<1>3. tainted' = tainted /\ tainted \subseteq Index
  BY Zenon DEF IInv, TypeOK
<1>4. PendingFollows' /\ OrdersBounded'
  BY <1>2 DEF IInv, PendingFollows, OrdersBounded, LargestOrder
<1>5. ASSUME NEW side \in Side, NEW i \in Index
      PROVE  /\ Settled(side, i)' <= Total(Weights(orders', side, i))
             /\ LevelsFit /\ Unspoilt(side, i)' => Settled(side, i)' = Total(Weights(orders', side, i))
  <2>1. Agrees(side, i)
    BY AgreeEverywhere DEF IInv
  <2>2. Settled(side, i)' = Settled(side, i)
    BY <1>2, HeldAlone DEF Settled, Held
  <2>3. QED
    BY <1>2, <1>3, <2>1, <2>2, RestingIsTotal DEF Agrees, Unspoilt
<1>6. QED
  BY <1>1, <1>2, <1>3, <1>4, <1>5, MessageKeeps

(***************************************************************************)
(* What book.apply() does to a level: at most what the delta says, and     *)
(* exactly that as long as the level does not saturate.                    *)
(***************************************************************************)
LEMMA LevelWritten ==
  ASSUME BookTypeOK, NEW s \in Side, NEW idx \in Index, NEW size,
         s = "B" => bid' = [bid EXCEPT ![idx] = size] /\ ask' = ask,
         s # "B" => ask' = [ask EXCEPT ![idx] = size] /\ bid' = bid,
         NEW side \in Side, NEW i \in Index
  PROVE  /\ s = side /\ idx = i => Held(side, i)' = size
         /\ ~(s = side /\ idx = i) => Held(side, i)' = Held(side, i)
<1>1. bid \in [Index -> Size] /\ ask \in [Index -> Size]
  BY DEF BookTypeOK
<1>2. CASE s = "B"
  <2>1. bid' = [bid EXCEPT ![idx] = size] /\ ask' = ask
    BY <1>2
  <2>2. CASE side = "B"
    BY <1>1, <1>2, <2>1, <2>2 DEF Held, LevelAt
  <2>3. CASE side # "B"
    BY <1>2, <2>1, <2>3 DEF Held, LevelAt
  <2>4. QED
    BY <2>2, <2>3
<1>3. CASE s # "B"
  <2>1. ask' = [ask EXCEPT ![idx] = size] /\ bid' = bid
    BY <1>3
  <2>2. CASE side # "B"
    <3>1. s = side
      BY <1>3, <2>2 DEF Side
    <3>2. QED
      BY <1>1, <2>1, <2>2, <3>1 DEF Held, LevelAt
  <2>3. CASE side = "B"
    BY <1>3, <2>1, <2>3 DEF Held, LevelAt
  <2>4. QED
    BY <2>2, <2>3
<1>4. QED
  BY <1>2, <1>3

LEMMA HeldUnchanged ==
  ASSUME bid' = bid, ask' = ask, NEW side, NEW i PROVE Held(side, i)' = Held(side, i)
  BY DEF Held, LevelAt

LEMMA ApplyEffect ==
  ASSUME BookTypeOK, NEW d \in LevelDelta, d.valid, apply(d), NEW side \in Side, NEW i \in Index
  PROVE  /\ After(d, side, i, Held(side, i)) \in Nat
         /\ Held(side, i)' \in Nat
         /\ Held(side, i)' <= After(d, side, i, Held(side, i))
         /\ After(d, side, i, Held(side, i)) <= MaxLevelSize =>
              Held(side, i)' = After(d, side, i, Held(side, i))
<1> DEFINE n == Held(side, i)
           here == d.side = side /\ to_index(d.price) = i
<1>1. PICK type \in {"add", "execute", "cancel"}, s \in Side, p \in Price, k \in Size :
        d = Delta(type, s, p, k)
  BY ValidDelta
<1>2. /\ d.type \in {"add", "execute", "cancel"} /\ d.side \in Side /\ d.price \in Price
      /\ d.size \in Size
  BY <1>1 DEF Delta
<1>3. n \in Size /\ n \in Nat /\ d.size \in Nat /\ MaxLevelSize \in Nat
  BY <1>2, HeldType, WindowAssumption DEF Size
<1>4. ~here => After(d, side, i, n) = n
  BY DEF After
<1>5. here => After(d, side, i, n) = IF d.type = "add" THEN n + d.size ELSE Reduced(n, d.size)
  BY DEF After
<1>6. CASE OutOfRange(d)
  <2>1. ~here /\ bid' = bid /\ ask' = ask
    BY <1>6 DEF OutOfRange
  <2>2. Held(side, i)' = n
    BY <2>1, HeldUnchanged
  <2> HIDE DEF n, here
  <2>3. QED
    BY <1>3, <1>4, <2>1, <2>2 DEF n
<1>7. CASE Ignored(d)
  <2>1. d.type = "add" /\ d.size = 0 /\ bid' = bid /\ ask' = ask
    BY <1>2, <1>7 DEF Ignored, bookVars
  <2>2. Held(side, i)' = n
    BY <2>1, HeldUnchanged
  <2>3. After(d, side, i, n) = n
    <3> HIDE DEF n, here
    <3> QED BY <1>3, <1>4, <1>5, <2>1
  <2> HIDE DEF n, here
  <2>4. QED
    BY <1>3, <2>2, <2>3 DEF n
<1>8. CASE Add(d)
  <2> DEFINE idx == to_index(d.price)
             size == Accumulate(LevelAt(d.side = "B", idx), d.size)
  <2>1. d.type = "add" /\ idx \in Index /\ SetLevel(d.side = "B", idx, size)
    BY <1>8, Zenon DEF Add
  <2>2. /\ d.side = side /\ idx = i => Held(side, i)' = size
        /\ ~(d.side = side /\ idx = i) => Held(side, i)' = n
    <3> HIDE DEF idx, size
    <3>1. PICK z, j, c : z = size /\ j = idx /\ c = d.side
      OBVIOUS
    <3>2. /\ c = "B" => bid' = [bid EXCEPT ![j] = z] /\ ask' = ask
          /\ c # "B" => ask' = [ask EXCEPT ![j] = z] /\ bid' = bid
      BY <2>1, <3>1 DEF SetLevel
    <3>3. j \in Index /\ c \in Side
      BY <1>2, <2>1, <3>1
    <3>4. /\ c = side /\ j = i => Held(side, i)' = z
          /\ ~(c = side /\ j = i) => Held(side, i)' = n
      BY <3>2, <3>3, LevelWritten
    <3>5. QED
      BY <3>1, <3>4
  <2>3. CASE here
    <3>1. size = Accumulate(n, d.size)
      BY <2>3 DEF Held
    <3>2. Held(side, i)' = Accumulate(n, d.size) /\ After(d, side, i, n) = n + d.size
      BY <1>5, <2>1, <2>2, <2>3, <3>1
    <3> HIDE DEF n, here, size, idx
    <3>3. QED
      BY <1>3, <3>2 DEF n, Accumulate, Size
  <2>4. CASE ~here
    <3>1. Held(side, i)' = n
      BY <2>2, <2>4
    <3> HIDE DEF n, here, size, idx
    <3>2. QED
      BY <1>3, <1>4, <2>4, <3>1 DEF n
  <2>5. QED
    BY <2>3, <2>4
<1>9. CASE Reduce(d)
  <2> DEFINE idx == to_index(d.price)
             size == Reduced(LevelAt(d.side = "B", idx), d.size)
  <2>1. d.type # "add" /\ idx \in Index /\ SetLevel(d.side = "B", idx, size)
    <3>1. d.type \in {"execute", "cancel"} /\ idx \in Index /\ SetLevel(d.side = "B", idx, size)
      BY <1>9, Zenon DEF Reduce
    <3>2. QED
      BY <3>1
  <2>2. /\ d.side = side /\ idx = i => Held(side, i)' = size
        /\ ~(d.side = side /\ idx = i) => Held(side, i)' = n
    <3> HIDE DEF idx, size
    <3>1. PICK z, j, c : z = size /\ j = idx /\ c = d.side
      OBVIOUS
    <3>2. /\ c = "B" => bid' = [bid EXCEPT ![j] = z] /\ ask' = ask
          /\ c # "B" => ask' = [ask EXCEPT ![j] = z] /\ bid' = bid
      BY <2>1, <3>1 DEF SetLevel
    <3>3. j \in Index /\ c \in Side
      BY <1>2, <2>1, <3>1
    <3>4. /\ c = side /\ j = i => Held(side, i)' = z
          /\ ~(c = side /\ j = i) => Held(side, i)' = n
      BY <3>2, <3>3, LevelWritten
    <3>5. QED
      BY <3>1, <3>4
  <2>3. CASE here
    <3>1. size = Reduced(n, d.size)
      BY <2>3 DEF Held
    <3>2. Held(side, i)' = Reduced(n, d.size) /\ After(d, side, i, n) = Reduced(n, d.size)
      BY <1>5, <2>1, <2>2, <2>3, <3>1
    <3>3. Reduced(n, d.size) \in Nat
      BY <1>3 DEF Reduced
    <3> HIDE DEF n, here, size, idx
    <3>4. QED
      BY <3>2, <3>3 DEF n
  <2>4. CASE ~here
    <3>1. Held(side, i)' = n
      BY <2>2, <2>4
    <3> HIDE DEF n, here, size, idx
    <3>2. QED
      BY <1>3, <1>4, <2>4, <3>1 DEF n
  <2>5. QED
    BY <2>3, <2>4
<1>10. ~Delete(d)
  BY <1>2 DEF Delete
<1>11. QED
  BY <1>6, <1>7, <1>8, <1>9, <1>10 DEF apply

LEMMA PendingAdds ==
  ASSUME IInv, NEW side \in Side, NEW i \in Index
  PROVE  \E more \in Nat : \A n \in Nat : After(pending, side, i, n) = n + more
<1>1. CASE ~pending.valid
  <2>1. \A n \in Nat : After(pending, side, i, n) = n + 0
    BY <1>1 DEF After
  <2>2. QED
    BY <2>1
<1>2. CASE pending.valid
  <2>1. PICK type \in {"add", "execute", "cancel"}, s \in Side, p \in Price, k \in Size :
          pending = Delta(type, s, p, k)
    BY <1>2, ValidDelta DEF IInv, TypeOK
  <2>2. type = "add"
    BY <1>2, <2>1 DEF IInv, PendingFollows, Delta
  <2>3. k \in Nat
    BY WindowAssumption DEF Size
  <2>4. SharesAt(Live(p, k, s), side, i) \in Nat
    BY <2>3, SharesAtLive
  <2>5. \A n \in Nat : After(pending, side, i, n) = n + SharesAt(Live(p, k, s), side, i)
    BY <2>1, <2>2, <2>3, AfterAdd
  <2>6. QED
    BY <2>4, <2>5
<1>3. QED
  BY <1>1, <1>2

LEMMA OrdersFit ==
  ASSUME IInv, LevelsFit, NEW side \in Side, NEW i \in Index
  PROVE  Total(Weights(orders, side, i)) <= MaxLevelSize
<1>1. PICK q \in Size : LargestOrder(q) /\ NumRefs * q <= MaxLevelSize
  BY DEF LevelsFit
<1>2. q \in Nat /\ MaxLevelSize \in Nat /\ NumRefs * q \in Nat
  BY WindowAssumption, ReplayAssumption DEF Size
<1>3. orders \in [Ref -> Order]
  BY DEF IInv, TypeOK
<1> DEFINE w == Weights(orders, side, i)
<1>4. w \in [Ref -> Nat]
  BY <1>3, WeightsType
<1>5. ASSUME NEW r \in Ref PROVE w[r] <= q
  <2>1. orders[r].shares <= q
    BY <1>1 DEF IInv, OrdersBounded
  <2>2. orders[r].shares \in Nat
    BY <1>3, OrderFields, WindowAssumption DEF Size
  <2>3. w[r] = SharesAt(orders[r], side, i)
    BY DEF Weights
  <2>4. SharesAt(orders[r], side, i) \in Nat /\ SharesAt(orders[r], side, i) <= orders[r].shares
    BY <1>3, SharesAtType
  <2>5. QED
    BY <1>2, <2>1, <2>2, <2>3, <2>4
<1> HIDE DEF w
<1>6. Total(w) <= NumRefs * q /\ Total(w) \in Nat
  BY <1>2, <1>4, <1>5, TotalBounded, TotalType
<1>7. QED
  BY <1>1, <1>2, <1>6 DEF w

LEMMA ApplyStep ==
  ASSUME IInv, ApplyDelta PROVE IInv'
<1>1. /\ delta.valid /\ apply(delta) /\ delta' = pending /\ pending' = NoDelta
      /\ orders' = orders /\ stats' = stats /\ silent' = silent
  BY DEF ApplyDelta
<1>2. tainted' = tainted /\ tainted \subseteq Index
  BY Zenon DEF ApplyDelta, IInv, TypeOK
<1>3. /\ orders \in [Ref -> Order] /\ delta \in LevelDelta /\ pending \in LevelDelta
      /\ silent \subseteq Ref /\ stats \in [Stat -> 0 .. CounterMod - 1] /\ BookIInv /\ BookTypeOK
  BY DEF IInv, TypeOK, TopOfBook, BookIInv
<1>4. BookIInv'
  <2>1. PICK type \in {"add", "execute", "cancel"}, s \in Side, p \in Price, k \in Size :
          delta = Delta(type, s, p, k)
    BY <1>1, <1>3, ValidDelta
  <2>2. delta.size \in Size
    BY <2>1 DEF Delta
  <2>3. QED
    BY <1>1, <1>3, <2>2, ApplyIInv
<1>5. TypeOK' /\ TopOfBook'
  BY <1>1, <1>2, <1>3, <1>4, DeltaType DEF TypeOK, TopOfBook, BookIInv
<1>6. PendingFollows' /\ OrdersBounded'
  BY <1>1 DEF IInv, PendingFollows, NoDelta, OrdersBounded, LargestOrder
<1>7. ASSUME NEW side \in Side, NEW i \in Index PROVE Agrees(side, i)'
  <2> DEFINE n == Held(side, i)
             next == Held(side, i)'
             settled == After(delta, side, i, n)
             sum == Total(Weights(orders, side, i))
  <2>1. /\ settled \in Nat /\ next \in Nat /\ next <= settled
        /\ settled <= MaxLevelSize => next = settled
    BY <1>1, <1>3, ApplyEffect
  <2>2. PICK more \in Nat : \A m \in Nat : After(pending, side, i, m) = m + more
    BY PendingAdds
  <2>3. Settled(side, i) = settled + more
    BY <2>1, <2>2 DEF Settled, Held
  <2>4. Settled(side, i)' = next + more
    <3>1. Settled(side, i)' = After(NoDelta, side, i, After(pending, side, i, next))
      BY <1>1, Zenon DEF Settled, Held, LevelAt, After
    <3>2. QED
      BY <2>1, <2>2, <3>1, AfterNothing
  <2>5. sum \in Nat /\ (LevelsFit => sum <= MaxLevelSize)
    BY <1>3, WeightsType, TotalType, OrdersFit
  <2>6. settled + more <= sum /\ (LevelsFit /\ Unspoilt(side, i) => settled + more = sum)
    <3>1. Agrees(side, i)
      BY AgreeEverywhere DEF IInv
    <3>2. QED
      BY <2>3, <3>1, RestingIsTotal DEF Agrees
  <2>7. RestingShares(side, i)' = sum
    BY <1>1, Zenon DEF RestingShares, SharesOf, Weights
  <2> HIDE DEF n, next, settled, sum
  <2>8. MaxLevelSize \in Nat
    BY WindowAssumption
  <2>9. next + more <= sum
    BY <2>1, <2>2, <2>5, <2>6
  <2>10. ASSUME LevelsFit, Unspoilt(side, i) PROVE next + more = sum
    BY <2>1, <2>2, <2>5, <2>6, <2>8, <2>10
  <2>11. QED
    BY <1>2, <2>4, <2>7, <2>9, <2>10 DEF Agrees, LevelsFit, LargestOrder, Unspoilt
<1>8. (\A side \in Side, i \in Index : Agrees(side, i))'
  BY <1>7
<1>9. (NoMoreThanOrders /\ (LevelsFit => JustTheOrders))'
  BY <1>8, AgreeEverywhere, PTL
<1>10. QED
  BY <1>5, <1>6, <1>9 DEF IInv
-----------------------------------------------------------------------------
LEMMA InitIInv == Init => IInv
<1> SUFFICES ASSUME Init PROVE IInv
  OBVIOUS
<1> USE WindowAssumption, ReplayAssumption
<1>1. /\ orders = [r \in Ref |-> NotLive] /\ delta = NoDelta /\ pending = NoDelta
      /\ stats = [st \in Stat |-> 0] /\ silent = {} /\ BookInit
  BY DEF Init
<1>2. tainted \subseteq Index
  BY Zenon DEF Init
<1>3. BookIInv
  BY <1>1, BookInitIInv
<1>4. TypeOK /\ TopOfBook
  BY <1>1, <1>2, <1>3, NotLiveIsOrder, DeltaType DEF TypeOK, TopOfBook, BookIInv
<1>5. PendingFollows
  BY <1>1 DEF PendingFollows, NoDelta
<1>6. OrdersBounded
  BY <1>1 DEF OrdersBounded, NotLive, Size
<1>7. ASSUME NEW side \in Side, NEW i \in Index PROVE Agrees(side, i)
  <2>1. Held(side, i) = 0
    BY <1>1 DEF BookInit, Held, LevelAt
  <2>2. Settled(side, i) = 0
    BY <1>1, <2>1, AfterNothing DEF Settled, Held
  <2> DEFINE w == Weights(orders, side, i)
  <2>3. w \in [Ref -> Nat] /\ \A r \in Ref : w[r] <= 0
    BY <1>1, SharesAtNone DEF Weights
  <2> HIDE DEF w
  <2>4. Total(w) <= NumRefs * 0 /\ Total(w) \in Nat
    BY <2>3, TotalBounded, TotalType
  <2>5. RestingShares(side, i) = 0
    BY <2>4, RestingIsTotal DEF w
  <2>6. QED
    BY <2>2, <2>5 DEF Agrees
<1>8. QED
  BY <1>4, <1>5, <1>6, <1>7, AgreeEverywhere DEF IInv

LEMMA StepIInv == IInv /\ [Next]_vars => IInv'
<1> SUFFICES ASSUME IInv, [Next]_vars PROVE IInv'
  OBVIOUS
<1>1. ASSUME NEW ref \in Ref, NEW side \in Side, NEW shares \in Shares, NEW p \in ItchPrice,
             AddOrder(ref, side, shares, p)
      PROVE  IInv'
  BY <1>1, AddStep
<1>2. ASSUME NEW ref \in Ref, NEW shares \in Shares, NEW type \in {"execute", "cancel"},
             ReduceOrder(ref, shares, type)
      PROVE  IInv'
  BY <1>2, ReduceStep
<1>3. ASSUME NEW ref \in Ref, DeleteOrder(ref) PROVE IInv'
  BY <1>3, DeleteStep
<1>4. ASSUME NEW ref \in Ref, UnknownOrder(ref) PROVE IInv'
  BY <1>4, QuietStep DEF UnknownOrder
<1>5. ASSUME NEW ref \in Ref, NEW fresh \in Ref, NEW shares \in Shares, NEW p \in ItchPrice,
             ReplaceOrder(ref, fresh, shares, p)
      PROVE  IInv'
  BY <1>5, ReplaceStep
<1>6. ASSUME NEW ref \in Ref, NEW fresh \in Ref, NEW shares \in Shares, NEW p \in ItchPrice,
             ReplaceUnknown(ref, fresh, shares, p)
      PROVE  IInv'
  BY <1>6, ReplaceUnknownStep
<1>7. ASSUME NEW stat \in Verdict, NoLevelChange(stat) PROVE IInv'
  BY <1>7, QuietStep DEF NoLevelChange
<1>8. CASE ApplyDelta
  BY <1>8, ApplyStep
<1>9. CASE UNCHANGED vars
  <2>1. stats' = Bump({})
    BY <1>9 DEF vars, Bump, IInv, TypeOK
  <2>2. QED
    BY <1>9, <2>1, QuietStep DEF vars
<1>10. QED
  BY <1>1, <1>2, <1>3, <1>4, <1>5, <1>6, <1>7, <1>8, <1>9 DEF Next

LEMMA AlwaysIInv == Spec => []IInv
  BY InitIInv, StepIInv, PTL DEF Spec

(***************************************************************************)
(* Live orders, deltas, counters and book keep their types: in particular  *)
(* no order's share count goes below zero, whatever is executed or         *)
(* cancelled.                                                              *)
(***************************************************************************)
THEOREM TypeCorrect == Spec => []TypeOK
<1>1. IInv => TypeOK
  BY DEF IInv
<1>2. QED
  BY <1>1, AlwaysIInv, PTL

(***************************************************************************)
(* The book never shows shares that no live order has, wherever in the day *)
(* the file begins and even where a level saturates.                       *)
(***************************************************************************)
THEOREM NothingInvented == Spec => []NeverOverstated
<1>1. ASSUME IInv, AtNextMessage, NEW i \in Index
      PROVE  bid[i] <= RestingShares("B", i) /\ ask[i] <= RestingShares("S", i)
  <2>1. "B" \in Side /\ "S" \in Side
    BY DEF Side
  <2>2. Held("B", i) = bid[i] /\ Held("S", i) = ask[i]
    BY DEF Held, LevelAt
  <2>3. QED
    BY <1>1, <2>1, <2>2, AtRest, RestingIsTotal
<1>2. IInv => NeverOverstated
  BY <1>1 DEF NeverOverstated
<1>3. QED
  BY <1>2, AlwaysIInv, PTL

(***************************************************************************)
(* Between any two messages the level book equals the order book, except   *)
(* at the levels where a Replace of an unknown order was recorded without  *)
(* a delta.  LevelsFit is needed: a level that saturates no longer tells   *)
(* how many shares rest at it.                                             *)
(***************************************************************************)
THEOREM LevelsMatchOrders ==
  ASSUME LevelsFit PROVE Spec => []BookMatchesOrders
<1>1. ASSUME IInv, AtNextMessage, NEW i \in Index
      PROVE  /\ i \notin tainted => bid[i] = RestingShares("B", i)
             /\ ask[i] = RestingShares("S", i)
  <2>1. "B" \in Side /\ "S" \in Side
    BY DEF Side
  <2>2. Held("B", i) = bid[i] /\ Held("S", i) = ask[i]
    BY DEF Held, LevelAt
  <2>3. Unspoilt("S", i) /\ (i \notin tainted => Unspoilt("B", i))
    BY DEF Unspoilt
  <2>4. QED
    BY <1>1, <2>1, <2>2, <2>3, AtRest, RestingIsTotal
<1>2. IInv => BookMatchesOrders
  BY <1>1 DEF BookMatchesOrders
<1>3. QED
  BY <1>2, AlwaysIInv, PTL
=============================================================================

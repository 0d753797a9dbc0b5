--------------------------- MODULE ArithmeticProofs ---------------------------
(***************************************************************************)
(* The two components whose correctness is arithmetic.  The risk gate: the *)
(* rate limiter's bound and its exactness, for every token interval, burst *)
(* and history.  The histogram: the error of its percentiles and the       *)
(* exactness of its extremes, for every range and precision.               *)
(***************************************************************************)
EXTENDS RiskGate, Histogram, WellFoundedInduction, TLAPS

LEMMA TauType == tau \in Nat /\ (CyclesPerToken = 0 => tau = 0)
  BY LimitsAssumption DEF tau

LEMMA SignedType == \A side \in Side, size \in Size : Signed(side, size) \in Int
  BY LimitsAssumption DEF Signed

LEMMA InitIInv == Init => IInv
<1> SUFFICES ASSUME Init PROVE IInv
  OBVIOUS
<1>1. acceptLog = << >> /\ Len(acceptLog) = 0 /\ 1 .. Len(acceptLog) = {}
  BY DEF Init
<1>2. TypeOK
  <2>1. << >> \in Seq(Nat)
    OBVIOUS
  <2>2. acceptLog \in Seq(Nat)
    BY <1>1, <2>1, Zenon
  <2>3. kill \in BOOLEAN
    BY Zenon DEF Init
  <2>4. position \in Int /\ tat \in Nat /\ now \in Nat /\ result \in RiskResult
    BY DEF Init, RiskResult
  <2>5. QED
    BY <2>2, <2>3, <2>4 DEF TypeOK
<1>3. LogOrdered /\ RateBound
  BY <1>1 DEF LogOrdered, RateBound
<1>4. TatIsMax
  BY <1>1 DEF Init, TatIsMax
<1>5. QED
  BY <1>2, <1>3, <1>4 DEF IInv

(***************************************************************************)
(* The bound on the log says which accepts are safe: an accept that passed *)
(* the rate test is far enough behind every earlier one.                   *)
(***************************************************************************)
LEMMA PassedIsSafe ==
  ASSUME TypeOK, TatIsMax, LogOrdered, ~RateBad, NEW i \in 1 .. Len(acceptLog)
  PROVE  (Len(acceptLog) + 1 - i) * CyclesPerToken <= now - acceptLog[i] + tau
<1> DEFINE c == (Len(acceptLog) + 1 - i) * CyclesPerToken
<1>1. /\ acceptLog[i] \in Nat /\ now \in Nat /\ tat \in Nat /\ tau \in Nat
      /\ acceptLog[i] <= now /\ Len(acceptLog) \in Nat
  BY TauType DEF TypeOK, LogOrdered
<1>2. c \in Int
  BY <1>1, LimitsAssumption
<1>3. CASE CyclesPerToken = 0
  <2>1. c = 0
    BY <1>1, <1>3
  <2> HIDE DEF c
  <2>2. c <= now - acceptLog[i] + tau
    BY <1>1, <2>1
  <2>3. QED
    BY <2>2 DEF c
<1>4. CASE CyclesPerToken # 0
  <2>1. acceptLog[i] + c <= tat
    BY <1>4 DEF TatIsMax, Charged
  <2>2. ~(now < Earliest)
    BY <1>4 DEF RateBad
  <2> HIDE DEF c
  <2>3. c <= now - acceptLog[i] + tau
    BY <1>1, <1>2, <2>1, <2>2 DEF Earliest
  <2>4. QED
    BY <2>3 DEF c
<1>5. QED
  BY <1>3, <1>4

(***************************************************************************)
(* An accept appends the present time and keeps tat_ the largest charge.   *)
(***************************************************************************)
LEMMA AcceptKeepsIInv ==
  ASSUME IInv, NEW o \in Order, Accept(o)
  PROVE  IInv'
<1> USE LimitsAssumption
<1>1. TypeOK /\ LogOrdered /\ TatIsMax /\ RateBound
  BY DEF IInv
<1>0. PICK n \in Nat : n = Len(acceptLog)
  BY <1>1 DEF TypeOK
<1>2. /\ acceptLog' = Append(acceptLog, now) /\ now' = now /\ tat' = NextTat
      /\ result' = "accept" /\ kill' = kill /\ position' = position /\ ~RateBad
  BY DEF Accept
<1>3. /\ n \in Nat /\ acceptLog \in Seq(Nat) /\ now \in Nat /\ tat \in Nat
      /\ \A i \in 1 .. n : acceptLog[i] \in Nat
  BY <1>0, <1>1 DEF TypeOK
<1>4. /\ Len(acceptLog') = n + 1 /\ acceptLog' \in Seq(Nat)
      /\ acceptLog'[n + 1] = now
      /\ \A i \in 1 .. n : acceptLog'[i] = acceptLog[i]
  BY <1>0, <1>2, <1>3
<1>5. NextTat \in Nat
  BY <1>3 DEF NextTat
<1>6. TypeOK'
  BY <1>1, <1>2, <1>4, <1>5 DEF TypeOK, RiskResult
<1>7. LogOrdered'
  <2>1. \A i \in 1 .. n + 1 : acceptLog'[i] <= now
    BY <1>0, <1>1, <1>3, <1>4 DEF LogOrdered
  <2>2. ASSUME NEW i \in 1 .. n + 1, NEW j \in 1 .. n + 1, i <= j
        PROVE  acceptLog'[i] <= acceptLog'[j]
    <3>1. CASE j = n + 1
      BY <1>4, <2>1, <3>1
    <3>2. CASE j # n + 1
      <4>1. i \in 1 .. n /\ j \in 1 .. n
        BY <1>3, <2>2, <3>2
      <4>2. QED
        BY <1>0, <1>1, <1>4, <2>2, <4>1 DEF LogOrdered
    <3>3. QED
      BY <3>1, <3>2
  <2>3. QED
    BY <1>2, <1>4, <2>1, <2>2 DEF LogOrdered
<1>8. RateBound'
  <2>1. ASSUME NEW i \in 1 .. n + 1, NEW j \in 1 .. n + 1, i <= j
        PROVE  (j - i) * CyclesPerToken <= acceptLog'[j] - acceptLog'[i] + tau
    <3>1. CASE j = n + 1 /\ i = n + 1
      BY <1>3, <1>4, <3>1, TauType
    <3>2. CASE j = n + 1 /\ i # n + 1
      <4>1. i \in 1 .. n
        BY <1>3, <2>1, <3>2
      <4>2. (n + 1 - i) * CyclesPerToken <= now - acceptLog[i] + tau
        BY <1>1, <1>2, <4>1, <1>0, PassedIsSafe
      <4>3. QED
        <5>1. acceptLog'[j] - acceptLog'[i] + tau = now - acceptLog[i] + tau /\ j - i = n + 1 - i
          BY <1>4, <3>2, <4>1
        <5>2. QED
          BY <4>2, <5>1
    <3>3. CASE j # n + 1
      <4>1. i \in 1 .. n /\ j \in 1 .. n
        BY <1>3, <2>1, <3>3
      <4>2. QED
        BY <1>0, <1>1, <1>4, <2>1, <4>1 DEF RateBound
    <3>4. QED
      BY <3>1, <3>2, <3>3
  <2>2. QED
    BY <1>4, <2>1 DEF RateBound
<1>9. TatIsMax'
  <2>1. acceptLog' # << >>
    BY <1>3, <1>4
  <2>2. CASE CyclesPerToken = 0
    BY <2>1, <2>2 DEF TatIsMax
  <2>3. CASE CyclesPerToken # 0
    <3>1. tat' = (IF now > tat THEN now ELSE tat) + CyclesPerToken
      BY <1>2, <2>3 DEF NextTat
    <3>2. Charged(n + 1)' = now + CyclesPerToken
      BY <1>3, <1>4 DEF Charged
    <3>3. ASSUME NEW i \in 1 .. n
          PROVE  Charged(i) \in Int /\ Charged(i)' = Charged(i) + CyclesPerToken
      <4>1. Charged(i)' = acceptLog[i] + (n + 2 - i) * CyclesPerToken
        BY <1>3, <1>4 DEF Charged
      <4>2. Charged(i) = acceptLog[i] + (n + 1 - i) * CyclesPerToken
        BY <1>0 DEF Charged
      <4>3. (n + 2 - i) * CyclesPerToken = (n + 1 - i) * CyclesPerToken + CyclesPerToken
        BY <1>3
      <4>4. (n + 1 - i) * CyclesPerToken \in Int /\ acceptLog[i] \in Nat
        BY <1>3
      <4>5. QED
        BY <4>1, <4>2, <4>3, <4>4
    <3>4. \A i \in 1 .. n : Charged(i) <= tat
      BY <1>0, <1>1, <2>3 DEF TatIsMax
    <3>5. \A i \in 1 .. n + 1 : Charged(i)' <= tat'
      BY <1>3, <3>1, <3>2, <3>3, <3>4
    <3>6. \E i \in 1 .. n + 1 : Charged(i)' = tat'
      <4>1. CASE now > tat
        BY <1>3, <3>1, <3>2, <4>1
      <4>2. CASE ~(now > tat) /\ acceptLog = << >>
        BY <1>1, <1>3, <3>1, <3>2, <4>2 DEF TatIsMax
      <4>3. CASE ~(now > tat) /\ acceptLog # << >>
        <5>1. PICK i \in 1 .. n : Charged(i) = tat
          BY <1>0, <1>1, <2>3, <4>3 DEF TatIsMax
        <5>2. Charged(i)' = tat' /\ i \in 1 .. n + 1
          BY <1>3, <3>1, <3>3, <4>3, <5>1
        <5>3. QED
          BY <5>2
      <4>4. QED
        BY <4>1, <4>2, <4>3
    <3>7. QED
      BY <1>4, <2>1, <3>5, <3>6 DEF TatIsMax
  <2>4. QED
    BY <2>2, <2>3
<1>10. QED
  BY <1>6, <1>7, <1>8, <1>9 DEF IInv

(***************************************************************************)
(* Every step preserves the inductive invariant.                           *)
(***************************************************************************)
LEMMA StepIInv == IInv /\ [Next]_vars => IInv'
<1> SUFFICES ASSUME IInv, [Next]_vars PROVE IInv'
  OBVIOUS
<1> USE LimitsAssumption
<1>t. TypeOK /\ LogOrdered /\ TatIsMax /\ RateBound
  BY DEF IInv
<1>1. ASSUME NEW o \in Order, Reject(o) PROVE IInv'
  <2>1. /\ kill' = kill /\ position' = position /\ tat' = tat /\ now' = now
        /\ acceptLog' = acceptLog /\ result' \in RiskResult
    BY <1>1 DEF Reject, RiskResult
  <2>2. QED
    BY <1>t, <2>1 DEF IInv, TypeOK, LogOrdered, TatIsMax, Charged, RateBound
<1>2. ASSUME NEW o \in Order, Accept(o) PROVE IInv'
  BY <1>2, AcceptKeepsIInv
<1>3. ASSUME NEW side \in Side, NEW size \in Size, on_fill(side, size) PROVE IInv'
  <2>1. position' \in Int
    BY <1>t, <1>3, SignedType DEF on_fill, TypeOK
  <2>2. /\ kill' = kill /\ tat' = tat /\ now' = now
        /\ acceptLog' = acceptLog /\ result' = result
    BY <1>3 DEF on_fill
  <2>3. QED
    BY <1>t, <2>1, <2>2 DEF IInv, TypeOK, LogOrdered, TatIsMax, Charged, RateBound
<1>4. CASE SwitchKill
  BY <1>t, <1>4 DEF SwitchKill, IInv, TypeOK, LogOrdered, TatIsMax, Charged, RateBound
<1>5. CASE ClockTicks
  <2>1. /\ now' = now + 1 /\ kill' = kill /\ position' = position /\ tat' = tat
        /\ acceptLog' = acceptLog /\ result' = result
    BY <1>5 DEF ClockTicks
  <2>2. TypeOK' /\ TatIsMax' /\ RateBound'
    BY <1>t, <2>1 DEF TypeOK, TatIsMax, Charged, RateBound
  <2>3. \A i \in 1 .. Len(acceptLog) : acceptLog[i] \in Nat /\ acceptLog[i] <= now
    BY <1>t DEF TypeOK, LogOrdered
  <2>4. LogOrdered'
    BY <1>t, <2>1, <2>3 DEF TypeOK, LogOrdered
  <2>5. QED
    BY <2>2, <2>4 DEF IInv
<1>6. ASSUME NEW p \in -MaxFilled .. MaxFilled, set_position(p) PROVE IInv'
  BY <1>t, <1>6 DEF set_position, IInv, TypeOK, LogOrdered, TatIsMax, Charged, RateBound
<1>7. CASE UNCHANGED vars
  BY <1>t, <1>7 DEF vars, IInv, TypeOK, LogOrdered, TatIsMax, Charged, RateBound
<1>8. QED
  BY <1>1, <1>2, <1>3, <1>4, <1>5, <1>6, <1>7 DEF Next, check

LEMMA Inductive == Spec => []IInv
  BY InitIInv, StepIInv, PTL DEF Spec

(***************************************************************************)
(* The state of the gate keeps its type; tat_ in particular is never moved *)
(* below zero by check().                                                  *)
(***************************************************************************)
THEOREM TypeCorrect == Spec => []TypeOK
<1>1. IInv => TypeOK
  BY DEF IInv
<1>2. QED
  BY <1>1, Inductive, PTL

(***************************************************************************)
(* The rate bound holds over every window of every history.                *)
(***************************************************************************)
THEOREM RateIsBounded == Spec => []RateBound
<1>1. IInv => RateBound
  BY DEF IInv
<1>2. QED
  BY <1>1, Inductive, PTL

(***************************************************************************)
(* check() refuses for rate exactly when the bound would be broken.        *)
(***************************************************************************)
THEOREM LimiterIsExact == Spec => []RateExact
<1>1. IInv => RateExact
  <2> SUFFICES ASSUME IInv PROVE RateExact
    OBVIOUS
  <2>1. TypeOK /\ LogOrdered /\ TatIsMax
    BY DEF IInv
  <2>2. ASSUME ~RateBad PROVE ~WouldBreakBound
    <3>1. SUFFICES ASSUME NEW i \in 1 .. Len(acceptLog)
                   PROVE  ~((Len(acceptLog) + 1 - i) * CyclesPerToken
                              > now - acceptLog[i] + tau)
      BY DEF WouldBreakBound
    <3>2. (Len(acceptLog) + 1 - i) * CyclesPerToken <= now - acceptLog[i] + tau
      BY <2>1, <2>2, PassedIsSafe
    <3>3. /\ (Len(acceptLog) + 1 - i) * CyclesPerToken \in Int
          /\ now - acceptLog[i] + tau \in Int
      BY <2>1, LimitsAssumption, TauType DEF TypeOK
    <3>4. QED
      BY <3>2, <3>3
  <2>3. ASSUME RateBad PROVE WouldBreakBound
    <3>1. CyclesPerToken # 0 /\ now < Earliest /\ now \in Nat /\ tat \in Nat /\ tau \in Nat
      BY <2>1, <2>3, TauType DEF RateBad, TypeOK
    <3>2. tat > 0 /\ now < tat - tau
      BY <3>1 DEF Earliest
    <3>3. PICK i \in 1 .. Len(acceptLog) : Charged(i) = tat
      BY <2>1, <3>1, <3>2 DEF TatIsMax
    <3>4. /\ (Len(acceptLog) + 1 - i) * CyclesPerToken \in Int
          /\ acceptLog[i] \in Nat
      BY <2>1, LimitsAssumption DEF TypeOK
    <3>5. (Len(acceptLog) + 1 - i) * CyclesPerToken > now - acceptLog[i] + tau
      BY <3>1, <3>2, <3>3, <3>4 DEF Charged
    <3>6. QED
      BY <3>5 DEF WouldBreakBound
  <2>4. QED
    BY <2>2, <2>3 DEF RateExact
<1>2. QED
  BY <1>1, Inductive, PTL
-----------------------------------------------------------------------------
(***************************************************************************)
(* The second component: the histogram.  First the tools: induction over   *)
(* the naturals, powers of two and running sums.                           *)
(***************************************************************************)

(***************************************************************************)
(* A non-empty set of naturals has a least element.                        *)
(***************************************************************************)
LEMMA LeastNat ==
  ASSUME NEW T, T \subseteq Nat, T # {}
  PROVE  \E x \in T : \A y \in T : x <= y
<1>1. PICK x \in T : \A y \in T : ~(<<y, x>> \in OpToRel(<, Nat))
  BY NatLessThanWellFounded, WFMin
<1>2. ASSUME NEW y \in T PROVE x <= y
  <2>1. x \in Nat /\ y \in Nat
    OBVIOUS
  <2>2. ASSUME y < x PROVE <<y, x>> \in OpToRel(<, Nat)
    BY <2>1, <2>2, Zenon DEF OpToRel
  <2>3. ~(y < x)
    BY <1>1, <2>2
  <2>4. QED
    BY <2>1, <2>3
<1>3. QED
  BY <1>2

(***************************************************************************)
(* A set of naturals that has 0, and n if it has n - 1, has them all.  The *)
(* set stands for the predicate of an induction.                           *)
(***************************************************************************)
LEMMA AllNats ==
  ASSUME NEW G, 0 \in G, \A n \in Nat : n \in G => n + 1 \in G
  PROVE  Nat \subseteq G
<1> DEFINE Bad == Nat \ G
<1>1. ASSUME Bad # {} PROVE FALSE
  <2>1. PICK k \in Bad : \A j \in Bad : k <= j
    <3>1. Bad \subseteq Nat
      OBVIOUS
    <3> HIDE DEF Bad
    <3> QED BY <1>1, <3>1, LeastNat
  <2>2. k - 1 \in Nat /\ (k - 1) + 1 = k
    BY <2>1
  <2>3. k - 1 \notin Bad
    <3>1. ~(k <= k - 1)
      BY <2>2
    <3> HIDE DEF Bad
    <3> QED BY <2>1, <3>1
  <2>4. QED
    BY <2>1, <2>2, <2>3
<1>2. QED
  BY <1>1
-----------------------------------------------------------------------------
(* Sums and powers: the recursive definitions say what they mean           *)

IsCumulative(f, w, n) == f = [k \in 0 .. n |-> IF k = 0 THEN w[0] ELSE f[k - 1] + w[k]]
IsPower(f, n) == f = [k \in 0 .. n |-> IF k = 0 THEN 1 ELSE 2 * f[k - 1]]

LEMMA CumulativeExists ==
  ASSUME NEW w, NEW n \in Nat
  PROVE  \E f : IsCumulative(f, w, n)
<1> DEFINE G == { m \in Nat : \E f : IsCumulative(f, w, m) }
<1>1. 0 \in G
  <2> DEFINE g == [k \in 0 .. 0 |-> w[0]]
  <2>1. IsCumulative(g, w, 0)
    BY DEF IsCumulative
  <2> HIDE DEF g
  <2>2. QED
    BY <2>1
<1>2. ASSUME NEW m \in Nat, m \in G PROVE m + 1 \in G
  <2>1. PICK f : IsCumulative(f, w, m)
    BY <1>2
  <2> DEFINE g == [k \in 0 .. m + 1 |-> IF k = m + 1 THEN f[m] + w[m + 1] ELSE f[k]]
  <2>2. ASSUME NEW k \in 0 .. m + 1 PROVE g[k] = IF k = 0 THEN w[0] ELSE g[k - 1] + w[k]
    <3>1. CASE k = m + 1
      BY <3>1
    <3>2. CASE k # m + 1
      BY <2>1, <3>2 DEF IsCumulative
    <3>3. QED
      BY <3>1, <3>2
  <2>3. g = [k \in 0 .. m + 1 |-> g[k]]
    OBVIOUS
  <2> HIDE DEF g
  <2>4. IsCumulative(g, w, m + 1)
    BY <2>2, <2>3 DEF IsCumulative
  <2>5. m + 1 \in Nat
    OBVIOUS
  <2>6. QED
    BY <2>4, <2>5, Zenon
<1>3. Nat \subseteq G
  <2> HIDE DEF G
  <2> QED BY <1>1, <1>2, AllNats
<1>4. QED
  BY <1>3

LEMMA CumulativeUnique ==
  ASSUME NEW w, NEW f, NEW g, NEW a \in Nat, NEW b \in Nat, a <= b,
         IsCumulative(f, w, a), IsCumulative(g, w, b)
  PROVE  f[a] = g[a]
<1> DEFINE G == { m \in Nat : m <= a => f[m] = g[m] }
<1>1. 0 \in G
  BY DEF IsCumulative
<1>2. ASSUME NEW m \in Nat, m \in G PROVE m + 1 \in G
  <2>1. CASE m + 1 <= a
    <3>1. m + 1 \in 0 .. a /\ m + 1 \in 0 .. b /\ m + 1 # 0 /\ (m + 1) - 1 = m
      BY <2>1
    <3>2. f[m + 1] = f[m] + w[m + 1] /\ g[m + 1] = g[m] + w[m + 1]
      BY <3>1 DEF IsCumulative
    <3>3. QED
      BY <1>2, <2>1, <3>2
  <2>2. QED
    BY <2>1
<1>3. Nat \subseteq G
  <2> HIDE DEF G
  <2> QED BY <1>1, <1>2, AllNats
<1>4. a \in G
  BY <1>3
<1>5. QED
  BY <1>4

(***************************************************************************)
(* The loop of percentile(): each turn adds one count.                     *)
(***************************************************************************)
LEMMA UpToStep ==
  ASSUME NEW w
  PROVE  UpTo(w, 0) = w[0] /\ \A n \in Nat : UpTo(w, n + 1) = UpTo(w, n) + w[n + 1]
<1> DEFINE f(n) == CHOOSE g : IsCumulative(g, w, n)
<1>1. \A n : UpTo(w, n) = f(n)[n]
  BY Zenon DEF UpTo, IsCumulative
<1>2. ASSUME NEW n \in Nat PROVE IsCumulative(f(n), w, n)
  BY CumulativeExists, Zenon
<1> HIDE DEF f
<1>3. f(0)[0] = w[0]
  BY <1>2 DEF IsCumulative
<1>4. ASSUME NEW n \in Nat PROVE f(n + 1)[n + 1] = f(n)[n] + w[n + 1]
  <2>1. n + 1 \in Nat /\ n <= n + 1 /\ n + 1 \in 0 .. n + 1 /\ n + 1 # 0 /\ (n + 1) - 1 = n
    OBVIOUS
  <2>2. IsCumulative(f(n), w, n) /\ IsCumulative(f(n + 1), w, n + 1)
    BY <1>2, <2>1
  <2>3. f(n + 1)[n + 1] = f(n + 1)[n] + w[n + 1]
    BY <2>1, <2>2 DEF IsCumulative
  <2>4. f(n)[n] = f(n + 1)[n]
    BY <2>1, <2>2, CumulativeUnique
  <2>5. QED
    BY <2>3, <2>4
<1>5. QED
  BY <1>1, <1>3, <1>4

LEMMA PowerExists ==
  ASSUME NEW n \in Nat
  PROVE  \E f : IsPower(f, n)
<1> DEFINE G == { m \in Nat : \E f : IsPower(f, m) }
<1>1. 0 \in G
  <2> DEFINE g == [k \in 0 .. 0 |-> 1]
  <2>1. IsPower(g, 0)
    BY DEF IsPower
  <2> HIDE DEF g
  <2>2. QED
    BY <2>1
<1>2. ASSUME NEW m \in Nat, m \in G PROVE m + 1 \in G
  <2>1. PICK f : IsPower(f, m)
    BY <1>2
  <2> DEFINE g == [k \in 0 .. m + 1 |-> IF k = m + 1 THEN 2 * f[m] ELSE f[k]]
  <2>2. ASSUME NEW k \in 0 .. m + 1 PROVE g[k] = IF k = 0 THEN 1 ELSE 2 * g[k - 1]
    <3>1. CASE k = m + 1
      BY <3>1
    <3>2. CASE k # m + 1
      BY <2>1, <3>2 DEF IsPower
    <3>3. QED
      BY <3>1, <3>2
  <2>3. g = [k \in 0 .. m + 1 |-> g[k]]
    OBVIOUS
  <2> HIDE DEF g
  <2>4. IsPower(g, m + 1)
    BY <2>2, <2>3 DEF IsPower
  <2>5. m + 1 \in Nat
    OBVIOUS
  <2>6. QED
    BY <2>4, <2>5, Zenon
<1>3. Nat \subseteq G
  <2> HIDE DEF G
  <2> QED BY <1>1, <1>2, AllNats
<1>4. QED
  BY <1>3

LEMMA PowerUnique ==
  ASSUME NEW f, NEW g, NEW a \in Nat, NEW b \in Nat, a <= b,
         IsPower(f, a), IsPower(g, b)
  PROVE  f[a] = g[a]
<1> DEFINE G == { m \in Nat : m <= a => f[m] = g[m] }
<1>1. 0 \in G
  BY DEF IsPower
<1>2. ASSUME NEW m \in Nat, m \in G PROVE m + 1 \in G
  <2>1. CASE m + 1 <= a
    <3>1. m + 1 \in 0 .. a /\ m + 1 \in 0 .. b /\ m + 1 # 0 /\ (m + 1) - 1 = m
      BY <2>1
    <3>2. f[m + 1] = 2 * f[m] /\ g[m + 1] = 2 * g[m]
      BY <3>1 DEF IsPower
    <3>3. QED
      BY <1>2, <2>1, <3>2
  <2>2. QED
    BY <2>1
<1>3. Nat \subseteq G
  <2> HIDE DEF G
  <2> QED BY <1>1, <1>2, AllNats
<1>4. a \in G
  BY <1>3
<1>5. QED
  BY <1>4

(***************************************************************************)
(* A shift by one more doubles.                                            *)
(***************************************************************************)
LEMMA Pow2Step == Pow2(0) = 1 /\ \A n \in Nat : Pow2(n + 1) = 2 * Pow2(n)
<1> DEFINE f(n) == CHOOSE g : IsPower(g, n)
<1>1. \A n : Pow2(n) = f(n)[n]
  BY Zenon DEF Pow2, IsPower
<1>2. ASSUME NEW n \in Nat PROVE IsPower(f(n), n)
  BY PowerExists, Zenon
<1> HIDE DEF f
<1>3. f(0)[0] = 1
  BY <1>2 DEF IsPower
<1>4. ASSUME NEW n \in Nat PROVE f(n + 1)[n + 1] = 2 * f(n)[n]
  <2>1. n + 1 \in Nat /\ n <= n + 1 /\ n + 1 \in 0 .. n + 1 /\ n + 1 # 0 /\ (n + 1) - 1 = n
    OBVIOUS
  <2>2. IsPower(f(n), n) /\ IsPower(f(n + 1), n + 1)
    BY <1>2, <2>1
  <2>3. f(n + 1)[n + 1] = 2 * f(n + 1)[n]
    BY <2>1, <2>2 DEF IsPower
  <2>4. f(n)[n] = f(n + 1)[n]
    BY <2>1, <2>2, PowerUnique
  <2>5. QED
    BY <2>3, <2>4
<1>5. QED
  BY <1>1, <1>3, <1>4

LEMMA Pow2Type == \A n \in Nat : Pow2(n) \in Nat /\ Pow2(n) > n
<1> DEFINE G == { n \in Nat : Pow2(n) \in Nat /\ Pow2(n) > n }
<1>1. 0 \in G
  BY Pow2Step
<1>2. ASSUME NEW n \in Nat, n \in G PROVE n + 1 \in G
  <2>1. Pow2(n) \in Nat /\ Pow2(n) > n /\ Pow2(n + 1) = 2 * Pow2(n)
    BY <1>2, Pow2Step
  <2>2. QED
    BY <2>1
<1>3. Nat \subseteq G
  <2> HIDE DEF G
  <2> QED BY <1>1, <1>2, AllNats
<1>4. QED
  BY <1>3

LEMMA Pow2Grows ==
  ASSUME NEW a \in Nat, NEW b \in Nat, a <= b
  PROVE  Pow2(a) <= Pow2(b)
<1> DEFINE G == { d \in Nat : Pow2(a) <= Pow2(a + d) }
<1>1. 0 \in G
  BY Pow2Type
<1>2. ASSUME NEW d \in Nat, d \in G PROVE d + 1 \in G
  <2>1. Pow2(a) \in Nat /\ Pow2(a + d) \in Nat /\ Pow2(a) <= Pow2(a + d)
    BY <1>2, Pow2Type
  <2>2. Pow2((a + d) + 1) = 2 * Pow2(a + d) /\ (a + d) + 1 = a + (d + 1)
    BY Pow2Step
  <2>3. QED
    BY <2>1, <2>2
<1>3. Nat \subseteq G
  <2> HIDE DEF G
  <2> QED BY <1>1, <1>2, AllNats
<1>4. b - a \in Nat /\ a + (b - a) = b
  OBVIOUS
<1>5. QED
  BY <1>3, <1>4

(***************************************************************************)
(* Sums of counts                                                          *)
(***************************************************************************)
LEMMA UpToType ==
  ASSUME NEW N \in Nat, NEW w, \A k \in 0 .. N : w[k] \in Nat
  PROVE  \A n \in 0 .. N : UpTo(w, n) \in Nat
<1> DEFINE G == { n \in Nat : n <= N => UpTo(w, n) \in Nat }
<1>1. 0 \in G
  BY UpToStep
<1>2. ASSUME NEW n \in Nat, n \in G PROVE n + 1 \in G
  <2>1. CASE n + 1 <= N
    <3>1. UpTo(w, n) \in Nat /\ w[n + 1] \in Nat
      BY <1>2, <2>1
    <3>2. UpTo(w, n + 1) = UpTo(w, n) + w[n + 1]
      BY UpToStep
    <3>3. UpTo(w, n + 1) \in Nat
      BY <3>1, <3>2
    <3>4. QED
      BY <3>3
  <2>2. QED
    BY <2>1
<1>3. Nat \subseteq G
  <2> HIDE DEF G
  <2> QED BY <1>1, <1>2, AllNats
<1>4. QED
  BY <1>3

\* What merging does to an array, and what recording does.
Merged(N, w, x, u) == \A k \in 0 .. N : w[k] \in Nat /\ x[k] \in Nat /\ u[k] = w[k] + x[k]
Raised(N, w, u, v, d) == \A k \in 0 .. N : w[k] \in Nat /\ u[k] = IF k = v THEN w[k] + d ELSE w[k]
SumsRaised(N, w, u, v, d) ==
  \A n \in 0 .. N : UpTo(u, n) = UpTo(w, n) + (IF v <= n THEN d ELSE 0)
SumsMerged(N, w, x, u) == \A n \in 0 .. N : UpTo(u, n) = UpTo(w, n) + UpTo(x, n)

(***************************************************************************)
(* add(): the sums of two arrays add up to the sum of the merged one.      *)
(***************************************************************************)
LEMMA UpToAdds ==
  ASSUME NEW N \in Nat, NEW w, NEW x, NEW u, Merged(N, w, x, u)
  PROVE  SumsMerged(N, w, x, u)
<1> DEFINE G == { n \in Nat : n <= N => UpTo(u, n) = UpTo(w, n) + UpTo(x, n) }
<1>1. 0 \in G
  BY UpToStep DEF Merged
<1>2. ASSUME NEW n \in Nat, n \in G PROVE n + 1 \in G
  <2>1. CASE n + 1 <= N
    <3>1. n \in 0 .. N /\ n + 1 \in 0 .. N
      BY <2>1
    <3>2. UpTo(u, n) = UpTo(w, n) + UpTo(x, n)
      BY <1>2, <2>1
    <3>3. /\ UpTo(w, n) \in Nat /\ UpTo(x, n) \in Nat
          /\ w[n + 1] \in Nat /\ x[n + 1] \in Nat /\ u[n + 1] = w[n + 1] + x[n + 1]
      BY <3>1, UpToType DEF Merged
    <3>4. /\ UpTo(u, n + 1) = UpTo(u, n) + u[n + 1]
          /\ UpTo(w, n + 1) = UpTo(w, n) + w[n + 1]
          /\ UpTo(x, n + 1) = UpTo(x, n) + x[n + 1]
      BY UpToStep
    <3>5. UpTo(u, n + 1) = UpTo(w, n + 1) + UpTo(x, n + 1)
      BY <3>2, <3>3, <3>4
    <3>6. QED
      BY <3>5
  <2>2. QED
    BY <2>1
<1>3. Nat \subseteq G
  <2> HIDE DEF G
  <2> QED BY <1>1, <1>2, AllNats
<1>4. QED
  BY <1>3 DEF SumsMerged

(***************************************************************************)
(* A single count d at v.                                                  *)
(***************************************************************************)
LEMMA UpToSingle ==
  ASSUME NEW N \in Nat, NEW x, NEW v \in 0 .. N, NEW d \in Nat,
         \A k \in 0 .. N : x[k] = IF k = v THEN d ELSE 0
  PROVE  \A n \in 0 .. N : UpTo(x, n) = IF v <= n THEN d ELSE 0
<1> DEFINE G == { n \in Nat : n <= N => UpTo(x, n) = IF v <= n THEN d ELSE 0 }
<1>1. 0 \in G
  BY UpToStep
<1>2. ASSUME NEW n \in Nat, n \in G PROVE n + 1 \in G
  <2>1. CASE n + 1 <= N
    <3>1. UpTo(x, n) = (IF v <= n THEN d ELSE 0) /\ x[n + 1] = IF n + 1 = v THEN d ELSE 0
      BY <1>2, <2>1
    <3>2. UpTo(x, n + 1) = UpTo(x, n) + x[n + 1]
      BY UpToStep
    <3>3. UpTo(x, n + 1) = IF v <= n + 1 THEN d ELSE 0
      BY <3>1, <3>2
    <3>4. QED
      BY <3>3
  <2>2. QED
    BY <2>1
<1>3. Nat \subseteq G
  <2> HIDE DEF G
  <2> QED BY <1>1, <1>2, AllNats
<1>4. QED
  BY <1>3

(***************************************************************************)
(* record_n(): d more at v raises the sums from v on by d.                 *)
(***************************************************************************)
LEMMA UpToRecord ==
  ASSUME NEW N \in Nat, NEW w, NEW u, NEW v \in 0 .. N, NEW d \in Nat,
         Raised(N, w, u, v, d)
  PROVE  SumsRaised(N, w, u, v, d)
<1> DEFINE x == [k \in 0 .. N |-> IF k = v THEN d ELSE 0]
<1>1. \A k \in 0 .. N : x[k] = IF k = v THEN d ELSE 0
  OBVIOUS
<1> HIDE DEF x
<1>2. Merged(N, w, x, u)
  BY <1>1 DEF Raised, Merged
<1>3. \A n \in 0 .. N : UpTo(x, n) = IF v <= n THEN d ELSE 0
  BY <1>1, UpToSingle
<1>4. SumsMerged(N, w, x, u)
  BY <1>2, UpToAdds
<1>5. QED
  BY <1>3, <1>4 DEF SumsMerged, SumsRaised

LEMMA UpToZero ==
  ASSUME NEW N \in Nat, NEW w, \A k \in 0 .. N : w[k] = 0
  PROVE  \A n \in 0 .. N : UpTo(w, n) = 0
<1>1. 0 \in 0 .. N /\ \A k \in 0 .. N : w[k] = IF k = 0 THEN 0 ELSE 0
  OBVIOUS
<1>2. QED
  BY <1>1, UpToSingle

LEMMA UpToGrows ==
  ASSUME NEW N \in Nat, NEW w, \A k \in 0 .. N : w[k] \in Nat,
         NEW a \in 0 .. N, NEW b \in 0 .. N, a <= b
  PROVE  UpTo(w, a) <= UpTo(w, b)
<1> DEFINE G == { d \in Nat : a + d <= N => UpTo(w, a) <= UpTo(w, a + d) }
<1>1. 0 \in G
  BY UpToType
<1>2. ASSUME NEW d \in Nat, d \in G PROVE d + 1 \in G
  <2>1. CASE a + (d + 1) <= N
    <3>1. a + d \in 0 .. N /\ (a + d) + 1 = a + (d + 1) /\ a + (d + 1) \in 0 .. N /\ a + d \in Nat
      BY <2>1
    <3>2. UpTo(w, a) <= UpTo(w, a + d)
      BY <1>2, <3>1
    <3>3. UpTo(w, a) \in Nat /\ UpTo(w, a + d) \in Nat /\ w[a + (d + 1)] \in Nat
      BY <3>1, UpToType
    <3>4. UpTo(w, (a + d) + 1) = UpTo(w, a + d) + w[(a + d) + 1]
      BY <3>1, UpToStep
    <3>5. UpTo(w, a) <= UpTo(w, a + (d + 1))
      BY <3>1, <3>2, <3>3, <3>4
    <3>6. QED
      BY <3>5
  <2>2. QED
    BY <2>1
<1>3. Nat \subseteq G
  <2> HIDE DEF G
  <2> QED BY <1>1, <1>2, AllNats
<1>4. b - a \in Nat /\ a + (b - a) = b
  OBVIOUS
<1>5. QED
  BY <1>3, <1>4

(***************************************************************************)
(* Nothing is counted up to n exactly if every count up to n is zero.      *)
(***************************************************************************)
LEMMA UpToAtLeast ==
  ASSUME NEW N \in Nat, NEW w, \A k \in 0 .. N : w[k] \in Nat,
         NEW v \in 0 .. N, NEW n \in 0 .. N, v <= n
  PROVE  w[v] <= UpTo(w, n)
<1>1. w[v] <= UpTo(w, v)
  <2>1. CASE v = 0
    BY <2>1, UpToStep
  <2>2. CASE v # 0
    <3>1. v - 1 \in 0 .. N /\ v - 1 \in Nat /\ (v - 1) + 1 = v
      BY <2>2
    <3>2. UpTo(w, v) = UpTo(w, v - 1) + w[v]
      BY <3>1, UpToStep
    <3>3. UpTo(w, v - 1) \in Nat
      BY <3>1, UpToType
    <3>4. QED
      BY <3>2, <3>3
  <2>3. QED
    BY <2>1, <2>2
<1>2. UpTo(w, v) <= UpTo(w, n)
  BY UpToGrows
<1>3. UpTo(w, v) \in Nat /\ UpTo(w, n) \in Nat
  BY UpToType
<1>4. QED
  BY <1>1, <1>2, <1>3
-----------------------------------------------------------------------------
(***************************************************************************)
(* The buckets: octaves, indices and ends.                                 *)
(***************************************************************************)

LEMMA Constants == /\ HighestTrackable \in Nat /\ HighestTrackable > 0
                   /\ PrecisionBits \in Nat /\ MaxSamples \in Nat
                   /\ MaxU64 \in Nat /\ MaxU64 > HighestTrackable
  BY HistogramAssumption

LEMMA HalfCount ==
  /\ kSubBucketHalfCount \in Nat /\ kSubBucketHalfCount > 0
  /\ kSubBucketCount = 2 * kSubBucketHalfCount
  BY Constants, Pow2Type, Pow2Step DEF kSubBucketHalfCount, kSubBucketCount

LEMMA Divided ==
  ASSUME NEW v \in Nat, NEW p \in Nat, p > 0
  PROVE  /\ v \div p \in Nat /\ v % p \in Nat /\ v % p < p
         /\ v = p * (v \div p) + (v % p)
  OBVIOUS

LEMMA ProductGrows ==
  ASSUME NEW a \in Nat, NEW b \in Nat, NEW c \in Nat, a <= b
  PROVE  a * c <= b * c /\ c * a <= c * b /\ a * c \in Nat /\ b * c \in Nat /\ c * a = a * c
<1>1. b - a \in Nat /\ (b - a) * c \in Nat /\ b * c = a * c + (b - a) * c
  OBVIOUS
<1>2. a * c \in Nat /\ b * c \in Nat /\ c * a = a * c /\ c * b = b * c
  OBVIOUS
<1>3. QED
  BY <1>1, <1>2

(***************************************************************************)
(* The octave of a value: b with half * 2^b <= v < 2 * half * 2^b, the     *)
(* first one reaching down to 0.                                           *)
(***************************************************************************)
LEMMA OctaveIs ==
  ASSUME NEW v \in Nat
  PROVE  LET b == Octave(v)
             edge == kSubBucketHalfCount * Pow2(b)
         IN  /\ b \in Nat /\ edge \in Nat /\ Pow2(b) \in Nat /\ Pow2(b) > 0
             /\ v < 2 * edge
             /\ b > 0 => edge <= v
<1> DEFINE D == { b \in Nat : v < kSubBucketCount * Pow2(b) }
<1>1. v \in D
  <2>1. Pow2(v) \in Nat /\ Pow2(v) > v
    BY Pow2Type
  <2>2. 1 * Pow2(v) <= kSubBucketCount * Pow2(v)
    BY <2>1, HalfCount, ProductGrows
  <2>3. kSubBucketCount * Pow2(v) \in Nat
    BY <2>1, HalfCount
  <2>4. QED
    BY <2>1, <2>2, <2>3
<1>2. PICK b \in D : \A c \in D : b <= c
  <2>1. D \subseteq Nat
    OBVIOUS
  <2> HIDE DEF D
  <2> QED BY <1>1, <2>1, LeastNat
<1>3. b \in 0 .. v /\ v < kSubBucketCount * Pow2(b)
  BY <1>1, <1>2
<1>4. b > 0 => v >= kSubBucketCount * Pow2(b - 1)
  <2>1. SUFFICES ASSUME b > 0 PROVE v >= kSubBucketCount * Pow2(b - 1)
    OBVIOUS
  <2>2. b - 1 \in Nat /\ ~(b <= b - 1)
    BY <1>3, <2>1
  <2>3. b - 1 \notin D
    <3> HIDE DEF D
    <3> QED BY <1>2, <2>2
  <2>4. ~(v < kSubBucketCount * Pow2(b - 1))
    BY <2>2, <2>3
  <2>5. Pow2(b - 1) \in Nat
    BY <2>2, Pow2Type
  <2>6. kSubBucketCount * Pow2(b - 1) \in Nat
    BY <2>5, HalfCount
  <2>7. QED
    BY <2>4, <2>6
<1> HIDE DEF D
<1> DEFINE o == Octave(v)
<1>5. /\ o \in 0 .. v
      /\ v < kSubBucketCount * Pow2(o)
      /\ o > 0 => v >= kSubBucketCount * Pow2(o - 1)
  BY <1>3, <1>4, Zenon DEF Octave
<1> HIDE DEF o
<1>6. o \in Nat /\ Pow2(o) \in Nat /\ Pow2(o) > 0
  <2>1. o \in Nat
    BY <1>5
  <2>2. QED
    BY <2>1, Pow2Type
<1>7. kSubBucketHalfCount * Pow2(o) \in Nat
  BY <1>6, HalfCount
<1>8. kSubBucketCount * Pow2(o) = 2 * (kSubBucketHalfCount * Pow2(o))
  BY <1>6, HalfCount
<1>9. ASSUME o > 0 PROVE kSubBucketHalfCount * Pow2(o) <= v
  <2>1. o - 1 \in Nat /\ (o - 1) + 1 = o
    BY <1>6, <1>9
  <2>2. Pow2(o - 1) \in Nat /\ Pow2(o) = 2 * Pow2(o - 1)
    <3>1. Pow2((o - 1) + 1) = 2 * Pow2(o - 1)
      BY <2>1, Pow2Step
    <3>2. QED
      BY <2>1, <3>1, Pow2Type
  <2>3. kSubBucketCount * Pow2(o - 1) = kSubBucketHalfCount * Pow2(o)
    BY <2>2, HalfCount
  <2>4. QED
    BY <1>5, <1>7, <1>9, <2>3
<1>10. QED
  BY <1>5, <1>6, <1>7, <1>8, <1>9 DEF o

(***************************************************************************)
(* counts_index(): octave and sub-bucket of a value.                       *)
(***************************************************************************)
LEMMA IndexIs ==
  ASSUME NEW v \in Nat
  PROVE  LET b == Octave(v)
             s == v \div Pow2(b)
         IN  /\ b \in Nat /\ s \in Nat /\ s < 2 * kSubBucketHalfCount
             /\ b > 0 => kSubBucketHalfCount <= s
             /\ counts_index(v) = b * kSubBucketHalfCount + s
             /\ Pow2(b) * s <= v /\ v < Pow2(b) * s + Pow2(b)
<1> DEFINE b == Octave(v)
           p == Pow2(b)
           s == v \div p
           h == kSubBucketHalfCount
<1>1. b \in Nat /\ p \in Nat /\ p > 0 /\ v < 2 * (h * p) /\ (b > 0 => h * p <= v)
  BY OctaveIs
<1>2. counts_index(v) = (b + 1) * h + (s - h)
  BY DEF counts_index
<1>3. h \in Nat
  BY HalfCount
<1> HIDE DEF b, p, h
<1>4. s \in Nat /\ p * s <= v /\ v < p * s + p
  BY <1>1, Divided
<1> HIDE DEF s
<1>5. s < 2 * h
  <2>1. SUFFICES ASSUME 2 * h <= s PROVE FALSE
    BY <1>3, <1>4
  <2>2. (2 * h) * p <= s * p /\ s * p = p * s
    BY <1>1, <1>3, <1>4, <2>1, ProductGrows
  <2>3. (2 * h) * p = 2 * (h * p)
    BY <1>1, <1>3
  <2>4. p * s \in Nat /\ h * p \in Nat
    BY <1>1, <1>3, <1>4
  <2>5. QED
    BY <1>1, <1>4, <2>2, <2>3, <2>4
<1>6. ASSUME b > 0 PROVE h <= s
  <2>1. SUFFICES ASSUME s + 1 <= h PROVE FALSE
    BY <1>3, <1>4
  <2>2. (s + 1) * p <= h * p
    BY <1>1, <1>3, <1>4, <2>1, ProductGrows
  <2>3. (s + 1) * p = p * s + p
    BY <1>1, <1>4
  <2>4. p * s \in Nat /\ h * p \in Nat
    BY <1>1, <1>3, <1>4
  <2>5. QED
    BY <1>1, <1>4, <1>6, <2>2, <2>3, <2>4
<1>7. (b + 1) * h + (s - h) = b * h + s
  BY <1>1, <1>3, <1>4
<1>8. QED
  BY <1>1, <1>2, <1>4, <1>5, <1>6, <1>7 DEF b, p, s, h

(***************************************************************************)
(* highest_equivalent_value(): an index below half is its own value; any   *)
(* other one is octave c and sub-bucket t, and ends before the next.       *)
(***************************************************************************)
LEMMA TopIs ==
  ASSUME NEW i \in Nat
  PROVE  /\ i < kSubBucketHalfCount => highest_equivalent_value(i) = i
         /\ kSubBucketHalfCount <= i =>
              \E c, t \in Nat :
                /\ kSubBucketHalfCount <= t /\ t < 2 * kSubBucketHalfCount
                /\ i = c * kSubBucketHalfCount + t
                /\ highest_equivalent_value(i) = (t + 1) * Pow2(c) - 1
<1> DEFINE h == kSubBucketHalfCount
           q == i \div h
           r == i % h
<1>1. h \in Nat /\ h > 0
  BY HalfCount
<1>2. highest_equivalent_value(i) = IF q - 1 < 0 THEN i ELSE ((r + h) + 1) * Pow2(q - 1) - 1
  BY Zenon DEF highest_equivalent_value
<1> HIDE DEF h
<1>3. q \in Nat /\ r \in Nat /\ r < h /\ i = h * q + r
  BY <1>1, Divided
<1> HIDE DEF q, r
<1>4. ASSUME i < h PROVE highest_equivalent_value(i) = i
  <2>1. ~(1 <= q)
    <3>1. SUFFICES ASSUME 1 <= q PROVE FALSE
      OBVIOUS
    <3>2. 1 * h <= q * h /\ q * h = h * q /\ q * h \in Nat
      BY <1>1, <1>3, <3>1, ProductGrows
    <3>3. QED
      BY <1>1, <1>3, <1>4, <3>2
  <2>2. QED
    BY <1>2, <1>3, <2>1
<1>5. ASSUME h <= i
      PROVE  \E c, t \in Nat : /\ h <= t /\ t < 2 * h /\ i = c * h + t
                               /\ highest_equivalent_value(i) = (t + 1) * Pow2(c) - 1
  <2>1. q # 0
    BY <1>1, <1>3, <1>5
  <2> DEFINE c == q - 1
             t == r + h
  <2>2. c \in Nat /\ t \in Nat /\ h <= t /\ t < 2 * h
    BY <1>1, <1>3, <2>1
  <2>3. i = c * h + t
    BY <1>1, <1>3, <2>1
  <2>4. highest_equivalent_value(i) = (t + 1) * Pow2(c) - 1
    BY <1>2, <1>3, <2>1
  <2> HIDE DEF c, t
  <2>5. QED
    BY <2>2, <2>3, <2>4
<1>6. QED
  BY <1>4, <1>5 DEF h
-----------------------------------------------------------------------------
(***************************************************************************)
(* The buckets partition the values, in order.                             *)
(***************************************************************************)

(***************************************************************************)
(* The next octave begins where this one ends.                             *)
(***************************************************************************)
LEMMA NextOctave ==
  ASSUME NEW b \in Nat, NEW c \in Nat, b < c
  PROVE  /\ Pow2(b) \in Nat /\ Pow2(c) \in Nat /\ 2 * Pow2(b) <= Pow2(c)
         /\ b * kSubBucketHalfCount + kSubBucketHalfCount <= c * kSubBucketHalfCount
<1>1. b + 1 \in Nat /\ b + 1 <= c
  OBVIOUS
<1>2. Pow2(b + 1) = 2 * Pow2(b) /\ Pow2(b + 1) <= Pow2(c)
  BY <1>1, Pow2Step, Pow2Grows
<1>3. Pow2(b) \in Nat /\ Pow2(c) \in Nat
  BY Pow2Type
<1>4. (b + 1) * kSubBucketHalfCount <= c * kSubBucketHalfCount
  BY <1>1, HalfCount, ProductGrows
<1>5. (b + 1) * kSubBucketHalfCount = b * kSubBucketHalfCount + kSubBucketHalfCount
  BY HalfCount
<1>6. QED
  BY <1>2, <1>3, <1>4, <1>5

LEMMA OctaveGrows ==
  ASSUME NEW v \in Nat, NEW u \in Nat, v <= u
  PROVE  Octave(v) <= Octave(u)
<1> DEFINE b == Octave(v)
           c == Octave(u)
           h == kSubBucketHalfCount
<1>1. /\ b \in Nat /\ h * Pow2(b) \in Nat /\ (b > 0 => h * Pow2(b) <= v)
      /\ c \in Nat /\ h * Pow2(c) \in Nat /\ u < 2 * (h * Pow2(c))
  BY OctaveIs
<1>2. h \in Nat
  BY HalfCount
<1>3. ASSUME c < b PROVE FALSE
  <2>1. Pow2(c) \in Nat /\ Pow2(b) \in Nat /\ 2 * Pow2(c) <= Pow2(b)
    BY <1>1, <1>3, NextOctave
  <2> HIDE DEF b, c, h
  <2>2. h * (2 * Pow2(c)) <= h * Pow2(b)
    BY <1>2, <2>1, ProductGrows
  <2>3. h * (2 * Pow2(c)) = 2 * (h * Pow2(c))
    BY <1>2, <2>1
  <2>4. QED
    BY <1>1, <1>3, <2>2, <2>3
<1>4. QED
  BY <1>1, <1>3

(***************************************************************************)
(* record() never writes past the array.                                   *)
(***************************************************************************)
LEMMA IndexInBucket == \A v \in Trackable : counts_index(v) \in Bucket
<1> SUFFICES ASSUME NEW v \in Trackable PROVE counts_index(v) \in Bucket
  OBVIOUS
<1> DEFINE h == kSubBucketHalfCount
           b == Octave(v)
           s == v \div Pow2(b)
           c == Octave(HighestTrackable)
<1>1. v \in Nat /\ v <= HighestTrackable /\ HighestTrackable \in Nat
  BY Constants DEF Trackable
<1>2. h \in Nat /\ h > 0
  BY HalfCount
<1>3. b \in Nat /\ s \in Nat /\ s < 2 * h /\ counts_index(v) = b * h + s
  BY <1>1, IndexIs
<1>4. c \in Nat /\ b <= c
  BY <1>1, OctaveIs, OctaveGrows
<1>5. kCountsLen = ((1 + c) + 1) * h
  BY DEF kCountsLen, kBucketCount
<1> HIDE DEF h, b, s, c
<1>6. b * h <= c * h /\ b * h \in Nat /\ c * h \in Nat
  BY <1>2, <1>3, <1>4, ProductGrows
<1>7. ((1 + c) + 1) * h = c * h + 2 * h
  BY <1>2, <1>4
<1>8. counts_index(v) \in 0 .. kCountsLen - 1
  BY <1>2, <1>3, <1>5, <1>6, <1>7
<1>9. QED
  BY <1>8 DEF Bucket

LEMMA BucketType ==
  /\ kCountsLen \in Nat /\ kCountsLen > 0
  /\ \A i \in Bucket : i \in Nat
<1>1. counts_index(0) \in Bucket
  BY IndexInBucket, Constants DEF Trackable
<1>2. Octave(HighestTrackable) \in Nat
  BY Constants, OctaveIs
<1>3. kCountsLen \in Nat
  BY <1>2, HalfCount DEF kCountsLen, kBucketCount
<1>4. QED
  BY <1>1, <1>3 DEF Bucket

(***************************************************************************)
(* An index from half on has one octave and one sub-bucket.                *)
(***************************************************************************)
LEMMA IndexUnique ==
  ASSUME NEW b \in Nat, NEW s \in Nat, s < 2 * kSubBucketHalfCount,
         b > 0 => kSubBucketHalfCount <= s,
         NEW c \in Nat, NEW t \in Nat, t < 2 * kSubBucketHalfCount,
         kSubBucketHalfCount <= t,
         b * kSubBucketHalfCount + s = c * kSubBucketHalfCount + t
  PROVE  b = c /\ s = t
<1> DEFINE h == kSubBucketHalfCount
<1>1. h \in Nat /\ b * h \in Nat /\ c * h \in Nat
  BY HalfCount
<1>2. ASSUME b < c PROVE FALSE
  <2>1. b * h + h <= c * h
    BY <1>2, NextOctave
  <2> HIDE DEF h
  <2>2. QED
    BY <1>1, <2>1 DEF h
<1>3. ASSUME c < b PROVE FALSE
  <2>1. c * h + h <= b * h
    BY <1>3, NextOctave
  <2>2. QED
    BY <1>1, <1>3, <2>1
<1>4. QED
  BY <1>1, <1>2, <1>3

(***************************************************************************)
(* Buckets and their ends: a value is in bucket i or before it exactly if  *)
(* it is at most the value that highest_equivalent_value(i) reports.       *)
(***************************************************************************)
LEMMA BucketEnds ==
  ASSUME NEW v \in Nat, NEW i \in Nat
  PROVE  counts_index(v) <= i <=> v <= highest_equivalent_value(i)
<1> DEFINE h == kSubBucketHalfCount
           b == Octave(v)
           p == Pow2(b)
           s == v \div p
           x == counts_index(v)
<1>1. h \in Nat /\ h > 0
  BY HalfCount
<1>2. /\ b \in Nat /\ s \in Nat /\ s < 2 * h /\ (b > 0 => h <= s)
      /\ x = b * h + s /\ p * s <= v /\ v < p * s + p
  BY IndexIs
<1>3. p \in Nat /\ p > 0 /\ h * p \in Nat /\ v < 2 * (h * p) /\ (b > 0 => h * p <= v)
  BY OctaveIs
<1>4. ASSUME NEW c \in Nat, b < c
      PROVE  Pow2(c) \in Nat /\ 2 * p <= Pow2(c) /\ b * h + h <= c * h
  BY <1>2, <1>4, NextOctave
<1>5. ASSUME NEW c \in Nat, c < b
      PROVE  Pow2(c) \in Nat /\ 2 * Pow2(c) <= p /\ c * h + h <= b * h
  BY <1>2, <1>5, NextOctave
<1>6. b = 0 => p = 1
  BY Pow2Step
<1> HIDE DEF h, b, p, s, x
<1>7. b * h \in Nat /\ p * s \in Nat
  BY <1>1, <1>2, <1>3
<1>8. CASE i < h
  <2>1. highest_equivalent_value(i) = i
    BY <1>8, TopIs DEF h
  <2>2. CASE b = 0
    <3>1. p * s = s /\ b * h = 0
      BY <1>1, <1>2, <1>6, <2>2
    <3>2. x = v
      BY <1>2, <1>6, <2>2, <3>1
    <3>3. QED
      BY <2>1, <3>2 DEF x
  <2>3. CASE b # 0
    <3>1. h <= x
      BY <1>1, <1>2, <1>7, <2>3
    <3>2. 1 * h <= p * h /\ p * h = h * p
      BY <1>1, <1>3, ProductGrows
    <3>3. h <= v
      BY <1>1, <1>2, <1>3, <2>3, <3>2
    <3>4. ~(x <= i) /\ ~(v <= i)
      BY <1>1, <1>2, <1>7, <1>8, <3>1, <3>3
    <3>5. QED
      BY <2>1, <3>4 DEF x
  <2>4. QED
    BY <2>2, <2>3
<1>9. CASE h <= i
  <2>1. PICK c \in Nat, t \in Nat :
          /\ h <= t /\ t < 2 * h /\ i = c * h + t
          /\ highest_equivalent_value(i) = (t + 1) * Pow2(c) - 1
    BY <1>9, TopIs DEF h
  <2>2. Pow2(c) \in Nat /\ c * h \in Nat
    BY <1>1, Pow2Type
  <2>3. (t + 1) * Pow2(c) \in Nat
    BY <2>1, <2>2
  <2>4. v <= highest_equivalent_value(i) <=> v < (t + 1) * Pow2(c)
    BY <2>1, <2>3
  <2>5. x <= i <=> v < (t + 1) * Pow2(c)
    <3>1. CASE b = c
      <4>1. CASE s <= t
        <5>1. (s + 1) * p <= (t + 1) * p /\ (s + 1) * p = p * s + p
          BY <1>2, <1>3, <2>1, <4>1, ProductGrows
        <5>2. v < (t + 1) * p
          BY <1>2, <1>3, <1>7, <5>1
        <5>3. x <= i
          BY <1>2, <1>7, <2>1, <3>1, <4>1
        <5>4. QED
          BY <3>1, <5>2, <5>3 DEF p
      <4>2. CASE ~(s <= t)
        <5>1. t + 1 <= s
          BY <1>2, <2>1, <4>2
        <5>2. (t + 1) * p <= s * p /\ s * p = p * s /\ (t + 1) * p \in Nat
          BY <1>2, <1>3, <2>1, <5>1, ProductGrows
        <5>3. ~(v < (t + 1) * p)
          BY <1>2, <1>7, <5>2
        <5>4. ~(x <= i)
          BY <1>2, <1>7, <2>1, <3>1, <4>2
        <5>5. QED
          BY <3>1, <5>3, <5>4 DEF p
      <4>3. QED
        BY <4>1, <4>2
    <3>2. CASE b < c
      <4>1. Pow2(c) \in Nat /\ 2 * p <= Pow2(c) /\ b * h + h <= c * h
        BY <1>4, <3>2
      <4>2. x <= i
        BY <1>1, <1>2, <1>7, <2>1, <2>2, <4>1
      <4>3. h * (2 * p) <= h * Pow2(c) /\ h * (2 * p) = 2 * (h * p)
        <5>1. 2 * p \in Nat
          BY <1>3
        <5>2. h * (2 * p) <= h * Pow2(c)
          BY <1>1, <4>1, <5>1, ProductGrows
        <5>3. QED
          BY <1>1, <1>3, <5>2
      <4>4. h * Pow2(c) <= (t + 1) * Pow2(c) /\ h * Pow2(c) \in Nat
        BY <1>1, <2>1, <2>2, ProductGrows
      <4>5. v < (t + 1) * Pow2(c)
        BY <1>3, <2>3, <4>3, <4>4
      <4>6. QED
        BY <4>2, <4>5
    <3>3. CASE c < b
      <4>1. Pow2(c) \in Nat /\ 2 * Pow2(c) <= p /\ c * h + h <= b * h
        BY <1>5, <3>3
      <4>2. ~(x <= i)
        BY <1>1, <1>2, <1>7, <2>1, <2>2, <3>3, <4>1
      <4>3. h * (2 * Pow2(c)) <= h * p /\ h * (2 * Pow2(c)) = (2 * h) * Pow2(c)
        <5>1. 2 * Pow2(c) \in Nat
          BY <4>1
        <5>2. h * (2 * Pow2(c)) <= h * p
          BY <1>1, <1>3, <4>1, <5>1, ProductGrows
        <5>3. QED
          BY <1>1, <2>2, <5>2
      <4>4. (t + 1) * Pow2(c) <= (2 * h) * Pow2(c) /\ (2 * h) * Pow2(c) \in Nat
        <5>1. t + 1 \in Nat /\ 2 * h \in Nat /\ t + 1 <= 2 * h
          BY <1>1, <2>1
        <5>2. QED
          BY <2>2, <5>1, ProductGrows
      <4>5. ~(v < (t + 1) * Pow2(c))
        BY <1>2, <1>3, <2>3, <3>3, <4>3, <4>4
      <4>6. QED
        BY <4>2, <4>5
    <3>4. QED
      BY <1>2, <3>1, <3>2, <3>3
  <2>6. QED
    BY <2>4, <2>5 DEF x
<1>10. QED
  BY <1>1, <1>8, <1>9

(***************************************************************************)
(* The value reported for a bucket exceeds a value in it by at most        *)
(* 2^-PrecisionBits of that value.                                         *)
(***************************************************************************)
LEMMA BucketError ==
  ASSUME NEW v \in Nat
  PROVE  LET top == highest_equivalent_value(counts_index(v))
         IN  top \in Nat /\ v <= top /\ (top - v) * Pow2(PrecisionBits) <= v
<1> DEFINE h == kSubBucketHalfCount
           b == Octave(v)
           p == Pow2(b)
           s == v \div p
           x == counts_index(v)
           top == highest_equivalent_value(x)
<1>1. h \in Nat /\ h > 0
  BY HalfCount
<1>2. /\ b \in Nat /\ s \in Nat /\ s < 2 * h /\ (b > 0 => h <= s)
      /\ x = b * h + s /\ p * s <= v /\ v < p * s + p
  BY IndexIs
<1>3. p \in Nat /\ p > 0 /\ h * p \in Nat /\ (b > 0 => h * p <= v)
  BY OctaveIs
<1>4. b = 0 => p = 1
  BY Pow2Step
<1>5. x \in Nat
  <2> HIDE DEF h, b, p, s, x
  <2> QED BY <1>1, <1>2
<1>6. v <= top
  BY <1>2, <1>5, BucketEnds
<1>7. CASE x < h
  <2>1. top = x
    BY <1>5, <1>7, TopIs
  <2> HIDE DEF h, b, p, s, x, top
  <2>2. b * h \in Nat /\ p * s \in Nat
    BY <1>1, <1>2, <1>3
  <2>3. b = 0
    BY <1>1, <1>2, <1>7, <2>2
  <2>4. b * h = 0 /\ p * s = s
    BY <1>1, <1>2, <1>4, <2>3
  <2>5. top = v
    BY <1>2, <1>4, <2>1, <2>3, <2>4
  <2>6. (top - v) * h = 0
    BY <1>1, <2>5
  <2>7. (top - v) * Pow2(PrecisionBits) = 0
    BY <2>6 DEF h, kSubBucketHalfCount
  <2>8. QED
    BY <2>5, <2>7 DEF top, x
<1>8. CASE h <= x
  <2>1. PICK c \in Nat, t \in Nat : /\ h <= t /\ t < 2 * h /\ x = c * h + t
                                    /\ top = (t + 1) * Pow2(c) - 1
    BY <1>5, <1>8, TopIs
  <2>2. b = c /\ s = t
    BY <1>2, <2>1, IndexUnique
  <2>3. top = (s + 1) * p - 1
    BY <2>1, <2>2
  <2> HIDE DEF h, b, p, s, x, top
  <2>4. (s + 1) * p = p * s + p /\ p * s \in Nat
    BY <1>2, <1>3
  <2>5. top \in Nat /\ top - v \in Nat /\ top - v <= p - 1
    BY <1>2, <1>3, <1>6, <2>3, <2>4
  <2>6. (top - v) * h <= (p - 1) * h
    BY <1>1, <1>3, <2>5, ProductGrows
  <2>7. (p - 1) * h = h * p - h /\ (top - v) * h \in Nat
    BY <1>1, <1>3, <2>5
  <2>8. (top - v) * h <= v
    <3>1. CASE b > 0
      BY <1>1, <1>3, <2>6, <2>7, <3>1
    <3>2. CASE b = 0
      <4>1. top - v = 0
        BY <1>4, <2>5, <3>2
      <4>2. QED
        BY <1>1, <4>1
    <3>3. QED
      BY <1>2, <3>1, <3>2
  <2>9. QED
    BY <1>6, <2>5, <2>8 DEF h, top, x, kSubBucketHalfCount
<1>9. QED
  BY <1>1, <1>5, <1>7, <1>8
-----------------------------------------------------------------------------
(***************************************************************************)
(* The invariant, histogram by histogram: FitsAt(h) is what HistIInv says  *)
(* of one histogram, of its fields.                                        *)
(***************************************************************************)

SeenIn(sa) == { v \in Trackable : sa[v] # 0 }
Weighted(sa) == [v \in Trackable |-> v * sa[v]]

\* What HistIInv says of one histogram.
FieldTypes(c, t, sm, mx, mn, sa) ==
  /\ c \in [Bucket -> 0 .. MaxSamples] /\ t \in 0 .. MaxSamples
  /\ sm \in 0 .. MaxSamples * HighestTrackable
  /\ mx \in 0 .. HighestTrackable /\ mn \in 0 .. HighestTrackable \cup {MaxU64}
  /\ sa \in [Trackable -> 0 .. MaxSamples]
CountsFit(c, t, sa) ==
  /\ t = UpTo(sa, HighestTrackable)
  /\ \A i \in Bucket : UpTo(c, i) = UpTo(sa, Clamp(highest_equivalent_value(i)))
  /\ \A i \in Bucket : c[i] <= t
SumFits(t, sm, sa) ==
  /\ sm = UpTo(Weighted(sa), HighestTrackable)
  /\ sm <= t * HighestTrackable
ExtremesFit(mx, mn, sa) ==
  /\ SeenIn(sa) = {} => mn = MaxU64 /\ mx = 0
  /\ SeenIn(sa) # {} => mn \in SeenIn(sa) /\ mx \in SeenIn(sa)
  /\ \A v \in SeenIn(sa) : mn <= v /\ v <= mx
Fits(c, t, sm, mx, mn, sa) ==
  /\ FieldTypes(c, t, sm, mx, mn, sa)
  /\ CountsFit(c, t, sa) /\ SumFits(t, sm, sa) /\ ExtremesFit(mx, mn, sa)

LEMMA ClampTracks ==
  /\ \A raw \in Nat : Clamp(raw) \in Trackable
  /\ \A v \in Trackable, top \in Nat : v <= Clamp(top) <=> v <= top
  /\ \A v \in Trackable : v \in Nat /\ v <= HighestTrackable /\ v \in 0 .. HighestTrackable
  /\ HighestTrackable \in Trackable
  BY Constants DEF Clamp, Trackable

LEMMA TopType == \A i \in Bucket : /\ highest_equivalent_value(i) \in Nat
                                   /\ Clamp(highest_equivalent_value(i)) \in Trackable
<1> SUFFICES ASSUME NEW i \in Bucket
             PROVE  highest_equivalent_value(i) \in Nat
  BY ClampTracks
<1>1. i \in Nat
  BY BucketType
<1>2. CASE i < kSubBucketHalfCount
  BY <1>1, <1>2, TopIs
<1>3. CASE kSubBucketHalfCount <= i
  <2>1. PICK c \in Nat, t \in Nat : highest_equivalent_value(i) = (t + 1) * Pow2(c) - 1
    BY <1>1, <1>3, TopIs
  <2>2. Pow2(c) \in Nat /\ Pow2(c) > 0
    BY Pow2Type
  <2>3. 1 * Pow2(c) <= (t + 1) * Pow2(c) /\ (t + 1) * Pow2(c) \in Nat
    BY <2>2, ProductGrows
  <2>4. QED
    BY <2>1, <2>2, <2>3
<1>4. QED
  BY <1>1, <1>2, <1>3, HalfCount

LEMMA CountsAreNats ==
  ASSUME NEW c, NEW t, NEW sm, NEW mx, NEW mn, NEW sa, FieldTypes(c, t, sm, mx, mn, sa)
  PROVE  /\ \A i \in 0 .. kCountsLen - 1 : c[i] \in Nat
         /\ \A v \in 0 .. HighestTrackable : sa[v] \in Nat
         /\ t \in Nat /\ sm \in Nat /\ mx \in Nat /\ mn \in Nat
<1>1. MaxSamples * HighestTrackable \in Nat
  BY Constants
<1>2. QED
  BY <1>1, Constants DEF FieldTypes, Bucket, Trackable

(***************************************************************************)
(* Something has been recorded exactly if some value has been.             *)
(***************************************************************************)
LEMMA SeenSome ==
  ASSUME NEW sa, \A v \in 0 .. HighestTrackable : sa[v] \in Nat
  PROVE  UpTo(sa, HighestTrackable) # 0 <=> SeenIn(sa) # {}
<1>1. HighestTrackable \in Nat /\ HighestTrackable \in 0 .. HighestTrackable
  BY Constants
<1>2. ASSUME SeenIn(sa) = {} PROVE UpTo(sa, HighestTrackable) = 0
  <2>1. \A v \in 0 .. HighestTrackable : sa[v] = 0
    BY <1>2 DEF SeenIn, Trackable
  <2>2. QED
    BY <1>1, <2>1, UpToZero
<1>3. ASSUME SeenIn(sa) # {} PROVE UpTo(sa, HighestTrackable) # 0
  <2>1. PICK v \in 0 .. HighestTrackable : sa[v] # 0
    BY <1>3 DEF SeenIn, Trackable
  <2>2. sa[v] <= UpTo(sa, HighestTrackable) /\ UpTo(sa, HighestTrackable) \in Nat
    BY <1>1, UpToAtLeast, UpToType
  <2>3. QED
    BY <2>1, <2>2
<1>4. QED
  BY <1>2, <1>3

LEMMA EmptyFits ==
  Fits([i \in Bucket |-> 0], 0, 0, 0, MaxU64, [v \in Trackable |-> 0])
<1> DEFINE c == [i \in Bucket |-> 0]
           sa == [v \in Trackable |-> 0]
<1>1. FieldTypes(c, 0, 0, 0, MaxU64, sa)
  <2>1. MaxSamples * HighestTrackable \in Nat
    BY Constants
  <2>2. QED
    BY <2>1, Constants DEF FieldTypes
<1>2. /\ \A v \in 0 .. HighestTrackable : sa[v] = 0
      /\ \A i \in 0 .. kCountsLen - 1 : c[i] = 0
      /\ \A v \in 0 .. HighestTrackable : Weighted(sa)[v] = 0
  BY Constants DEF Weighted, Bucket, Trackable
<1> HIDE DEF c, sa
<1>3. /\ \A v \in 0 .. HighestTrackable : UpTo(sa, v) = 0
      /\ \A v \in 0 .. HighestTrackable : UpTo(Weighted(sa), v) = 0
  BY <1>2, Constants, UpToZero
<1>4. \A i \in 0 .. kCountsLen - 1 : UpTo(c, i) = 0
  <2>1. kCountsLen - 1 \in Nat
    BY BucketType
  <2>2. QED
    BY <1>2, <2>1, UpToZero
<1>5. CountsFit(c, 0, sa)
  BY <1>2, <1>3, <1>4, TopType, Constants DEF CountsFit, Bucket, Trackable
<1>6. SumFits(0, 0, sa)
  BY <1>3, Constants DEF SumFits
<1>7. ExtremesFit(0, MaxU64, sa)
  <2>1. SeenIn(sa) = {}
    BY <1>2 DEF SeenIn, Trackable
  <2>2. QED
    BY <2>1 DEF ExtremesFit
<1>8. QED
  BY <1>1, <1>5, <1>6, <1>7 DEF Fits, c, sa

(***************************************************************************)
(* record_n(): n more at v.  The bucket's sums and the samples' sums go up *)
(* together, by BucketEnds.                                                *)
(***************************************************************************)
LEMMA RecordFits ==
  ASSUME NEW c, NEW t, NEW sm, NEW mx, NEW mn, NEW sa, Fits(c, t, sm, mx, mn, sa),
         NEW v \in 0 .. HighestTrackable, NEW n \in Nat, n > 0, t + n <= MaxSamples
  PROVE  Fits([c EXCEPT ![counts_index(v)] = @ + n], t + n, sm + v * n,
              IF v > mx THEN v ELSE mx, IF v < mn THEN v ELSE mn,
              [sa EXCEPT ![v] = @ + n])
<1> DEFINE x == counts_index(v)
           c2 == [c EXCEPT ![x] = @ + n]
           sa2 == [sa EXCEPT ![v] = @ + n]
           sm2 == sm + v * n
           mx2 == IF v > mx THEN v ELSE mx
           mn2 == IF v < mn THEN v ELSE mn
<1>1. /\ \A i \in 0 .. kCountsLen - 1 : c[i] \in Nat
      /\ \A w \in 0 .. HighestTrackable : sa[w] \in Nat
      /\ t \in Nat /\ sm \in Nat /\ mx \in Nat /\ mn \in Nat
  BY CountsAreNats DEF Fits
<1>2. FieldTypes(c, t, sm, mx, mn, sa) /\ CountsFit(c, t, sa) /\ SumFits(t, sm, sa) /\ ExtremesFit(mx, mn, sa)
  BY DEF Fits
<1>3. v \in Nat /\ v <= HighestTrackable /\ v \in Trackable
  BY Constants DEF Trackable
<1>4. x \in Bucket /\ x \in 0 .. kCountsLen - 1
  BY <1>3, IndexInBucket DEF Bucket
<1>5. v * n \in Nat /\ v * n <= n * HighestTrackable
  BY <1>3, Constants, ProductGrows
<1>6. /\ t \in 0 .. MaxSamples /\ MaxSamples \in Nat /\ HighestTrackable \in Nat
      /\ c \in [Bucket -> 0 .. MaxSamples] /\ sa \in [Trackable -> 0 .. MaxSamples]
      /\ mx \in 0 .. HighestTrackable /\ mn \in 0 .. HighestTrackable \cup {MaxU64}
  BY <1>2, Constants DEF FieldTypes
<1>7. /\ c2 = [i \in Bucket |-> IF i = x THEN c[i] + n ELSE c[i]]
      /\ sa2 = [w \in Trackable |-> IF w = v THEN sa[w] + n ELSE sa[w]]
  BY <1>6
<1> HIDE DEF x, c2, sa2, sm2, mx2, mn2
<1>8. /\ \A i \in 0 .. kCountsLen - 1 : c2[i] = IF i = x THEN c[i] + n ELSE c[i]
      /\ \A w \in 0 .. HighestTrackable : sa2[w] = IF w = v THEN sa[w] + n ELSE sa[w]
  BY <1>7 DEF Bucket, Trackable
<1>9. /\ \A w \in 0 .. HighestTrackable : sa[w] <= t /\ UpTo(sa, w) \in Nat
      /\ \A i \in Bucket : c[i] <= t
  <2>1. HighestTrackable \in 0 .. HighestTrackable /\ t = UpTo(sa, HighestTrackable)
    BY <1>2, <1>6 DEF CountsFit
  <2>2. \A w \in 0 .. HighestTrackable : UpTo(sa, w) \in Nat
    BY <1>1, <1>6, UpToType
  <2>3. ASSUME NEW w \in 0 .. HighestTrackable PROVE sa[w] <= t
    <3>1. w <= HighestTrackable
      OBVIOUS
    <3>2. QED
      BY <1>1, <1>6, <2>1, <3>1, UpToAtLeast
  <2>4. QED
    BY <1>2, <2>2, <2>3 DEF CountsFit
<1>10. t + n \in 0 .. MaxSamples
  BY <1>1
<1>11. CountsFit(c2, t + n, sa2)
  <2>1. \A k \in 0 .. HighestTrackable : UpTo(sa2, k) = UpTo(sa, k) + (IF v <= k THEN n ELSE 0)
    <3>1. Raised(HighestTrackable, sa, sa2, v, n)
      BY <1>1, <1>8 DEF Raised
    <3>2. SumsRaised(HighestTrackable, sa, sa2, v, n)
      BY <1>6, <3>1, UpToRecord, Zenon
    <3>3. QED
      BY <3>2 DEF SumsRaised
  <2>2. \A i \in 0 .. kCountsLen - 1 : UpTo(c2, i) = UpTo(c, i) + (IF x <= i THEN n ELSE 0)
    <3>1. kCountsLen - 1 \in Nat
      BY BucketType
    <3>2. Raised(kCountsLen - 1, c, c2, x, n)
      BY <1>1, <1>8 DEF Raised
    <3>3. SumsRaised(kCountsLen - 1, c, c2, x, n)
      BY <1>4, <3>1, <3>2, UpToRecord, Zenon
    <3>4. QED
      BY <3>3 DEF SumsRaised
  <2>3. t + n = UpTo(sa2, HighestTrackable)
    <3>1. HighestTrackable \in 0 .. HighestTrackable
      BY <1>6
    <3>2. t = UpTo(sa, HighestTrackable)
      BY <1>2 DEF CountsFit
    <3>3. QED
      BY <1>3, <2>1, <3>1, <3>2
  <2>4. ASSUME NEW i \in Bucket
        PROVE  UpTo(c2, i) = UpTo(sa2, Clamp(highest_equivalent_value(i)))
    <3> DEFINE top == highest_equivalent_value(i)
    <3>1. i \in Nat /\ i \in 0 .. kCountsLen - 1
      BY BucketType DEF Bucket
    <3>2. top \in Nat /\ Clamp(top) \in 0 .. HighestTrackable
      BY TopType DEF Trackable
    <3>3. x <= i <=> v <= Clamp(top)
      BY <1>3, <3>1, <3>2, BucketEnds, ClampTracks DEF x
    <3>4. UpTo(c, i) = UpTo(sa, Clamp(top))
      BY <1>2 DEF CountsFit
    <3>5. QED
      BY <2>1, <2>2, <3>1, <3>2, <3>3, <3>4
  <2>5. ASSUME NEW i \in Bucket PROVE c2[i] <= t + n
    <3>1. i \in 0 .. kCountsLen - 1
      BY DEF Bucket
    <3>2. c[i] <= t /\ c[i] \in Nat /\ c2[i] = IF i = x THEN c[i] + n ELSE c[i]
      BY <1>1, <1>8, <1>9, <3>1
    <3>3. QED
      BY <1>1, <3>2
  <2>6. QED
    BY <2>3, <2>4, <2>5 DEF CountsFit
<1>12. SumFits(t + n, sm2, sa2)
  <2>1. \A w \in 0 .. HighestTrackable :
          /\ Weighted(sa)[w] = w * sa[w] /\ Weighted(sa2)[w] = w * sa2[w]
          /\ Weighted(sa)[w] \in Nat
    BY <1>1 DEF Weighted, Trackable
  <2>2. ASSUME NEW w \in 0 .. HighestTrackable
        PROVE  Weighted(sa2)[w] = IF w = v THEN Weighted(sa)[w] + v * n ELSE Weighted(sa)[w]
    <3>1. sa[w] \in Nat /\ w \in Nat
      BY <1>1
    <3>2. CASE w = v
      <4>1. sa2[w] = sa[w] + n
        BY <1>8, <3>2
      <4>2. w * sa2[w] = w * sa[w] + w * n
        BY <3>1, <4>1
      <4>3. QED
        BY <2>1, <3>2, <4>2
    <3>3. CASE w # v
      BY <1>8, <2>1, <3>3
    <3>4. QED
      BY <3>2, <3>3
  <2>3. \A w \in 0 .. HighestTrackable :
          UpTo(Weighted(sa2), w) = UpTo(Weighted(sa), w) + (IF v <= w THEN v * n ELSE 0)
    <3>1. Raised(HighestTrackable, Weighted(sa), Weighted(sa2), v, v * n)
      BY <2>1, <2>2 DEF Raised
    <3>2. SumsRaised(HighestTrackable, Weighted(sa), Weighted(sa2), v, v * n)
      BY <1>5, <1>6, <3>1, UpToRecord, Zenon
    <3>3. QED
      BY <3>2 DEF SumsRaised
  <2>4. sm = UpTo(Weighted(sa), HighestTrackable) /\ sm <= t * HighestTrackable
    BY <1>2 DEF SumFits
  <2>5. HighestTrackable \in 0 .. HighestTrackable
    BY <1>6
  <2>6. sm2 = UpTo(Weighted(sa2), HighestTrackable)
    BY <1>3, <2>3, <2>4, <2>5 DEF sm2
  <2>7. (t + n) * HighestTrackable = t * HighestTrackable + n * HighestTrackable
        /\ t * HighestTrackable \in Nat /\ n * HighestTrackable \in Nat
    BY <1>1, <1>6
  <2>8. sm2 <= (t + n) * HighestTrackable
    BY <1>1, <1>5, <2>4, <2>7 DEF sm2
  <2>9. QED
    BY <2>6, <2>8 DEF SumFits
<1>13. FieldTypes(c2, t + n, sm2, mx2, mn2, sa2)
  <2>1. c2 \in [Bucket -> 0 .. MaxSamples]
    <3>1. \A i \in Bucket : c[i] \in Nat /\ c[i] <= t
      BY <1>1, <1>9 DEF Bucket
    <3>2. QED
      BY <1>1, <1>6, <1>7, <3>1
  <2>2. sa2 \in [Trackable -> 0 .. MaxSamples]
    <3>1. \A w \in Trackable : sa[w] \in Nat /\ sa[w] <= t
      BY <1>1, <1>9 DEF Trackable
    <3>2. QED
      BY <1>1, <1>6, <1>7, <3>1
  <2>3. sm2 \in 0 .. MaxSamples * HighestTrackable
    <3>1. sm2 <= (t + n) * HighestTrackable
      BY <1>12 DEF SumFits
    <3>2. (t + n) * HighestTrackable <= MaxSamples * HighestTrackable
          /\ MaxSamples * HighestTrackable \in Nat /\ (t + n) * HighestTrackable \in Nat
      <4>1. t + n \in Nat
        BY <1>1
      <4>2. QED
        BY <1>6, <4>1, ProductGrows
    <3>3. sm2 \in Nat
      BY <1>1, <1>5 DEF sm2
    <3>4. QED
      BY <3>1, <3>2, <3>3
  <2>4. mx2 \in 0 .. HighestTrackable /\ mn2 \in 0 .. HighestTrackable \cup {MaxU64}
    BY <1>3, <1>6 DEF mx2, mn2
  <2>5. QED
    BY <1>10, <2>1, <2>2, <2>3, <2>4 DEF FieldTypes
<1>14. ExtremesFit(mx2, mn2, sa2)
  <2>1. SeenIn(sa2) = SeenIn(sa) \cup {v}
    BY <1>1, <1>3, <1>8 DEF SeenIn, Trackable
  <2>2. \A w \in SeenIn(sa) : w \in Nat
    BY ClampTracks DEF SeenIn
  <2>3. CASE SeenIn(sa) = {}
    <3>1. mn = MaxU64 /\ mx = 0
      BY <1>2, <2>3 DEF ExtremesFit
    <3>2. mn2 = v /\ mx2 = v
      BY <1>3, <3>1, Constants DEF mn2, mx2
    <3>3. QED
      BY <1>3, <2>1, <2>3, <3>2 DEF ExtremesFit
  <2>4. CASE SeenIn(sa) # {}
    <3>1. /\ mn \in SeenIn(sa) /\ mx \in SeenIn(sa)
          /\ \A w \in SeenIn(sa) : mn <= w /\ w <= mx
      BY <1>2, <2>4 DEF ExtremesFit
    <3>2. mn2 \in SeenIn(sa2) /\ mx2 \in SeenIn(sa2)
      BY <2>1, <3>1 DEF mn2, mx2
    <3>3. ASSUME NEW w \in SeenIn(sa2) PROVE mn2 <= w /\ w <= mx2
      BY <1>1, <1>3, <2>1, <2>2, <3>1 DEF mn2, mx2
    <3>4. QED
      BY <3>2, <3>3 DEF ExtremesFit
  <2>5. QED
    BY <2>3, <2>4
<1>15. QED
  BY <1>11, <1>12, <1>13, <1>14 DEF Fits, c2, sa2, sm2, mx2, mn2, x
-----------------------------------------------------------------------------
(***************************************************************************)
(* Merging, and the invariant from its parts.                              *)
(***************************************************************************)

(***************************************************************************)
(* add(): both histograms fit, so does the merged one.  An empty one       *)
(* contributes neither its sentinel nor the zero that min() reports.       *)
(***************************************************************************)
LEMMA MergeFits ==
  ASSUME NEW c, NEW t, NEW sm, NEW mx, NEW mn, NEW sa, Fits(c, t, sm, mx, mn, sa),
         NEW d, NEW u, NEW sn, NEW my, NEW mo, NEW sb, Fits(d, u, sn, my, mo, sb),
         t + u <= MaxSamples
  PROVE  Fits([i \in Bucket |-> c[i] + d[i]], t + u, sm + sn,
              IF my > mx THEN my ELSE mx, IF u # 0 /\ mo < mn THEN mo ELSE mn,
              [v \in Trackable |-> sa[v] + sb[v]])
<1> DEFINE c2 == [i \in Bucket |-> c[i] + d[i]]
           sa2 == [v \in Trackable |-> sa[v] + sb[v]]
           sm2 == sm + sn
           mx2 == IF my > mx THEN my ELSE mx
           mn2 == IF u # 0 /\ mo < mn THEN mo ELSE mn
<1>1. /\ FieldTypes(c, t, sm, mx, mn, sa) /\ FieldTypes(d, u, sn, my, mo, sb)
      /\ CountsFit(c, t, sa) /\ CountsFit(d, u, sb)
      /\ SumFits(t, sm, sa) /\ SumFits(u, sn, sb)
      /\ ExtremesFit(mx, mn, sa) /\ ExtremesFit(my, mo, sb)
  BY DEF Fits
<1>2. /\ \A i \in 0 .. kCountsLen - 1 : c[i] \in Nat /\ d[i] \in Nat
      /\ \A v \in 0 .. HighestTrackable : sa[v] \in Nat /\ sb[v] \in Nat
      /\ t \in Nat /\ sm \in Nat /\ mx \in Nat /\ mn \in Nat
      /\ u \in Nat /\ sn \in Nat /\ my \in Nat /\ mo \in Nat
  BY <1>1, CountsAreNats
<1>3. /\ HighestTrackable \in Nat /\ MaxSamples \in Nat /\ kCountsLen - 1 \in Nat
      /\ HighestTrackable \in 0 .. HighestTrackable
  BY Constants, BucketType
<1>4. /\ mx \in 0 .. HighestTrackable /\ mn \in 0 .. HighestTrackable \cup {MaxU64}
      /\ my \in 0 .. HighestTrackable /\ mo \in 0 .. HighestTrackable \cup {MaxU64}
  BY <1>1 DEF FieldTypes
<1>5. /\ \A i \in 0 .. kCountsLen - 1 : c2[i] = c[i] + d[i]
      /\ \A v \in 0 .. HighestTrackable : sa2[v] = sa[v] + sb[v]
  BY DEF Bucket, Trackable
<1>6. /\ c2 = [i \in Bucket |-> c2[i]] /\ sa2 = [v \in Trackable |-> sa2[v]]
  OBVIOUS
<1> HIDE DEF c2, sa2, sm2, mx2, mn2
<1>7. /\ \A v \in 0 .. HighestTrackable : UpTo(sa2, v) = UpTo(sa, v) + UpTo(sb, v)
      /\ \A i \in 0 .. kCountsLen - 1 : UpTo(c2, i) = UpTo(c, i) + UpTo(d, i)
  <2>1. /\ Merged(HighestTrackable, sa, sb, sa2) /\ Merged(kCountsLen - 1, c, d, c2)
    BY <1>2, <1>5 DEF Merged
  <2>2. SumsMerged(HighestTrackable, sa, sb, sa2) /\ SumsMerged(kCountsLen - 1, c, d, c2)
    BY <1>3, <2>1, UpToAdds, Zenon
  <2>3. QED
    BY <2>2 DEF SumsMerged
<1>8. \A v \in 0 .. HighestTrackable : sa[v] <= t /\ sb[v] <= u
  <2>1. t = UpTo(sa, HighestTrackable) /\ u = UpTo(sb, HighestTrackable)
    BY <1>1 DEF CountsFit
  <2>2. ASSUME NEW v \in 0 .. HighestTrackable PROVE sa[v] <= t /\ sb[v] <= u
    <3>1. v <= HighestTrackable
      BY <1>3
    <3>2. QED
      BY <1>2, <1>3, <2>1, <3>1, UpToAtLeast
  <2>3. QED
    BY <2>2
<1>9. CountsFit(c2, t + u, sa2)
  <2>1. t + u = UpTo(sa2, HighestTrackable)
    BY <1>1, <1>3, <1>7 DEF CountsFit
  <2>2. ASSUME NEW i \in Bucket
        PROVE  UpTo(c2, i) = UpTo(sa2, Clamp(highest_equivalent_value(i)))
    <3>1. i \in 0 .. kCountsLen - 1 /\ Clamp(highest_equivalent_value(i)) \in 0 .. HighestTrackable
      BY TopType DEF Bucket, Trackable
    <3>2. /\ UpTo(c, i) = UpTo(sa, Clamp(highest_equivalent_value(i)))
          /\ UpTo(d, i) = UpTo(sb, Clamp(highest_equivalent_value(i)))
      BY <1>1 DEF CountsFit
    <3>3. QED
      BY <1>7, <3>1, <3>2
  <2>3. ASSUME NEW i \in Bucket PROVE c2[i] <= t + u
    <3>1. i \in 0 .. kCountsLen - 1 /\ c[i] <= t /\ d[i] <= u
      BY <1>1 DEF Bucket, CountsFit
    <3>2. c[i] \in Nat /\ d[i] \in Nat /\ c2[i] = c[i] + d[i]
      BY <1>2, <1>5, <3>1
    <3>3. QED
      BY <1>2, <3>1, <3>2
  <2>4. QED
    BY <2>1, <2>2, <2>3 DEF CountsFit
<1>10. SumFits(t + u, sm2, sa2)
  <2>1. /\ sm = UpTo(Weighted(sa), HighestTrackable) /\ sm <= t * HighestTrackable
        /\ sn = UpTo(Weighted(sb), HighestTrackable) /\ sn <= u * HighestTrackable
    BY <1>1 DEF SumFits
  <2>2. Merged(HighestTrackable, Weighted(sa), Weighted(sb), Weighted(sa2))
    <3>1. ASSUME NEW v \in 0 .. HighestTrackable
          PROVE  /\ Weighted(sa)[v] \in Nat /\ Weighted(sb)[v] \in Nat
                 /\ Weighted(sa2)[v] = Weighted(sa)[v] + Weighted(sb)[v]
      <4>1. v \in Nat /\ sa[v] \in Nat /\ sb[v] \in Nat /\ sa2[v] = sa[v] + sb[v]
        BY <1>2, <1>5
      <4>2. Weighted(sa)[v] = v * sa[v] /\ Weighted(sb)[v] = v * sb[v] /\ Weighted(sa2)[v] = v * sa2[v]
        BY DEF Weighted, Trackable
      <4>3. v * sa2[v] = v * sa[v] + v * sb[v] /\ v * sa[v] \in Nat /\ v * sb[v] \in Nat
        BY <4>1
      <4>4. QED
        BY <4>2, <4>3
    <3>2. QED
      BY <3>1 DEF Merged
  <2>3. SumsMerged(HighestTrackable, Weighted(sa), Weighted(sb), Weighted(sa2))
    BY <1>3, <2>2, UpToAdds, Zenon
  <2>4. sm2 = UpTo(Weighted(sa2), HighestTrackable)
    BY <1>3, <2>1, <2>3 DEF SumsMerged, sm2
  <2>5. (t + u) * HighestTrackable = t * HighestTrackable + u * HighestTrackable
        /\ t * HighestTrackable \in Nat /\ u * HighestTrackable \in Nat
    BY <1>2, <1>3
  <2>6. sm2 <= (t + u) * HighestTrackable
    BY <1>2, <2>1, <2>5 DEF sm2
  <2>7. QED
    BY <2>4, <2>6 DEF SumFits
<1>11. FieldTypes(c2, t + u, sm2, mx2, mn2, sa2)
  <2>1. c2 \in [Bucket -> 0 .. MaxSamples]
    <3>1. \A i \in Bucket : c2[i] \in Nat /\ c2[i] <= t + u
      BY <1>2, <1>5, <1>9 DEF Bucket, CountsFit
    <3>2. \A i \in Bucket : c2[i] \in 0 .. MaxSamples
      BY <1>2, <1>3, <3>1
    <3>3. QED
      BY <1>6, <3>2
  <2>2. sa2 \in [Trackable -> 0 .. MaxSamples]
    <3>1. \A v \in Trackable : sa2[v] \in 0 .. MaxSamples
      BY <1>2, <1>3, <1>5, <1>8 DEF Trackable
    <3>2. QED
      BY <1>6, <3>1
  <2>3. sm2 \in 0 .. MaxSamples * HighestTrackable
    <3>1. sm2 <= (t + u) * HighestTrackable
      BY <1>10 DEF SumFits
    <3>2. (t + u) * HighestTrackable <= MaxSamples * HighestTrackable
          /\ MaxSamples * HighestTrackable \in Nat /\ (t + u) * HighestTrackable \in Nat
      <4>1. t + u \in Nat
        BY <1>2
      <4>2. QED
        BY <1>3, <4>1, ProductGrows
    <3>3. sm2 \in Nat
      BY <1>2 DEF sm2
    <3>4. QED
      BY <3>1, <3>2, <3>3
  <2>4. mx2 \in 0 .. HighestTrackable /\ mn2 \in 0 .. HighestTrackable \cup {MaxU64}
    BY <1>4, Zenon DEF mx2, mn2
  <2>5. t + u \in 0 .. MaxSamples
    BY <1>2, <1>3
  <2>6. QED
    BY <2>1, <2>2, <2>3, <2>4, <2>5 DEF FieldTypes
<1>12. ExtremesFit(mx2, mn2, sa2)
  <2>1. SeenIn(sa2) = SeenIn(sa) \cup SeenIn(sb)
    BY <1>2, <1>5 DEF SeenIn, Trackable
  <2>2. \A v \in SeenIn(sa) \cup SeenIn(sb) : v \in Nat /\ v <= HighestTrackable
    BY ClampTracks DEF SeenIn
  <2>3. u # 0 <=> SeenIn(sb) # {}
    <3>1. u = UpTo(sb, HighestTrackable)
      BY <1>1 DEF CountsFit
    <3>2. QED
      BY <1>2, <3>1, SeenSome
  <2>4. CASE SeenIn(sb) = {}
    <3>1. my = 0 /\ ~(u # 0)
      BY <1>1, <2>3, <2>4 DEF ExtremesFit
    <3>2. mx2 = mx /\ mn2 = mn
      BY <1>2, <3>1 DEF mx2, mn2
    <3>3. SeenIn(sa2) = SeenIn(sa)
      BY <2>1, <2>4
    <3>4. QED
      BY <1>1, <3>2, <3>3 DEF ExtremesFit
  <2>5. CASE SeenIn(sb) # {} /\ SeenIn(sa) = {}
    <3>1. mx = 0 /\ mn = MaxU64 /\ u # 0
      BY <1>1, <2>3, <2>5 DEF ExtremesFit
    <3>2. mo \in SeenIn(sb) /\ my \in SeenIn(sb)
      BY <1>1, <2>5 DEF ExtremesFit
    <3>3. mx2 = my /\ mn2 = mo
      BY <1>2, <2>2, <3>1, <3>2, Constants DEF mx2, mn2
    <3>4. SeenIn(sa2) = SeenIn(sb)
      BY <2>1, <2>5
    <3>5. QED
      BY <1>1, <3>3, <3>4 DEF ExtremesFit
  <2>6. CASE SeenIn(sb) # {} /\ SeenIn(sa) # {}
    <3>1. /\ mn \in SeenIn(sa) /\ mx \in SeenIn(sa) /\ mo \in SeenIn(sb) /\ my \in SeenIn(sb)
          /\ \A v \in SeenIn(sa) : mn <= v /\ v <= mx
          /\ \A v \in SeenIn(sb) : mo <= v /\ v <= my
          /\ u # 0
      BY <1>1, <2>3, <2>6 DEF ExtremesFit
    <3>2. mn2 \in SeenIn(sa2) /\ mx2 \in SeenIn(sa2)
      BY <2>1, <3>1 DEF mn2, mx2
    <3>3. ASSUME NEW v \in SeenIn(sa2) PROVE mn2 <= v /\ v <= mx2
      <4>1. mn2 <= mn /\ mn2 <= mo /\ mx <= mx2 /\ my <= mx2 /\ mn2 \in Nat /\ mx2 \in Nat
        BY <1>2, <3>1 DEF mn2, mx2
      <4>2. v \in Nat /\ (v \in SeenIn(sa) \/ v \in SeenIn(sb))
        BY <2>1, <2>2
      <4>3. QED
        BY <1>2, <3>1, <4>1, <4>2
    <3>4. QED
      BY <3>2, <3>3 DEF ExtremesFit
  <2>7. QED
    BY <2>4, <2>5, <2>6
<1>13. QED
  BY <1>9, <1>10, <1>11, <1>12 DEF Fits, c2, sa2, sm2, mx2, mn2
-----------------------------------------------------------------------------
(* The invariant                                                           *)

FitsAt(h) == Fits(counts[h], total_count[h], sum_ns[h], max_[h], min_[h], samples[h])
Shape ==
  /\ counts = [h \in Hist |-> counts[h]] /\ total_count = [h \in Hist |-> total_count[h]]
  /\ sum_ns = [h \in Hist |-> sum_ns[h]] /\ max_ = [h \in Hist |-> max_[h]]
  /\ min_ = [h \in Hist |-> min_[h]] /\ samples = [h \in Hist |-> samples[h]]

LEMMA SeenIsSeen == \A h : Seen(h) = SeenIn(samples[h])
  BY DEF Seen, SeenIn

LEMMA LeastIsMin ==
  ASSUME NEW S, S \subseteq Nat, NEW m \in S, \A x \in S : m <= x
  PROVE  Min(S) = m
<1>1. \E x \in S : \A y \in S : x <= y
  OBVIOUS
<1>2. Min(S) \in S /\ \A y \in S : Min(S) <= y
  BY <1>1, Zenon DEF Min
<1> DEFINE x == Min(S)
<1> HIDE DEF x
<1>3. x \in S /\ x \in Nat /\ m \in Nat /\ x <= m
  BY <1>2 DEF x
<1>4. x = m
  BY <1>3
<1>5. QED
  BY <1>4 DEF x

LEMMA GreatestIsMax ==
  ASSUME NEW S, S \subseteq Nat, NEW m \in S, \A x \in S : x <= m
  PROVE  Max(S) = m
<1>1. \A x \in S : m >= x
  OBVIOUS
<1>2. Max(S) \in S /\ \A y \in S : Max(S) >= y
  BY <1>1, Zenon DEF Max
<1> DEFINE x == Max(S)
<1> HIDE DEF x
<1>3. x \in S /\ x \in Nat /\ m \in Nat /\ x >= m
  BY <1>2 DEF x
<1>4. x = m
  BY <1>3
<1>5. QED
  BY <1>4 DEF x

LEMMA IInvFromFits ==
  ASSUME Shape, \A h \in Hist : FitsAt(h)
  PROVE  HistIInv
<1>1. HistTypeOK
  <2>1. \A h \in Hist : /\ counts[h] \in [Bucket -> 0 .. MaxSamples]
                        /\ total_count[h] \in 0 .. MaxSamples
                        /\ sum_ns[h] \in 0 .. MaxSamples * HighestTrackable
                        /\ max_[h] \in 0 .. HighestTrackable
                        /\ min_[h] \in 0 .. HighestTrackable \cup {MaxU64}
                        /\ samples[h] \in [Trackable -> 0 .. MaxSamples]
    BY Zenon DEF FitsAt, Fits, FieldTypes
  <2>2. QED
    BY <2>1 DEF Shape, HistTypeOK
<1>2. CountsAreSamples
  BY Zenon DEF FitsAt, Fits, CountsFit, CountsAreSamples
<1>3. Bounded
  BY Zenon DEF FitsAt, Fits, CountsFit, SumFits, Bounded
<1>4. ExtremesSeen
  BY SeenIsSeen, Zenon DEF FitsAt, Fits, ExtremesFit, ExtremesSeen
<1>5. ASSUME NEW h \in Hist
      PROVE  /\ sum_ns[h] = UpTo([v \in Trackable |-> v * samples[h][v]], HighestTrackable)
             /\ Seen(h) = {} => min(h) = 0 /\ max_[h] = 0
             /\ Seen(h) # {} => min(h) = Min(Seen(h)) /\ max_[h] = Max(Seen(h))
  <2>1. sum_ns[h] = UpTo([v \in Trackable |-> v * samples[h][v]], HighestTrackable)
    BY Zenon DEF FitsAt, Fits, SumFits, Weighted
  <2>2. total_count[h] # 0 <=> Seen(h) # {}
    <3>1. \A v \in 0 .. HighestTrackable : samples[h][v] \in Nat
      BY CountsAreNats DEF FitsAt, Fits
    <3>2. total_count[h] = UpTo(samples[h], HighestTrackable)
      BY DEF FitsAt, Fits, CountsFit
    <3>3. QED
      BY <3>1, <3>2, SeenSome, SeenIsSeen
  <2>3. Seen(h) \subseteq Nat
    BY ClampTracks DEF Seen
  <2>4. ASSUME Seen(h) = {} PROVE min(h) = 0 /\ max_[h] = 0
    BY <1>4, <2>2, <2>4 DEF ExtremesSeen, min
  <2>5. ASSUME Seen(h) # {} PROVE min(h) = Min(Seen(h)) /\ max_[h] = Max(Seen(h))
    <3>1. /\ min_[h] \in Seen(h) /\ max_[h] \in Seen(h)
          /\ \A v \in Seen(h) : min_[h] <= v /\ v <= max_[h]
      BY <1>4, <2>5 DEF ExtremesSeen
    <3>2. min(h) = min_[h]
      BY <2>2, <2>5 DEF min
    <3>3. QED
      BY <2>3, <3>1, <3>2, LeastIsMin, GreatestIsMax
  <2>6. QED
    BY <2>1, <2>4, <2>5
<1>6. ExtremesExact
  BY <1>5, Zenon DEF ExtremesExact
<1>7. QED
  BY <1>1, <1>2, <1>3, <1>4, <1>6 DEF HistIInv

LEMMA FitsFromIInv ==
  ASSUME HistIInv
  PROVE  Shape /\ \A h \in Hist : FitsAt(h)
<1>1. HistTypeOK /\ CountsAreSamples /\ Bounded /\ ExtremesSeen /\ ExtremesExact
  BY DEF HistIInv
<1>2. Shape
  BY <1>1 DEF HistTypeOK, Shape
<1>3. ASSUME NEW h \in Hist PROVE FitsAt(h)
  <2>1. FieldTypes(counts[h], total_count[h], sum_ns[h], max_[h], min_[h], samples[h])
    BY <1>1 DEF HistTypeOK, FieldTypes
  <2>2. CountsFit(counts[h], total_count[h], samples[h])
    BY <1>1 DEF CountsAreSamples, Bounded, CountsFit
  <2>3. SumFits(total_count[h], sum_ns[h], samples[h])
    BY <1>1, Zenon DEF ExtremesExact, Bounded, SumFits, Weighted
  <2>4. ExtremesFit(max_[h], min_[h], samples[h])
    BY <1>1, SeenIsSeen, Zenon DEF ExtremesSeen, ExtremesFit
  <2>5. QED
    BY <2>1, <2>2, <2>3, <2>4 DEF FitsAt, Fits
<1>4. QED
  BY <1>2, <1>3
-----------------------------------------------------------------------------
(***************************************************************************)
(* The steps, the percentile and the theorems.                             *)
(***************************************************************************)

LEMMA InitHistIInv == HistInit => HistIInv
<1> SUFFICES ASSUME HistInit PROVE HistIInv
  OBVIOUS
<1>1. Shape
  BY DEF HistInit, Shape
<1>2. ASSUME NEW h \in Hist PROVE FitsAt(h)
  <2>1. /\ counts[h] = [i \in Bucket |-> 0] /\ total_count[h] = 0 /\ sum_ns[h] = 0
        /\ max_[h] = 0 /\ min_[h] = MaxU64 /\ samples[h] = [v \in Trackable |-> 0]
    BY DEF HistInit
  <2>2. QED
    BY <2>1, EmptyFits DEF FitsAt
<1>3. QED
  BY <1>1, <1>2, IInvFromFits

AllFit == Shape /\ \A h \in Hist : FitsAt(h)

LEMMA AllFitNow == AllFit => HistIInv
  BY IInvFromFits DEF AllFit

LEMMA AllFitNext == AllFit' => HistIInv'
  BY AllFitNow, PTL

(***************************************************************************)
(* Each action replaces one histogram h by one that fits.                  *)
(***************************************************************************)
Replaced(h, c, t, sm, mx, mn, sa) ==
  /\ counts' = [counts EXCEPT ![h] = c] /\ total_count' = [total_count EXCEPT ![h] = t]
  /\ sum_ns' = [sum_ns EXCEPT ![h] = sm] /\ max_' = [max_ EXCEPT ![h] = mx]
  /\ min_' = [min_ EXCEPT ![h] = mn] /\ samples' = [samples EXCEPT ![h] = sa]

LEMMA ReplacedFits ==
  ASSUME HistIInv, NEW h \in Hist, NEW c, NEW t, NEW sm, NEW mx, NEW mn, NEW sa,
         Replaced(h, c, t, sm, mx, mn, sa), Fits(c, t, sm, mx, mn, sa)
  PROVE  HistIInv'
<1>1. Shape /\ \A g \in Hist : FitsAt(g)
  BY FitsFromIInv
<1>2. ASSUME NEW g \in Hist
      PROVE  /\ counts'[g] = IF g = h THEN c ELSE counts[g]
             /\ total_count'[g] = IF g = h THEN t ELSE total_count[g]
             /\ sum_ns'[g] = IF g = h THEN sm ELSE sum_ns[g]
             /\ max_'[g] = IF g = h THEN mx ELSE max_[g]
             /\ min_'[g] = IF g = h THEN mn ELSE min_[g]
             /\ samples'[g] = IF g = h THEN sa ELSE samples[g]
  BY <1>1 DEF Shape, Replaced
<1>3. Shape'
  BY <1>1 DEF Shape, Replaced
<1>4. \A g \in Hist : FitsAt(g)'
  <2>1. ASSUME NEW g \in Hist PROVE FitsAt(g)'
    <3>1. CASE g = h
      BY <1>2, <3>1 DEF FitsAt
    <3>2. CASE g # h
      BY <1>1, <1>2, <3>2 DEF FitsAt
    <3>3. QED
      BY <3>1, <3>2
  <2>2. QED
    BY <2>1
<1>5. QED
  BY <1>3, <1>4, AllFitNext, Zenon DEF AllFit

LEMMA RecordStep ==
  ASSUME HistIInv, NEW h \in Hist, NEW raw \in Value, NEW n \in 1 .. 2, record_n(h, raw, n)
  PROVE  HistIInv'
<1> DEFINE v == Clamp(raw)
           c == [counts[h] EXCEPT ![counts_index(v)] = @ + n]
           t == total_count[h] + n
           sm == sum_ns[h] + v * n
           mx == IF v > max_[h] THEN v ELSE max_[h]
           mn == IF v < min_[h] THEN v ELSE min_[h]
           sa == [samples[h] EXCEPT ![v] = @ + n]
<1>1. Shape /\ FitsAt(h)
  BY FitsFromIInv
<1>2. v \in 0 .. HighestTrackable /\ n \in Nat /\ n > 0
  BY HistogramAssumption DEF Clamp
<1>3. t <= MaxSamples
  BY DEF record_n
<1>4. Fits(c, t, sm, mx, mn, sa)
  <2> HIDE DEF v
  <2>1. QED
    BY <1>1, <1>2, <1>3, RecordFits DEF FitsAt
<1>5. Replaced(h, c, t, sm, mx, mn, sa)
  BY <1>1 DEF record_n, Shape, Replaced
<1> HIDE DEF c, t, sm, mx, mn, sa
<1>6. QED
  BY <1>4, <1>5, ReplacedFits

LEMMA AddStep ==
  ASSUME HistIInv, NEW h \in Hist, NEW other \in Hist, add(h, other)
  PROVE  HistIInv'
<1> DEFINE c == [i \in Bucket |-> counts[h][i] + counts[other][i]]
           t == total_count[h] + total_count[other]
           sm == sum_ns[h] + sum_ns[other]
           mx == IF max_[other] > max_[h] THEN max_[other] ELSE max_[h]
           mn == IF total_count[other] # 0 /\ min_[other] < min_[h]
                 THEN min_[other] ELSE min_[h]
           sa == [v \in Trackable |-> samples[h][v] + samples[other][v]]
<1>1. Shape /\ FitsAt(h) /\ FitsAt(other)
  BY FitsFromIInv
<1>2. t <= MaxSamples
  BY DEF add
<1>3. Fits(c, t, sm, mx, mn, sa)
  BY <1>1, <1>2, MergeFits, Zenon DEF FitsAt
<1>4. MergedMin(h, other) = mn
  BY DEF MergedMin, min
<1>5. Replaced(h, c, t, sm, mx, mn, sa)
  BY <1>1, <1>4 DEF add, Shape, Replaced
<1> HIDE DEF c, t, sm, mx, mn, sa
<1>6. QED
  BY <1>3, <1>5, ReplacedFits

LEMMA ResetStep ==
  ASSUME HistIInv, NEW h \in Hist, reset(h)
  PROVE  HistIInv'
<1>1. Replaced(h, [i \in Bucket |-> 0], 0, 0, 0, MaxU64, [v \in Trackable |-> 0])
  BY DEF reset, Replaced
<1>2. QED
  BY <1>1, EmptyFits, ReplacedFits

LEMMA HistStutters == HistIInv /\ UNCHANGED histVars => HistIInv'
<1> SUFFICES ASSUME HistIInv, UNCHANGED histVars PROVE HistIInv'
  OBVIOUS
<1>1. Shape /\ \A g \in Hist : FitsAt(g)
  BY FitsFromIInv
<1>2. Shape' /\ \A g \in Hist : FitsAt(g)'
  BY <1>1 DEF histVars, Shape, FitsAt
<1>3. QED
  BY <1>2, AllFitNext, Zenon DEF AllFit

LEMMA HistInductive == HistSpec => []HistIInv
<1>1. HistIInv /\ [HistNext]_histVars => HistIInv'
  BY RecordStep, AddStep, ResetStep, HistStutters DEF HistNext
<1>2. QED
  BY <1>1, InitHistIInv, PTL DEF HistSpec

(***************************************************************************)
(* The rank is one of the ranks of the sorted samples.                     *)
(***************************************************************************)
LEMMA RankType ==
  ASSUME NEW p \in 0 .. 100, NEW total \in Nat, total > 0
  PROVE  Rank(p, total) \in Nat /\ 1 <= Rank(p, total) /\ Rank(p, total) <= total
<1> DEFINE x == 2 * p * total + 100
           q == x \div 200
<1>1. p * total \in Nat /\ 2 * p * total = 2 * (p * total)
  OBVIOUS
<1>2. p * total <= 100 * total
  BY ProductGrows
<1>3. x \in Nat /\ x <= 200 * total + 100
  BY <1>1, <1>2
<1> HIDE DEF x
<1>4. q \in Nat /\ x % 200 \in Nat /\ x = 200 * q + (x % 200)
  BY <1>3, Divided
<1> HIDE DEF q
<1>5. q <= total
  BY <1>3, <1>4
<1>6. Rank(p, total) = IF q = 0 THEN 1 ELSE q
  BY DEF Rank, q, x
<1>7. QED
  BY <1>4, <1>5, <1>6

(***************************************************************************)
(* percentile() reports the end of the bucket of the exact sample: the     *)
(* first bucket whose sum reaches the rank ends at or beyond the first     *)
(* value whose sum does, and no bucket before it.                          *)
(***************************************************************************)
LEMMA FirstReached ==
  ASSUME NEW c, NEW sa, NEW want \in Nat,
         \A v \in 0 .. HighestTrackable : sa[v] \in Nat,
         want <= UpTo(sa, HighestTrackable),
         \A i \in Bucket : UpTo(c, i) = UpTo(sa, Clamp(highest_equivalent_value(i)))
  PROVE  LET exact == Min({ v \in Trackable : UpTo(sa, v) >= want })
             reached == { i \in Bucket : UpTo(c, i) >= want }
         IN  exact \in Trackable /\ reached # {} /\ Min(reached) = counts_index(exact)
<1> DEFINE enough == { v \in Trackable : UpTo(sa, v) >= want }
           reached == { i \in Bucket : UpTo(c, i) >= want }
<1>1. /\ HighestTrackable \in Nat /\ HighestTrackable \in Trackable
      /\ \A v \in Trackable : v \in 0 .. HighestTrackable /\ v \in Nat
  BY Constants, ClampTracks
<1>2. \A v \in 0 .. HighestTrackable : UpTo(sa, v) \in Nat
  BY <1>1, UpToType
<1>3. HighestTrackable \in enough /\ enough \subseteq Nat
  BY <1>1
<1>4. PICK exact \in enough : \A v \in enough : exact <= v
  <2> HIDE DEF enough
  <2>1. QED
    BY <1>3, LeastNat
<1>5. Min(enough) = exact
  <2> HIDE DEF enough
  <2>1. QED
    BY <1>3, <1>4, LeastIsMin
<1>6. exact \in Trackable /\ exact \in Nat /\ exact \in 0 .. HighestTrackable
      /\ UpTo(sa, exact) >= want
  BY <1>1, <1>4
<1> DEFINE x == counts_index(exact)
<1>7. x \in Bucket
  BY <1>6, IndexInBucket
<1> HIDE DEF x
<1>8. ASSUME NEW i \in Bucket
      PROVE  i \in reached <=> x <= i
  <2> DEFINE top == Clamp(highest_equivalent_value(i))
  <2>1. i \in Nat /\ highest_equivalent_value(i) \in Nat /\ top \in Trackable
    BY BucketType, TopType
  <2>2. x <= i <=> exact <= top
    BY <1>6, <2>1, BucketEnds, ClampTracks DEF x
  <2>3. UpTo(c, i) = UpTo(sa, top)
    OBVIOUS
  <2> HIDE DEF top
  <2>4. top \in 0 .. HighestTrackable /\ top \in Nat
    BY <1>1, <2>1
  <2>5. ASSUME exact <= top PROVE UpTo(sa, top) >= want
    <3>1. UpTo(sa, exact) <= UpTo(sa, top)
      BY <1>1, <1>6, <2>4, <2>5, UpToGrows
    <3>2. QED
      BY <1>2, <1>6, <2>4, <3>1
  <2>6. ASSUME UpTo(sa, top) >= want PROVE exact <= top
    BY <1>4, <2>1, <2>6
  <2>7. QED
    BY <2>2, <2>3, <2>5, <2>6
<1>9. Min(reached) = x /\ reached # {}
  <2>1. reached \subseteq Nat
    BY BucketType
  <2>2. x \in reached /\ \A i \in reached : x <= i
    <3>1. x <= x
      BY <1>7, BucketType
    <3>2. QED
      BY <1>7, <1>8, <3>1
  <2> HIDE DEF reached
  <2>3. QED
    BY <2>1, <2>2, LeastIsMin
<1>10. QED
  BY <1>5, <1>6, <1>9 DEF x

LEMMA ReportWithinError ==
  ASSUME HistIInv, NEW h \in Hist, NEW p \in Percent, total_count[h] # 0
  PROVE  LET exact == ExactAtRank(h, Rank(p, total_count[h]))
             got == percentile(h, p)
         IN  exact <= got /\ (got - exact) * Pow2(PrecisionBits) <= exact
<1> DEFINE want == Rank(p, total_count[h])
           exact == ExactAtRank(h, want)
           reached == { i \in Bucket : UpTo(counts[h], i) >= want }
<1>1. FitsAt(h)
  BY FitsFromIInv
<1>2. /\ total_count[h] \in Nat /\ \A v \in 0 .. HighestTrackable : samples[h][v] \in Nat
  BY <1>1, CountsAreNats DEF FitsAt, Fits
<1>3. /\ total_count[h] = UpTo(samples[h], HighestTrackable)
      /\ \A i \in Bucket :
           UpTo(counts[h], i) = UpTo(samples[h], Clamp(highest_equivalent_value(i)))
  BY <1>1 DEF FitsAt, Fits, CountsFit
<1>4. want \in Nat /\ want <= UpTo(samples[h], HighestTrackable)
  <2>1. p \in 0 .. 100
    BY HistogramAssumption
  <2>2. total_count[h] > 0
    BY <1>2
  <2>3. QED
    BY <1>2, <1>3, <2>1, <2>2, RankType
<1> HIDE DEF want
<1>5. exact \in Trackable /\ reached # {} /\ Min(reached) = counts_index(exact)
  BY <1>2, <1>3, <1>4, FirstReached DEF ExactAtRank
<1>6. percentile(h, p) = highest_equivalent_value(counts_index(exact))
  BY <1>5 DEF percentile, want
<1> HIDE DEF exact
<1>7. exact \in Nat
  BY <1>5, ClampTracks
<1>8. LET top == highest_equivalent_value(counts_index(exact))
      IN  exact <= top /\ (top - exact) * Pow2(PrecisionBits) <= exact
  BY <1>7, BucketError
<1>9. QED
  BY <1>6, <1>8 DEF exact, want

(***************************************************************************)
(* The fields stay in their ranges: every value finds its bucket inside    *)
(* the array, and the sum stays below the count times the range            *)
(* (histogram.hpp:59-76, 106-124).                                         *)
(***************************************************************************)
THEOREM HistTypeCorrect == HistSpec => []HistTypeOK
<1>1. HistIInv => HistTypeOK
  BY DEF HistIInv
<1>2. QED
  BY <1>1, HistInductive, PTL

(***************************************************************************)
(* The extremes and the sum of a report are those of the samples, after    *)
(* any records, merges and resets (histogram.hpp:59-81, 106-124).         *)
(***************************************************************************)
THEOREM ExtremesAreExact == HistSpec => []ExtremesExact
<1>1. HistIInv => ExtremesExact
  BY DEF HistIInv
<1>2. QED
  BY <1>1, HistInductive, PTL

(***************************************************************************)
(* percentile() is at least the exact nearest-rank sample and beyond it by *)
(* at most 2^-PrecisionBits of it (histogram.hpp:87-88), for every         *)
(* precision and range.                                                    *)
(***************************************************************************)
THEOREM PercentileIsBound == HistSpec => []PercentileWithinError
<1>1. HistIInv => PercentileWithinError
  BY ReportWithinError DEF PercentileWithinError
<1>2. QED
  BY <1>1, HistInductive, PTL
=============================================================================

----------------------------- MODULE ConfigProofs -----------------------------
(***************************************************************************)
(* Proofs about Config: for every text, the parser's stack is what the     *)
(* brackets of the text up to the cursor leave open, so that a text that   *)
(* is accepted is whole, and every step consumes a part of the text; and   *)
(* what is on the stack holds the first member of every key that the text  *)
(* has there, so that find() returns what is written.                      *)
(***************************************************************************)
EXTENDS Config, SequenceTheorems, WellFoundedInduction, TLAPS

\* The least-number principle.
LEMMA LeastNumber ==
  ASSUME NEW T, T \subseteq Nat, T # {}
  PROVE  \E x \in T : \A y \in T : x <= y
<1>1. PICK x \in T : \A y \in T : ~(<< y, x >> \in OpToRel(<, Nat))
  BY NatLessThanWellFounded, WFMin
<1>2. ASSUME NEW y \in T, y < x PROVE FALSE
  <2>1. << y, x >> \in OpToRel(<, Nat)
    BY <1>2, Zenon DEF OpToRel
  <2>2. QED
    BY <1>1, <2>1
<1>3. QED
  BY <1>2
-----------------------------------------------------------------------------
(* The scan of a text                                                      *)

(***************************************************************************)
(* The recursive definition of the scan has a solution.                    *)
(***************************************************************************)
LEMMA ScansExist ==
  ASSUME NEW t, NEW N \in Nat
  PROVE  \E f : f = [k \in 0 .. N |-> IF k = 0 THEN Start ELSE ScanNext(f[k - 1], t[k])]
<1> DEFINE Bad == { k \in Nat : ~ \E f : f = [n \in 0 .. k |-> IF n = 0 THEN Start ELSE ScanNext(f[n - 1], t[n])] }
<1>1. ASSUME Bad # {} PROVE FALSE
  <2>1. PICK k \in Bad : \A j \in Bad : k <= j
    <3>1. Bad \subseteq Nat
      OBVIOUS
    <3> HIDE DEF Bad
    <3> QED BY <1>1, <3>1, LeastNumber
  <2>2. k # 0
    <3> DEFINE g == [n \in 0 .. 0 |-> Start]
    <3>1. g = [n \in 0 .. 0 |-> IF n = 0 THEN Start ELSE ScanNext(g[n - 1], t[n])]
      OBVIOUS
    <3> HIDE DEF g
    <3>2. 0 \notin Bad
      BY <3>1
    <3>3. QED
      BY <2>1, <3>2
  <2>3. k - 1 \in Nat /\ k - 1 \notin Bad
    <3>1. Bad \subseteq Nat
      OBVIOUS
    <3> HIDE DEF Bad
    <3> QED BY <2>1, <2>2, <3>1
  <2>4. PICK f : f = [n \in 0 .. k - 1 |-> IF n = 0 THEN Start ELSE ScanNext(f[n - 1], t[n])]
    BY <2>3
  <2> DEFINE g == [n \in 0 .. k |-> IF n = k THEN ScanNext(f[k - 1], t[k]) ELSE f[n]]
  <2>5. ASSUME NEW n \in 0 .. k PROVE g[n] = IF n = 0 THEN Start ELSE ScanNext(g[n - 1], t[n])
    <3>1. k \in Nat \ {0}
      BY <2>2
    <3>2. CASE n = k
      BY <3>1, <3>2
    <3>3. CASE n # k
      BY <2>4, <3>1, <3>3
    <3>4. QED
      BY <3>2, <3>3
  <2>6. g = [n \in 0 .. k |-> g[n]]
    OBVIOUS
  <2> HIDE DEF g
  <2>7. g = [n \in 0 .. k |-> IF n = 0 THEN Start ELSE ScanNext(g[n - 1], t[n])]
    BY <2>5, <2>6
  <2>8. QED
    BY <2>1, <2>7
<1>2. QED
  BY <1>1

Mode == {"plain", "string", "escape"}

LEMMA ModeAfterType == \A m \in Mode : \A c : ModeAfter(m, c) \in Mode
BY DEF ModeAfter, Mode

LEMMA WeightType == \A c : Weight(c) \in {-1, 0, 1}
BY DEF Weight

LEMMA ScanSteps ==
  ASSUME NEW t, NEW N \in Nat, Len(t) = N
  PROVE  /\ Scan(t)[0] = Start
         /\ \A k \in 1 .. N : Scan(t)[k] = ScanNext(Scan(t)[k - 1], t[k])
<1> DEFINE f == CHOOSE g : g = [k \in 0 .. N |-> IF k = 0 THEN Start ELSE ScanNext(g[k - 1], t[k])]
<1>1. f = [k \in 0 .. N |-> IF k = 0 THEN Start ELSE ScanNext(f[k - 1], t[k])]
  BY ScansExist, Zenon
<1>2. Scan(t) = f
  BY Zenon DEF Scan
<1> HIDE DEF f
<1>3. \A k \in 0 .. N : f[k] = IF k = 0 THEN Start ELSE ScanNext(f[k - 1], t[k])
  BY <1>1, Zenon
<1>4. 0 \in 0 .. N /\ \A k \in 1 .. N : k \in 0 .. N /\ k # 0
  OBVIOUS
<1>5. QED
  BY <1>2, <1>3, <1>4, Zenon

(***************************************************************************)
(* One character further: the mode and the depth.                          *)
(***************************************************************************)
LEMMA OneFurther ==
  ASSUME NEW t \in Seq(Char)
  PROVE  /\ Scan(t)[0].mode = "plain" /\ Depth(t, 0) = 0
         /\ \A k \in 1 .. Len(t) :
              /\ Scan(t)[k].mode = ModeAfter(Scan(t)[k - 1].mode, t[k])
              /\ Depth(t, k) = IF InString(t, k) THEN Depth(t, k - 1)
                               ELSE Depth(t, k - 1) + Weight(t[k])
<1>0. Len(t) \in Nat
  OBVIOUS
<1>1. Scan(t)[0].mode = "plain" /\ Depth(t, 0) = 0
  BY <1>0, ScanSteps DEF Start, Depth
<1>2. ASSUME NEW k \in 1 .. Len(t)
      PROVE  /\ Scan(t)[k].mode = ModeAfter(Scan(t)[k - 1].mode, t[k])
             /\ Depth(t, k) = IF InString(t, k) THEN Depth(t, k - 1)
                              ELSE Depth(t, k - 1) + Weight(t[k])
  <2> DEFINE a == Scan(t)[k - 1]
             m == ModeAfter(a.mode, t[k])
  <2>1. Scan(t)[k] = [mode |-> m, depth |-> IF m = "plain" THEN a.depth + Weight(t[k]) ELSE a.depth]
    BY <1>0, ScanSteps, Zenon DEF ScanNext
  <2> HIDE DEF m
  <2>2. Scan(t)[k].mode = m
    BY <2>1
  <2>3. Scan(t)[k].depth = IF m = "plain" THEN a.depth + Weight(t[k]) ELSE a.depth
    BY <2>1
  <2>4. QED
    BY <2>2, <2>3 DEF m, InString, Depth
<1>3. QED
  BY <1>1, <1>2

LEMMA ScanType ==
  ASSUME NEW t \in Seq(Char)
  PROVE  \A k \in 0 .. Len(t) : Scan(t)[k].mode \in Mode /\ Depth(t, k) \in Int
<1> DEFINE Good(k) == Scan(t)[k].mode \in Mode /\ Depth(t, k) \in Int
           Bad == { k \in 0 .. Len(t) : ~Good(k) }
<1>0. Len(t) \in Nat /\ Bad \subseteq Nat
  OBVIOUS
<1>1. ASSUME Bad # {} PROVE FALSE
  <2>1. PICK k \in Bad : \A j \in Bad : k <= j
    <3> HIDE DEF Bad
    <3> QED BY <1>0, <1>1, LeastNumber
  <2>2. k # 0
    BY <2>1, OneFurther DEF Mode
  <2>3. k \in 1 .. Len(t) /\ k - 1 \in 0 .. Len(t)
    BY <1>0, <2>1, <2>2
  <2>4. Good(k - 1)
    <3>1. k - 1 \notin Bad
      <4> HIDE DEF Bad
      <4> QED BY <1>0, <2>1, <2>3
    <3>2. QED
      BY <2>3, <3>1
  <2>5. Scan(t)[k].mode = ModeAfter(Scan(t)[k - 1].mode, t[k])
        /\ Depth(t, k) = IF InString(t, k) THEN Depth(t, k - 1) ELSE Depth(t, k - 1) + Weight(t[k])
    BY <2>3, OneFurther
  <2>6. Scan(t)[k].mode \in Mode
    BY <2>4, <2>5, ModeAfterType
  <2>7. Depth(t, k) \in Int
    BY <2>4, <2>5, WeightType
  <2>8. QED
    BY <2>1, <2>6, <2>7
<1>2. QED
  BY <1>1

\* Outside of strings, everything but quotes and brackets.
Quiet(c) == c # "quote" /\ c \notin Opens /\ c \notin Closes

LEMMA QuietRun ==
  ASSUME NEW t \in Seq(Char), NEW k \in 0 .. Len(t), NEW m \in k .. Len(t),
         Scan(t)[k].mode = "plain", \A j \in k + 1 .. m : Quiet(t[j])
  PROVE  \A j \in k .. m : Scan(t)[j].mode = "plain" /\ Depth(t, j) = Depth(t, k)
<1> DEFINE Good(j) == Scan(t)[j].mode = "plain" /\ Depth(t, j) = Depth(t, k)
           Bad == { j \in k .. m : ~Good(j) }
<1>0. Len(t) \in Nat /\ Bad \subseteq Nat
  OBVIOUS
<1>1. ASSUME Bad # {} PROVE FALSE
  <2>1. PICK j \in Bad : \A h \in Bad : j <= h
    <3> HIDE DEF Bad
    <3> QED BY <1>0, <1>1, LeastNumber
  <2>2. j # k
    BY <2>1
  <2>3. j \in k + 1 .. m /\ j \in 1 .. Len(t) /\ j - 1 \in k .. m /\ j - 1 \in 0 .. Len(t)
    BY <1>0, <2>1, <2>2
  <2>4. Good(j - 1)
    <3>1. j - 1 \notin Bad
      <4> HIDE DEF Bad
      <4> QED BY <1>0, <2>1, <2>3
    <3>2. QED
      BY <2>3, <3>1
  <2>5. Scan(t)[j].mode = ModeAfter(Scan(t)[j - 1].mode, t[j])
        /\ Depth(t, j) = IF InString(t, j) THEN Depth(t, j - 1) ELSE Depth(t, j - 1) + Weight(t[j])
    BY <2>3, OneFurther
  <2>6. Scan(t)[j].mode = "plain"
    BY <2>3, <2>4, <2>5 DEF ModeAfter, Quiet
  <2>7. Weight(t[j]) = 0 /\ Depth(t, j - 1) \in Int
    BY <2>3, ScanType DEF Weight, Quiet
  <2>8. Depth(t, j) = Depth(t, k)
    BY <2>4, <2>5, <2>6, <2>7 DEF InString
  <2>9. QED
    BY <2>1, <2>6, <2>8
<1>2. QED
  BY <1>1
-----------------------------------------------------------------------------
(* What is left open, a character later                                    *)

\* Positions with the same depth and no bracket leave open what was open.
LEMMA Carry ==
  ASSUME NEW t \in Seq(Char), NEW k \in 0 .. Len(t), NEW m \in k .. Len(t), NEW K,
         Tracks(t, k, K),
         \A j \in k + 1 .. m : /\ j \notin Opening(t) /\ j \notin Closing(t)
                               /\ Depth(t, j) = Depth(t, k)
  PROVE  Tracks(t, m, K)
<1>0. Len(t) \in Nat /\ k \in Nat /\ m \in Nat
  OBVIOUS
<1>1. Depth(t, m) = Depth(t, k)
  BY <1>0
<1>2. ASSUME NEW j \in Opening(t) \cup Closing(t), j <= m PROVE j <= k /\ j \in Nat
  <2>1. j \in 1 .. Len(t)
    BY DEF Opening, Closing
  <2>2. QED
    BY <1>0, <1>2, <2>1
<1>3. ASSUME NEW j \in Opening(t), j <= k, StaysOpen(t, j, k) PROVE StaysOpen(t, j, m)
  <2>1. j \in 1 .. Len(t) /\ k \in j .. k
    BY <1>0, <1>3 DEF Opening
  <2>2. SUFFICES ASSUME NEW h \in j .. m PROVE Depth(t, h) >= Depth(t, j)
    BY DEF StaysOpen
  <2>3. CASE h <= k
    BY <1>0, <1>3, <2>1, <2>3 DEF StaysOpen
  <2>4. CASE ~(h <= k)
    <3>1. Depth(t, h) = Depth(t, k)
      BY <1>0, <2>1, <2>4
    <3>2. Depth(t, k) >= Depth(t, j)
      BY <1>3, <2>1 DEF StaysOpen
    <3>3. QED
      BY <3>1, <3>2
  <2>5. QED
    BY <2>3, <2>4
<1>4. \A j \in Opening(t) \cup Closing(t) : j <= k => j <= m
  <2>1. \A j \in Opening(t) \cup Closing(t) : j \in Nat
    BY DEF Opening, Closing
  <2>2. QED
    BY <1>0, <2>1
<1>5. \A n \in DOMAIN K : \E j \in Opening(t) : j <= m /\ StaysOpen(t, j, m) /\ Depth(t, j) = n
  BY <1>3, <1>4 DEF Tracks
<1>6. ASSUME NEW j \in Opening(t), j <= m
      PROVE  \/ StaysOpen(t, j, m) /\ Depth(t, j) \in DOMAIN K /\ K[Depth(t, j)] = KindOf(t[j])
             \/ \E c \in Closing(t) : c <= m /\ Pairs(t, j, c)
  <2>1. j <= k
    BY <1>2, <1>6
  <2>2. CASE StaysOpen(t, j, k) /\ Depth(t, j) \in DOMAIN K /\ K[Depth(t, j)] = KindOf(t[j])
    BY <1>3, <2>1, <2>2
  <2>3. CASE \E c \in Closing(t) : c <= k /\ Pairs(t, j, c)
    BY <1>4, <2>3
  <2>4. QED
    BY <2>1, <2>2, <2>3 DEF Tracks
<1>7. \A c \in Closing(t) : c <= m => \E j \in Opening(t) : Pairs(t, j, c)
  BY <1>2 DEF Tracks
<1>8. QED
  BY <1>1, <1>5, <1>6, <1>7 DEF Tracks

LEMMA BracketDepth ==
  ASSUME NEW t \in Seq(Char)
  PROVE  /\ \A k \in Opening(t) : Depth(t, k) = Depth(t, k - 1) + 1 /\ k \notin Closing(t)
         /\ \A k \in Closing(t) : Depth(t, k) = Depth(t, k - 1) - 1 /\ k \notin Opening(t)
<1>1. ASSUME NEW k \in 1 .. Len(t)
      PROVE  Depth(t, k) = IF InString(t, k) THEN Depth(t, k - 1)
                           ELSE Depth(t, k - 1) + Weight(t[k])
  BY OneFurther
<1>2. \A k \in 1 .. Len(t) : Depth(t, k - 1) \in Int
  <2>1. \A k \in 1 .. Len(t) : k - 1 \in 0 .. Len(t)
    OBVIOUS
  <2>2. QED
    BY <2>1, ScanType
<1>3. \A k \in Opening(t) : Depth(t, k) = Depth(t, k - 1) + 1 /\ k \notin Closing(t)
  BY <1>1, <1>2 DEF Opening, Closing, Weight, Opens, Closes
<1>4. \A k \in Closing(t) : Depth(t, k) = Depth(t, k - 1) - 1 /\ k \notin Opening(t)
  BY <1>1, <1>2 DEF Opening, Closing, Weight, Opens, Closes
<1>5. QED
  BY <1>3, <1>4

\* An opening bracket is one more.
LEMMA OpenStep ==
  ASSUME NEW t \in Seq(Char), NEW K \in Seq(Kind), NEW k \in Opening(t), Tracks(t, k - 1, K)
  PROVE  Tracks(t, k, Append(K, KindOf(t[k])))
<1> DEFINE L == Append(K, KindOf(t[k]))
<1>0. Len(t) \in Nat /\ k \in 1 .. Len(t) /\ k - 1 \in 0 .. Len(t) /\ Len(K) \in Nat
  BY DEF Opening
<1>1. /\ Len(L) = Len(K) + 1 /\ DOMAIN L = 1 .. Len(K) + 1
      /\ L[Len(K) + 1] = KindOf(t[k])
      /\ DOMAIN K = 1 .. Len(K) /\ \A n \in DOMAIN K : n \in DOMAIN L /\ L[n] = K[n]
  OBVIOUS
<1> HIDE DEF L
<1>2. Depth(t, k - 1) = Len(K) /\ Depth(t, k) = Len(K) + 1 /\ k \notin Closing(t)
  BY BracketDepth DEF Tracks
<1>3. ASSUME NEW j \in Opening(t) \cup Closing(t), j <= k, j # k PROVE j <= k - 1
  <2>1. j \in 1 .. Len(t)
    BY DEF Opening, Closing
  <2>2. QED
    BY <1>0, <1>3, <2>1
<1>4. \A j \in Opening(t) \cup Closing(t) : j <= k - 1 => j <= k
  <2>1. \A j \in Opening(t) \cup Closing(t) : j \in Nat
    BY DEF Opening, Closing
  <2>2. QED
    BY <1>0, <2>1
<1>5. ASSUME NEW j \in Opening(t), j <= k - 1, StaysOpen(t, j, k - 1) PROVE StaysOpen(t, j, k)
  <2>1. j \in 1 .. Len(t) /\ k - 1 \in j .. k - 1 /\ \A h \in j .. k : h \in j .. k - 1 \/ h = k
    BY <1>0, <1>5 DEF Opening
  <2>2. Depth(t, k - 1) >= Depth(t, j)
    BY <1>5, <2>1 DEF StaysOpen
  <2>3. Depth(t, k) >= Depth(t, j)
    <3>1. Depth(t, j) \in Int
      BY <1>0, <2>1, ScanType
    <3>2. QED
      BY <1>0, <1>2, <2>2, <3>1
  <2>4. QED
    BY <1>5, <2>1, <2>3 DEF StaysOpen
<1>6. StaysOpen(t, k, k)
  BY <1>0, <1>2 DEF StaysOpen
<1>7. ASSUME NEW n \in DOMAIN L
      PROVE  \E j \in Opening(t) : j <= k /\ StaysOpen(t, j, k) /\ Depth(t, j) = n
  <2>1. CASE n \in DOMAIN K
    BY <1>4, <1>5, <2>1 DEF Tracks
  <2>2. CASE n = Len(K) + 1
    BY <1>0, <1>2, <1>6, <2>2
  <2>3. QED
    BY <1>0, <1>1, <2>1, <2>2
<1>8. ASSUME NEW j \in Opening(t), j <= k
      PROVE  \/ StaysOpen(t, j, k) /\ Depth(t, j) \in DOMAIN L /\ L[Depth(t, j)] = KindOf(t[j])
             \/ \E c \in Closing(t) : c <= k /\ Pairs(t, j, c)
  <2>1. CASE j = k
    BY <1>0, <1>1, <1>2, <1>6, <2>1
  <2>2. CASE j # k
    <3>1. j <= k - 1
      BY <1>3, <1>8, <2>2
    <3>2. CASE StaysOpen(t, j, k - 1) /\ Depth(t, j) \in DOMAIN K /\ K[Depth(t, j)] = KindOf(t[j])
      BY <1>1, <1>5, <3>1, <3>2
    <3>3. CASE \E c \in Closing(t) : c <= k - 1 /\ Pairs(t, j, c)
      BY <1>4, <3>3
    <3>4. QED
      BY <3>1, <3>2, <3>3 DEF Tracks
  <2>3. QED
    BY <2>1, <2>2
<1>9. \A c \in Closing(t) : c <= k => \E j \in Opening(t) : Pairs(t, j, c)
  BY <1>2, <1>3 DEF Tracks
<1>10. Tracks(t, k, L)
  BY <1>1, <1>2, <1>7, <1>8, <1>9 DEF Tracks
<1>11. QED
  BY <1>10 DEF L

\* What closes a bracket of a kind.
CloserOf(kind) == IF kind = "object" THEN "}" ELSE "]"

\* A closing bracket pairs with the last one that is open, if it is of its kind.
LEMMA CloseStep ==
  ASSUME NEW t \in Seq(Char), NEW K \in Seq(Kind), NEW k \in Closing(t), Tracks(t, k - 1, K),
         K # << >>, t[k] = CloserOf(K[Len(K)])
  PROVE  Tracks(t, k, SubSeq(K, 1, Len(K) - 1))
<1> DEFINE L == SubSeq(K, 1, Len(K) - 1)
<1>0. Len(t) \in Nat /\ k \in 1 .. Len(t) /\ k - 1 \in 0 .. Len(t)
  BY DEF Closing
<1>1. /\ Len(K) \in Nat \ {0} /\ Len(L) = Len(K) - 1 /\ DOMAIN L = 1 .. Len(K) - 1
      /\ DOMAIN K = 1 .. Len(K) /\ K[Len(K)] \in Kind
      /\ \A n \in DOMAIN L : n \in DOMAIN K /\ L[n] = K[n]
  <2>1. Len(K) \in Nat \ {0} /\ DOMAIN K = 1 .. Len(K) /\ \A n \in DOMAIN K : K[n] \in Kind
    BY EmptySeq
  <2>2. Len(L) = Len(K) - 1 /\ DOMAIN L = 1 .. Len(K) - 1 /\ \A n \in 1 .. Len(K) - 1 : L[n] = K[n]
    BY <2>1
  <2>3. QED
    BY <2>1, <2>2
<1> HIDE DEF L
<1>2. Depth(t, k - 1) = Len(K) /\ Depth(t, k) = Len(K) - 1 /\ k \notin Opening(t)
  BY BracketDepth DEF Tracks
<1>3. ASSUME NEW j \in Opening(t) \cup Closing(t), j <= k, j # k PROVE j <= k - 1
  <2>1. j \in 1 .. Len(t)
    BY DEF Opening, Closing
  <2>2. QED
    BY <1>0, <1>3, <2>1
<1>4. \A j \in Opening(t) \cup Closing(t) : j \in 1 .. Len(t) /\ (j <= k - 1 => j <= k /\ j < k)
  <2>1. \A j \in Opening(t) \cup Closing(t) : j \in 1 .. Len(t)
    BY DEF Opening, Closing
  <2>2. QED
    BY <1>0, <2>1
<1>5. ASSUME NEW j \in Opening(t), j <= k - 1, StaysOpen(t, j, k - 1), Depth(t, j) \in DOMAIN L
      PROVE  StaysOpen(t, j, k)
  <2>1. \A h \in j .. k : h \in j .. k - 1 \/ h = k
    BY <1>0, <1>4
  <2>2. Depth(t, k) >= Depth(t, j)
    BY <1>1, <1>2, <1>5
  <2>3. QED
    BY <1>5, <2>1, <2>2 DEF StaysOpen
<1>6. ASSUME NEW j \in Opening(t), j <= k - 1, StaysOpen(t, j, k - 1), Depth(t, j) = Len(K),
             K[Depth(t, j)] = KindOf(t[j])
      PROVE  Pairs(t, j, k)
  <2>1. t[j] \in Opens
    BY DEF Opening
  <2>2. << t[j], t[k] >> \in {<< "{", "}" >>, << "[", "]" >>}
    BY <1>6, <2>1 DEF KindOf, CloserOf, Opens
  <2>3. j < k /\ Depth(t, k) = Depth(t, j) - 1
    BY <1>2, <1>4, <1>6
  <2>4. QED
    BY <1>6, <2>2, <2>3 DEF Pairs
<1>7. ASSUME NEW j \in Opening(t), NEW c \in Closing(t), c <= k - 1, Pairs(t, j, c)
      PROVE  ~StaysOpen(t, j, k - 1)
  <2>0. j \in 1 .. Len(t) /\ c \in 1 .. Len(t) /\ j < c
    BY <1>4, <1>7 DEF Pairs
  <2>1. c \in j .. k - 1 /\ j \in 0 .. Len(t)
    BY <1>0, <1>7, <2>0
  <2>2. Depth(t, j) \in Int /\ Depth(t, c) = Depth(t, j) - 1
    BY <1>7, <2>1, ScanType DEF Pairs
  <2>3. QED
    BY <2>1, <2>2 DEF StaysOpen
<1>8. PICK o \in Opening(t) : o <= k - 1 /\ Pairs(t, o, k)
  <2>1. Len(K) \in DOMAIN K
    BY <1>1
  <2>2. PICK o \in Opening(t) : o <= k - 1 /\ StaysOpen(t, o, k - 1) /\ Depth(t, o) = Len(K)
    BY <2>1 DEF Tracks
  <2>3. K[Depth(t, o)] = KindOf(t[o])
    BY <1>7, <2>2 DEF Tracks
  <2>4. QED
    BY <1>6, <2>2, <2>3
<1>9. ASSUME NEW n \in DOMAIN L
      PROVE  \E j \in Opening(t) : j <= k /\ StaysOpen(t, j, k) /\ Depth(t, j) = n
  <2>1. PICK j \in Opening(t) : j <= k - 1 /\ StaysOpen(t, j, k - 1) /\ Depth(t, j) = n
    BY <1>1 DEF Tracks
  <2>2. QED
    BY <1>4, <1>5, <2>1
<1>10. ASSUME NEW j \in Opening(t), j <= k
      PROVE  \/ StaysOpen(t, j, k) /\ Depth(t, j) \in DOMAIN L /\ L[Depth(t, j)] = KindOf(t[j])
             \/ \E c \in Closing(t) : c <= k /\ Pairs(t, j, c)
  <2>1. j <= k - 1
    BY <1>2, <1>3, <1>10
  <2>2. CASE StaysOpen(t, j, k - 1) /\ Depth(t, j) \in DOMAIN K /\ K[Depth(t, j)] = KindOf(t[j])
    <3>1. CASE Depth(t, j) = Len(K)
      <4>1. Pairs(t, j, k)
        BY <1>6, <2>1, <2>2, <3>1
      <4>2. k <= k
        BY <1>0
      <4>3. QED
        BY <4>1, <4>2
    <3>2. CASE Depth(t, j) # Len(K)
      <4>1. Depth(t, j) \in DOMAIN L
        BY <1>1, <2>2, <3>2
      <4>2. QED
        BY <1>1, <1>5, <2>1, <2>2, <4>1
    <3>3. QED
      BY <3>1, <3>2
  <2>3. CASE \E c \in Closing(t) : c <= k - 1 /\ Pairs(t, j, c)
    BY <1>4, <2>3
  <2>4. QED
    BY <2>1, <2>2, <2>3 DEF Tracks
<1>11. \A c \in Closing(t) : c <= k => \E j \in Opening(t) : Pairs(t, j, c)
  BY <1>3, <1>8 DEF Tracks
<1>12. Tracks(t, k, L)
  BY <1>1, <1>2, <1>9, <1>10, <1>11 DEF Tracks
<1>13. QED
  BY <1>12 DEF L
-----------------------------------------------------------------------------
(* The cursor                                                              *)

\* Where the text is quiet the cursor may move on.
LEMMA RunTracks ==
  ASSUME NEW t \in Seq(Char), NEW K, NEW k \in 1 .. Len(t) + 1, NEW m \in k .. Len(t) + 1,
         Scan(t)[k - 1].mode = "plain", Tracks(t, k - 1, K),
         \A j \in k .. m - 1 : Quiet(t[j])
  PROVE  Scan(t)[m - 1].mode = "plain" /\ Tracks(t, m - 1, K)
<1>0. /\ Len(t) \in Nat /\ k - 1 \in 0 .. Len(t) /\ m - 1 \in k - 1 .. Len(t)
      /\ m - 1 \in 0 .. Len(t) /\ \A j \in (k - 1) + 1 .. m - 1 : j \in k .. m - 1 /\ j \in k - 1 .. m - 1
  OBVIOUS
<1>a. PICK a \in 0 .. Len(t) : a = k - 1
  BY <1>0
<1>b. PICK b \in a .. Len(t) : b = m - 1
  BY <1>0, <1>a
<1>1. a = k - 1 /\ b = m - 1
  BY <1>a, <1>b
<1>2. \A j \in a + 1 .. b : Quiet(t[j])
  BY <1>0, <1>1
<1>3. \A j \in a .. b : Scan(t)[j].mode = "plain" /\ Depth(t, j) = Depth(t, a)
  BY <1>1, <1>2, QuietRun
<1>4. \A j \in a + 1 .. b : j \notin Opening(t) /\ j \notin Closing(t) /\ Depth(t, j) = Depth(t, a)
  BY <1>0, <1>1, <1>2, <1>3 DEF Opening, Closing, Quiet
<1>5. Tracks(t, b, K)
  BY <1>1, <1>4, Carry
<1>6. QED
  BY <1>0, <1>1, <1>3, <1>5

LEMMA PeekIn ==
  ASSUME s \in Seq(Char), NEW k \in 1 .. Len(s) + 1, peek(k) # "NUL"
  PROVE  k \in 1 .. Len(s) /\ peek(k) = s[k] /\ After(k) = k + 1 /\ After(k) \in 1 .. Len(s) + 1
BY DEF peek, After

LEMMA AfterType ==
  ASSUME s \in Seq(Char), NEW k \in 1 .. Len(s) + 1
  PROVE  After(k) \in k .. Len(s) + 1
BY DEF After

LEMMA SkipWs ==
  ASSUME s \in Seq(Char), NEW k \in 1 .. Len(s) + 1
  PROVE  skip_ws(k) \in k .. Len(s) + 1 /\ \A j \in k .. skip_ws(k) - 1 : Quiet(s[j])
<1> DEFINE T == { m \in k .. Len(s) + 1 : peek(m) \notin Blank }
<1>0. Len(s) \in Nat
  OBVIOUS
<1>1. T \subseteq Nat /\ Len(s) + 1 \in T
  BY <1>0 DEF peek, Blank
<1>2. PICK m \in T : \A n \in T : m <= n
  <2> HIDE DEF T
  <2> QED BY <1>1, LeastNumber
<1>3. \A j \in k .. m - 1 : j \in k .. Len(s) + 1 /\ j \notin T /\ j <= Len(s)
  BY <1>0, <1>2
<1>4. \A j \in k .. m - 1 : s[j] \in Blank
  BY <1>3 DEF peek
<1>5. \E n \in k .. Len(s) + 1 : peek(n) \notin Blank /\ \A j \in k .. n - 1 : s[j] \in Blank
  BY <1>2, <1>4
<1>6. skip_ws(k) \in k .. Len(s) + 1 /\ \A j \in k .. skip_ws(k) - 1 : s[j] \in Blank
  BY <1>5, Zenon DEF skip_ws
<1>7. \A c \in Blank : Quiet(c)
  BY DEF Blank, Quiet, Opens, Closes
<1>8. QED
  BY <1>6, <1>7
-----------------------------------------------------------------------------
(* The call stack                                                          *)

LEMMA SeqOfElements ==
  ASSUME NEW S, NEW q \in Seq(S) PROVE q \in Seq({q[n] : n \in DOMAIN q})
<1>1. Len(q) \in Nat /\ DOMAIN q = 1 .. Len(q) /\ q = [n \in 1 .. Len(q) |-> q[n]]
  OBVIOUS
<1> DEFINE T == {q[n] : n \in DOMAIN q}
<1>2. \A n \in 1 .. Len(q) : q[n] \in T
  BY <1>1
<1> HIDE DEF T
<1>3. q \in [1 .. Len(q) -> T]
  BY <1>1, <1>2
<1>4. q \in Seq(T)
  BY <1>1, <1>3
<1>5. QED
  BY <1>4 DEF T

LEMMA KindsType ==
  ASSUME NEW q, Framed(q)
  PROVE  /\ Len(q) \in Nat /\ DOMAIN q = 1 .. Len(q)
         /\ Kinds(q) \in Seq(Kind) /\ Len(Kinds(q)) = Len(q)
         /\ \A n \in 1 .. Len(q) : Kinds(q)[n] = q[n].kind
<1>1. Len(q) \in Nat /\ DOMAIN q = 1 .. Len(q)
  BY DEF Framed
<1>2. \A n \in 1 .. Len(q) : q[n].kind \in Kind
  BY <1>1 DEF Framed
<1>3. QED
  BY <1>1, <1>2 DEF Kinds

LEMMA PushFrame ==
  ASSUME NEW q, Framed(q), NEW kind \in Kind
  PROVE  /\ Framed(Append(q, Frame(kind))) /\ Append(q, Frame(kind)) # << >>
         /\ Last(Append(q, Frame(kind))).kind = kind
         /\ Kinds(Append(q, Frame(kind))) = Append(Kinds(q), kind)
<1> DEFINE S == {q[n] : n \in DOMAIN q} \cup {Frame(kind)}
           f == Frame(kind)
           r == Append(q, f)
<1>1. Len(q) \in Nat /\ DOMAIN q = 1 .. Len(q) /\ Len(Kinds(q)) = Len(q) /\ Kinds(q) \in Seq(Kind)
  BY KindsType
<1>2. f = [kind |-> f.kind, members |-> f.members, key |-> f.key] /\ f.kind = kind
  BY DEF Frame
<1>3. q \in Seq(S) /\ f \in S
  <2>1. q \in Seq({q[n] : n \in DOMAIN q})
    BY DEF Framed
  <2>2. QED
    BY <2>1
<1> HIDE DEF S, f
<1>4. /\ r \in Seq(S) /\ Len(r) = Len(q) + 1 /\ DOMAIN r = 1 .. Len(q) + 1
      /\ r[Len(q) + 1] = f /\ \A n \in 1 .. Len(q) : r[n] = q[n]
  BY <1>1, <1>3
<1> HIDE DEF r
<1>5. Framed(r)
  <2>1. r \in Seq({r[n] : n \in DOMAIN r})
    BY <1>4, SeqOfElements
  <2>2. ASSUME NEW n \in DOMAIN r
        PROVE  r[n].kind \in Kind
               /\ r[n] = [kind |-> r[n].kind, members |-> r[n].members, key |-> r[n].key]
    <3>1. CASE n = Len(q) + 1
      BY <1>2, <1>4, <3>1
    <3>2. CASE n \in 1 .. Len(q)
      BY <1>1, <1>4, <3>2 DEF Framed
    <3>3. QED
      BY <1>1, <1>4, <3>1, <3>2
  <2>3. QED
    BY <2>1, <2>2 DEF Framed
<1>6. Kinds(r) = Append(Kinds(q), kind)
  <2>0. PICK K \in Seq(Kind) : K = Kinds(q)
    BY <1>1
  <2>1. ASSUME NEW n \in 1 .. Len(r) PROVE r[n].kind = Append(K, kind)[n]
    <3>1. CASE n = Len(q) + 1
      BY <1>1, <1>2, <1>4, <2>0, <3>1
    <3>2. CASE n \in 1 .. Len(q)
      <4>1. K[n] = q[n].kind
        BY <2>0, <3>2, KindsType
      <4>2. QED
        BY <1>1, <1>4, <2>0, <3>2, <4>1
    <3>3. n = Len(q) + 1 \/ n \in 1 .. Len(q)
      <4>1. Len(r) = Len(q) + 1 /\ Len(q) \in Nat
        BY <1>1, <1>4
      <4>2. QED
        BY <4>1
    <3>4. QED
      BY <3>1, <3>2, <3>3
  <2>2. Append(K, kind) = [n \in 1 .. Len(r) |-> Append(K, kind)[n]]
    <3>1. Append(K, kind) = [n \in 1 .. Len(K) + 1 |-> Append(K, kind)[n]]
      <4>1. PICK A \in Seq(Kind) : A = Append(K, kind) /\ Len(A) = Len(K) + 1
        BY AppendProperties
      <4>2. A = [n \in 1 .. Len(A) |-> A[n]]
        OBVIOUS
      <4>3. QED
        BY <4>1, <4>2
    <3>2. Len(r) = Len(K) + 1
      BY <1>1, <1>4, <2>0
    <3>3. QED
      BY <3>1, <3>2
  <2>3. QED
    BY <2>0, <2>1, <2>2 DEF Kinds
<1>7. r # << >> /\ Last(r).kind = kind
  BY <1>1, <1>2, <1>4 DEF Last
<1>8. QED
  BY <1>5, <1>6, <1>7 DEF r, f

LEMMA PopFrame ==
  ASSUME NEW q, Framed(q), q # << >>
  PROVE  /\ Framed(Front(q)) /\ Kinds(Front(q)) = SubSeq(Kinds(q), 1, Len(q) - 1)
         /\ Kinds(q) # << >> /\ Kinds(q)[Len(q)] = Last(q).kind
<1> DEFINE r == Front(q)
           S == {q[n] : n \in DOMAIN q}
<1>1. Len(q) \in Nat /\ DOMAIN q = 1 .. Len(q) /\ q \in Seq(S)
  BY KindsType DEF Framed
<1> HIDE DEF S
<1>2. Len(q) # 0
  BY <1>1
<1>3. /\ r \in Seq(S) /\ Len(r) = Len(q) - 1 /\ DOMAIN r = 1 .. Len(q) - 1
      /\ \A n \in 1 .. Len(q) - 1 : r[n] = q[n] /\ n \in 1 .. Len(q)
  BY <1>1, <1>2 DEF Front
<1> HIDE DEF r
<1>4. Framed(r)
  <2>1. r \in Seq({r[n] : n \in DOMAIN r})
    BY <1>3, SeqOfElements
  <2>2. \A n \in DOMAIN r : /\ r[n].kind \in Kind
                            /\ r[n] = [kind |-> r[n].kind, members |-> r[n].members, key |-> r[n].key]
    BY <1>1, <1>3 DEF Framed
  <2>3. QED
    BY <2>1, <2>2 DEF Framed
<1>5. PICK K \in Seq(Kind) : K = Kinds(q) /\ Len(K) = Len(q) /\ \A n \in 1 .. Len(q) : K[n] = q[n].kind
  BY KindsType
<1>6. Kinds(r) = SubSeq(K, 1, Len(q) - 1)
  <2>1. PICK L \in Seq(Kind) : /\ L = SubSeq(K, 1, Len(q) - 1) /\ Len(L) = Len(q) - 1
                               /\ \A n \in 1 .. Len(q) - 1 : L[n] = K[n]
    <3>1. SubSeq(K, 1, Len(q) - 1) \in Seq(Kind) /\ Len(SubSeq(K, 1, Len(q) - 1)) = Len(q) - 1
      BY <1>1, <1>2, <1>5
    <3>2. \A n \in 1 .. Len(q) - 1 : SubSeq(K, 1, Len(q) - 1)[n] = K[n]
      BY <1>1, <1>2, <1>5
    <3>3. QED
      BY <3>1, <3>2
  <2>2. L = [n \in 1 .. Len(L) |-> L[n]]
    OBVIOUS
  <2>3. \A n \in 1 .. Len(r) : L[n] = r[n].kind
    BY <1>3, <1>5, <2>1
  <2>4. QED
    BY <1>3, <2>1, <2>2, <2>3 DEF Kinds
<1>7. K # << >> /\ K[Len(q)] = Last(q).kind
  BY <1>1, <1>2, <1>5 DEF Last
<1>8. QED
  BY <1>4, <1>5, <1>6, <1>7 DEF r

\* What a frame holds may change, its kind does not.
LEMMA FillFrame ==
  ASSUME NEW q, Framed(q), q # << >>, NEW x, NEW r,
         \/ r = [q EXCEPT ![Len(q)] = [q[Len(q)] EXCEPT !.members = x]]
         \/ r = [q EXCEPT ![Len(q)] = [q[Len(q)] EXCEPT !.key = x]]
  PROVE  Framed(r) /\ Kinds(r) = Kinds(q) /\ r # << >> /\ Last(r).kind = Last(q).kind
<1> DEFINE N == Len(q)
<1>1. N \in Nat /\ DOMAIN q = 1 .. N /\ q \in Seq({q[n] : n \in DOMAIN q})
  BY KindsType DEF Framed
<1>2. N \in 1 .. N
  BY <1>1
<1>3. q[N].kind \in Kind /\ q[N] = [kind |-> q[N].kind, members |-> q[N].members, key |-> q[N].key]
  BY <1>1, <1>2 DEF Framed
<1>4. PICK f : /\ r = [q EXCEPT ![N] = f] /\ f.kind = q[N].kind
               /\ f = [kind |-> f.kind, members |-> f.members, key |-> f.key]
  <2>1. PICK a, b, c : q[N] = [kind |-> a, members |-> b, key |-> c]
    BY <1>3
  <2>2. [q[N] EXCEPT !.members = x] = [kind |-> a, members |-> x, key |-> c]
    BY <2>1
  <2>3. [q[N] EXCEPT !.key = x] = [kind |-> a, members |-> b, key |-> x]
    BY <2>1
  <2>4. q[N].kind = a
    BY <2>1
  <2>5. QED
    BY <2>2, <2>3, <2>4
<1> DEFINE S == {q[n] : n \in DOMAIN q} \cup {f}
<1>5. q \in Seq(S) /\ f \in S
  BY <1>1
<1> HIDE DEF S
<1>6. /\ r \in Seq(S) /\ Len(r) = N /\ DOMAIN r = 1 .. N
      /\ \A n \in 1 .. N : r[n] = IF n = N THEN f ELSE q[n]
  BY <1>1, <1>2, <1>4, <1>5
<1>7. Framed(r)
  <2>1. r \in Seq({r[n] : n \in DOMAIN r})
    BY <1>6, SeqOfElements
  <2>2. ASSUME NEW n \in DOMAIN r
        PROVE  /\ r[n].kind \in Kind
               /\ r[n] = [kind |-> r[n].kind, members |-> r[n].members, key |-> r[n].key]
    <3>1. CASE n = N
      BY <1>3, <1>4, <1>6, <3>1
    <3>2. CASE n # N
      BY <1>1, <1>6, <3>2 DEF Framed
    <3>3. QED
      BY <3>1, <3>2
  <2>3. QED
    BY <2>1, <2>2 DEF Framed
<1>8. Kinds(r) = Kinds(q)
  BY <1>4, <1>6 DEF Kinds
<1>9. r # << >> /\ Last(r).kind = Last(q).kind
  BY <1>1, <1>2, <1>4, <1>6 DEF Last
<1>10. QED
  BY <1>7, <1>8, <1>9

-----------------------------------------------------------------------------
(* The steps                                                               *)

LEMMA TextType == TypeOK => s \in Seq(Char) /\ Len(s) \in Nat
BY DEF TypeOK

\* What holds wherever the parser goes on.
Sound == Calls /\ StringsAgree /\ Tracks(s, i - 1, Kinds(stack))

\* The cursor after the white space that follows position k - 1.
LEMMA Landed ==
  ASSUME s \in Seq(Char), s' = s, NEW k \in 1 .. Len(s) + 1, NEW K,
         Scan(s)[k - 1].mode = "plain", Tracks(s, k - 1, K),
         i' = skip_ws(k), Kinds(stack') = K, pc' # "string"
  PROVE  i' \in k .. Len(s) + 1 /\ StringsAgree' /\ Tracks(s', i' - 1, Kinds(stack'))
<1>1. PICK t : t = s
  OBVIOUS
<1>2. PICK m \in k .. Len(t) + 1 : m = i' /\ \A j \in k .. m - 1 : Quiet(t[j])
  BY <1>1, SkipWs
<1>3. Scan(t)[m - 1].mode = "plain" /\ Tracks(t, m - 1, K)
  BY <1>1, <1>2, RunTracks
<1>4. ~InString(t, m - 1) /\ ~Introduces(t, m - 1)
  BY <1>3 DEF InString, Introduces
<1>5. QED
  BY <1>1, <1>2, <1>3, <1>4 DEF StringsAgree

(***************************************************************************)
(* Returning a value to the caller.                                        *)
(***************************************************************************)
LEMMA ReturnStep ==
  ASSUME s \in Seq(Char), s' = s, NEW v, NEW outer, Framed(outer), NEW k \in 1 .. Len(s) + 1,
         Scan(s)[k - 1].mode = "plain", Tracks(s, k - 1, Kinds(outer)),
         Return(v, outer, k)
  PROVE  /\ i' \in k .. Len(s) + 1 /\ pc' \in Running /\ Framed(stack') /\ Sound'
<1>1. CASE outer = << >>
  <2>1. i' = skip_ws(k) /\ pc' = "end" /\ stack' = << >>
    BY <1>1 DEF Return
  <2>2. Framed(stack') /\ Kinds(stack') = Kinds(outer)
    BY <1>1, <2>1
  <2>3. i' \in k .. Len(s) + 1 /\ StringsAgree' /\ Tracks(s', i' - 1, Kinds(stack'))
    BY <2>1, <2>2, Landed
  <2>4. Calls'
    BY <2>1 DEF Calls
  <2>5. QED
    BY <2>1, <2>2, <2>3, <2>4 DEF Running, Sound
<1>2. CASE outer # << >>
  <2>1. PICK x : stack' = [outer EXCEPT ![Len(outer)].members = x]
    BY <1>2 DEF Return
  <2>2. i' = skip_ws(k) /\ pc' = IF Last(outer).kind = "object" THEN "member" ELSE "item"
    BY <1>2 DEF Return
  <2>3. Framed(stack') /\ Kinds(stack') = Kinds(outer) /\ stack' # << >>
        /\ Last(stack').kind = Last(outer).kind
    <3>1. stack' = [outer EXCEPT ![Len(outer)] = [outer[Len(outer)] EXCEPT !.members = x]]
      BY <2>1
    <3>2. PICK r : r = stack'
      OBVIOUS
    <3>3. Framed(r) /\ Kinds(r) = Kinds(outer) /\ r # << >> /\ Last(r).kind = Last(outer).kind
      BY <1>2, <3>1, <3>2, FillFrame
    <3>4. QED
      BY <3>2, <3>3
  <2>4. i' \in k .. Len(s) + 1 /\ StringsAgree' /\ Tracks(s', i' - 1, Kinds(stack'))
    BY <2>2, <2>3, Landed
  <2>5. Last(outer).kind \in Kind
    BY <1>2, KindsType, PopFrame
  <2>6. Calls'
    BY <2>2, <2>3, <2>5 DEF Calls, InObject, InArray, Kind
  <2>7. QED
    BY <2>2, <2>3, <2>4, <2>6 DEF Running, Sound
<1>3. QED
  BY <1>1, <1>2

\* What every step does: the properties hold afterwards, and it goes forward.
Advances == i' > i \/ pc' \in {"ok", "error"}

LEMMA FailStep == IInv /\ Fail => IInv' /\ Advances
BY DEF Fail, IInv, TypeOK, Advances

\* A step that goes on at a sound place.
LEMMA GoOn ==
  ASSUME IInv, s' = s, i' \in i + 1 .. Len(s) + 1, pc' \in Running, Framed(stack'), Sound',
         str' = [chars |-> str'.chars, isKey |-> str'.isKey], str'.isKey \in BOOLEAN
  PROVE  IInv' /\ Advances
<1>1. s \in Seq(Char) /\ i \in 1 .. Len(s) + 1 /\ Len(s) \in Nat
  BY TextType DEF IInv, TypeOK
<1>2. i' \in 1 .. Len(s') + 1 /\ i' > i
  BY <1>1
<1>3. TypeOK'
  BY <1>1, <1>2 DEF TypeOK
<1>4. QED
  BY <1>2, <1>3 DEF IInv, Sound, Advances

LEMMA Unfold ==
  ASSUME IInv, pc # "error"
  PROVE  /\ s \in Seq(Char) /\ Len(s) \in Nat /\ i \in 1 .. Len(s) + 1 /\ Framed(stack)
         /\ Kinds(stack) \in Seq(Kind) /\ Tracks(s, i - 1, Kinds(stack))
         /\ pc # "string" => Scan(s)[i - 1].mode = "plain"
         /\ pc = "string" /\ i <= Len(s) => Scan(s)[i - 1].mode = "string"
         /\ str = [chars |-> str.chars, isKey |-> str.isKey] /\ str.isKey \in BOOLEAN
<1>1. /\ s \in Seq(Char) /\ Len(s) \in Nat /\ i \in 1 .. Len(s) + 1 /\ Framed(stack)
      /\ str = [chars |-> str.chars, isKey |-> str.isKey] /\ str.isKey \in BOOLEAN
  BY TextType DEF IInv, TypeOK
<1>2. Tracks(s, i - 1, Kinds(stack)) /\ StringsAgree
  BY DEF IInv
<1>3. i - 1 \in 0 .. Len(s)
  BY <1>1
<1>4. Scan(s)[i - 1].mode \in Mode
  BY <1>1, <1>3, ScanType
<1>5. Kinds(stack) \in Seq(Kind)
  BY <1>1, KindsType
<1>6. pc # "string" => Scan(s)[i - 1].mode = "plain"
  BY <1>2 DEF StringsAgree, InString
<1>7. pc = "string" /\ i <= Len(s) => Scan(s)[i - 1].mode = "string"
  <2>1. i <= Len(s) => i # Len(s) + 1
    BY <1>1
  <2>2. QED
    BY <1>2, <1>4, <2>1 DEF StringsAgree, InString, Introduces, Mode
<1>8. QED
  BY <1>1, <1>2, <1>5, <1>6, <1>7

LEMMA NoBracket ==
  ASSUME NEW t \in Seq(Char), NEW K, NEW k \in 1 .. Len(t), Tracks(t, k - 1, K),
         k \notin Opening(t), k \notin Closing(t)
  PROVE  Tracks(t, k, K)
<1>1. k - 1 \in 0 .. Len(t) /\ k \in k - 1 .. Len(t) /\ (k - 1) + 1 .. k = {k}
  OBVIOUS
<1>2. Depth(t, k) = Depth(t, k - 1)
  <2>1. Depth(t, k) = IF InString(t, k) THEN Depth(t, k - 1) ELSE Depth(t, k - 1) + Weight(t[k])
    BY OneFurther
  <2>2. ~InString(t, k) => Weight(t[k]) = 0
    BY DEF Weight, Opening, Closing
  <2>3. Depth(t, k - 1) \in Int
    BY <1>1, ScanType
  <2>4. QED
    BY <2>1, <2>2, <2>3
<1>3. QED
  BY <1>1, <1>2, Carry

\* Consuming one character that is not a quote outside of a string.
LEMMA StaysPlain ==
  ASSUME NEW t \in Seq(Char), NEW k \in 1 .. Len(t), Scan(t)[k - 1].mode = "plain", t[k] # "quote"
  PROVE  Scan(t)[k].mode = "plain" /\ ~InString(t, k)
BY OneFurther DEF ModeAfter, InString

LEMMA FrontOfAppend ==
  ASSUME NEW S, NEW q \in Seq(S), NEW x \in S
  PROVE  SubSeq(Append(q, x), 1, Len(Append(q, x)) - 1) = q
<1>0. Append(q, x) \in Seq(S)
  BY AppendProperties
<1>1. PICK r \in Seq(S) : /\ r = Append(q, x) /\ Len(r) = Len(q) + 1
                          /\ \A n \in 1 .. Len(q) : r[n] = q[n]
  <2>1. Len(Append(q, x)) = Len(q) + 1 /\ \A n \in 1 .. Len(q) : Append(q, x)[n] = q[n]
    BY AppendProperties
  <2>2. QED
    BY <1>0, <2>1
<1>2. PICK N \in Nat : N = Len(q)
  OBVIOUS
<1>3. SubSeq(r, 1, N) \in Seq(S) /\ Len(SubSeq(r, 1, N)) = N
  BY <1>1, <1>2
<1>4. \A n \in 1 .. N : SubSeq(r, 1, N)[n] = q[n]
  BY <1>1, <1>2
<1>5. SubSeq(r, 1, N) = q
  BY <1>2, <1>3, <1>4
<1>6. Len(r) - 1 = N
  BY <1>1, <1>2
<1>7. QED
  BY <1>1, <1>5, <1>6

\* An object or an array: its kind, its brackets, and what is parsed first.
Brackets(kind, open, close, next) ==
  \/ kind = "object" /\ open = "{" /\ close = "}" /\ next = "key"
  \/ kind = "array" /\ open = "[" /\ close = "]" /\ next = "value"

(***************************************************************************)
(* An opening bracket, and perhaps the closing one right after it.         *)
(***************************************************************************)
LEMMA OpenAction ==
  ASSUME IInv, NEW kind, NEW open, NEW close, NEW next,
         Brackets(kind, open, close, next),
         Open(kind, open, close, next)
  PROVE  IInv' /\ Advances
<1>0. /\ pc = "value" /\ peek(i) = open /\ open # "NUL" /\ open # "quote" /\ open \in Opens
      /\ KindOf(open) = kind /\ close = CloserOf(kind) /\ kind \in Kind
      /\ close # "NUL" /\ close # "quote" /\ close \in Closes /\ s' = s /\ str' = str
      /\ next \in {"key", "value"} /\ (next = "key" => kind = "object")
  BY DEF Brackets, Open, Opens, Closes, KindOf, CloserOf, Kind
<1>1. /\ s \in Seq(Char) /\ Len(s) \in Nat /\ i \in 1 .. Len(s) + 1 /\ Framed(stack)
      /\ Kinds(stack) \in Seq(Kind) /\ Tracks(s, i - 1, Kinds(stack))
      /\ Scan(s)[i - 1].mode = "plain"
      /\ str = [chars |-> str.chars, isKey |-> str.isKey] /\ str.isKey \in BOOLEAN
  BY <1>0, Unfold
<1>l. Len(s) \in Nat
  BY <1>1
<1>2. i \in 1 .. Len(s) /\ s[i] = open /\ After(i) = i + 1 /\ i + 1 \in 1 .. Len(s) + 1
  BY <1>0, <1>1, PeekIn
<1>3. Scan(s)[i].mode = "plain" /\ i \in Opening(s)
  BY <1>0, <1>1, <1>2, StaysPlain DEF Opening
<1>4. PICK t \in Seq(Char), K \in Seq(Kind) : t = s /\ K = Kinds(stack)
  BY <1>1
<1>5. PICK a \in Opening(t) : a = i
  BY <1>3, <1>4
<1>6. Tracks(t, a, Append(K, kind))
  BY <1>0, <1>1, <1>2, <1>4, <1>5, OpenStep
<1>7. PICK k \in Nat :
         k = skip_ws(i + 1) /\ k \in i + 1 .. Len(s) + 1 /\ \A j \in i + 1 .. k - 1 : Quiet(s[j])
  BY <1>1, <1>2, SkipWs
<1>8. k \in 1 .. Len(s) + 1 /\ Scan(s)[k - 1].mode = "plain" /\ Tracks(s, k - 1, Append(K, kind))
  <2>0. i + 1 \in 1 .. Len(t) + 1 /\ (i + 1) - 1 = i
    BY <1>2, <1>4, <1>l
  <2>1. PICK b \in 1 .. Len(t) + 1 : b = i + 1 /\ b - 1 = i
    BY <2>0
  <2>2. k \in b .. Len(t) + 1 /\ \A j \in b .. k - 1 : Quiet(t[j])
    BY <1>4, <1>7, <2>1
  <2>3. Scan(t)[b - 1].mode = "plain" /\ Tracks(t, b - 1, Append(K, kind))
    BY <1>3, <1>4, <1>5, <1>6, <2>1
  <2>4. Scan(t)[k - 1].mode = "plain" /\ Tracks(t, k - 1, Append(K, kind))
    BY <2>2, <2>3, RunTracks
  <2>5. k \in 1 .. Len(s) + 1
    BY <1>2, <1>7, <1>l
  <2>6. QED
    BY <1>4, <2>4, <2>5
<1>9. CASE peek(k) = close
  <2>1. k \in 1 .. Len(s) /\ s[k] = close /\ After(k) = k + 1 /\ k + 1 \in 1 .. Len(s) + 1
    BY <1>0, <1>1, <1>8, <1>9, PeekIn
  <2>2. Scan(s)[k].mode = "plain" /\ k \in Closing(s)
    BY <1>0, <1>1, <1>8, <2>1, StaysPlain DEF Closing
  <2>3. PICK c \in Closing(t) : c = k
    BY <1>4, <2>2
  <2>4. PICK L \in Seq(Kind) : /\ L = Append(K, kind) /\ L # << >> /\ L[Len(L)] = kind
                               /\ SubSeq(L, 1, Len(L) - 1) = K
    <3>0. Append(K, kind) # << >>
      BY <1>0, AppendProperties
    <3>1. Append(K, kind) \in Seq(Kind)
      BY <1>0, AppendProperties
    <3>2. Append(K, kind)[Len(Append(K, kind))] = kind
      <4>1. kind \in Kind
        BY <1>0
      <4>2. QED
        BY <4>1, AppendProperties
    <3>3. SubSeq(Append(K, kind), 1, Len(Append(K, kind)) - 1) = K
      BY <1>0, FrontOfAppend
    <3>4. QED
      BY <3>0, <3>1, <3>2, <3>3
  <2>5. Tracks(t, c, SubSeq(L, 1, Len(L) - 1))
    BY <1>0, <1>4, <1>8, <2>1, <2>3, <2>4, CloseStep
  <2>6. Tracks(s, k, Kinds(stack))
    BY <1>4, <2>3, <2>4, <2>5
  <2>7. Return(Value(kind, << >>), stack, k + 1)
    BY <1>0, <1>2, <1>7, <1>9, <2>1 DEF Open
  <2>a. (k + 1) - 1 = k /\ i + 1 <= k + 1
    BY <1>2, <1>7, <1>l
  <2>b. PICK b \in 1 .. Len(s) + 1 : b = k + 1 /\ b - 1 = k /\ i + 1 <= b
    BY <2>1, <2>a
  <2>8. PICK outer, v : outer = stack /\ v = Value(kind, << >>)
    OBVIOUS
  <2>9. i' \in b .. Len(s) + 1 /\ pc' \in Running /\ Framed(stack') /\ Sound'
    BY <1>0, <1>1, <2>2, <2>6, <2>7, <2>8, <2>b, ReturnStep
  <2>10. i' \in i + 1 .. Len(s) + 1
    BY <1>2, <1>l, <2>9, <2>b
  <2>11. QED
    BY <1>0, <1>1, <2>9, <2>10, GoOn
<1>10. CASE peek(k) # close
  <2>1. i' = k /\ pc' = next /\ stack' = Append(stack, Frame(kind))
    BY <1>2, <1>7, <1>10 DEF Open
  <2>2. /\ Framed(stack') /\ stack' # << >> /\ Last(stack').kind = kind
        /\ Kinds(stack') = Append(K, kind)
    <3>1. PICK q : q = stack
      OBVIOUS
    <3>2. QED
      BY <1>0, <1>1, <1>4, <2>1, <3>1, PushFrame
  <2>3. Tracks(s', i' - 1, Kinds(stack'))
    BY <1>0, <1>8, <2>1, <2>2
  <2>4. StringsAgree'
    BY <1>0, <1>8, <2>1 DEF StringsAgree, InString, Introduces
  <2>5. Calls'
    BY <1>0, <2>1, <2>2 DEF Calls, InObject
  <2>6. pc' \in Running /\ Sound'
    BY <1>0, <2>1, <2>3, <2>4, <2>5 DEF Running, Sound
  <2>7. QED
    BY <1>0, <1>1, <1>7, <2>1, <2>2, <2>6, GoOn
<1>11. QED
  BY <1>9, <1>10

\* Consuming characters from the cursor on that are neither quotes nor brackets.
LEMMA ConsumeQuiet ==
  ASSUME s \in Seq(Char), i \in 1 .. Len(s) + 1, NEW K, NEW m \in Nat, m \in i .. Len(s) + 1,
         Scan(s)[i - 1].mode = "plain", Tracks(s, i - 1, K),
         \A j \in i .. m - 1 : Quiet(s[j])
  PROVE  Scan(s)[m - 1].mode = "plain" /\ Tracks(s, m - 1, K)
<1>1. PICK t \in Seq(Char) : t = s
  OBVIOUS
<1>2. PICK k \in 1 .. Len(t) + 1 : k = i
  BY <1>1
<1>3. QED
  BY <1>1, <1>2, RunTracks

\* One such character, after which white space is skipped.
LEMMA ConsumeOne ==
  ASSUME IInv, pc \notin {"string", "error"}, peek(i) # "NUL", Quiet(peek(i))
  PROVE  /\ i \in 1 .. Len(s) /\ After(i) = i + 1 /\ i + 1 \in 1 .. Len(s) + 1 /\ Len(s) \in Nat
         /\ Scan(s)[(i + 1) - 1].mode = "plain" /\ Tracks(s, (i + 1) - 1, Kinds(stack))
<1>1. /\ s \in Seq(Char) /\ Len(s) \in Nat /\ i \in 1 .. Len(s) + 1
      /\ Tracks(s, i - 1, Kinds(stack)) /\ Scan(s)[i - 1].mode = "plain"
  BY Unfold
<1>2. i \in 1 .. Len(s) /\ peek(i) = s[i] /\ After(i) = i + 1 /\ i + 1 \in 1 .. Len(s) + 1
  BY <1>1, PeekIn
<1>3. i + 1 \in Nat /\ i + 1 \in i .. Len(s) + 1 /\ \A j \in i .. (i + 1) - 1 : j = i
  BY <1>1, <1>2
<1>4. \A j \in i .. (i + 1) - 1 : Quiet(s[j])
  BY <1>2, <1>3
<1>5. PICK m \in Nat : m = i + 1
  BY <1>3
<1>6. PICK K : K = Kinds(stack)
  OBVIOUS
<1>7. Scan(s)[m - 1].mode = "plain" /\ Tracks(s, m - 1, K)
  BY <1>1, <1>3, <1>4, <1>5, <1>6, ConsumeQuiet
<1>8. QED
  BY <1>1, <1>2, <1>5, <1>6, <1>7

\* After such a character, a step that keeps the stack.
LEMMA PassOn ==
  ASSUME IInv, pc \notin {"string", "error"}, peek(i) # "NUL", Quiet(peek(i)),
         i' = skip_ws(After(i)), UNCHANGED << s, stack, str, root >>,
         pc' \in Running \ {"string"}, Calls'
  PROVE  IInv' /\ Advances
<1>1. /\ s \in Seq(Char) /\ Framed(stack)
      /\ str = [chars |-> str.chars, isKey |-> str.isKey] /\ str.isKey \in BOOLEAN
  BY Unfold
<1>2. /\ i \in 1 .. Len(s) /\ After(i) = i + 1 /\ i + 1 \in 1 .. Len(s) + 1 /\ Len(s) \in Nat
      /\ Scan(s)[(i + 1) - 1].mode = "plain" /\ Tracks(s, (i + 1) - 1, Kinds(stack))
  BY ConsumeOne
<1>3. PICK k \in 1 .. Len(s) + 1 : k = i + 1
  BY <1>2
<1>4. PICK K : K = Kinds(stack) /\ K = Kinds(stack')
  OBVIOUS
<1>5. i' \in k .. Len(s) + 1 /\ StringsAgree' /\ Tracks(s', i' - 1, Kinds(stack'))
  BY <1>1, <1>2, <1>3, <1>4, Landed
<1>6. Sound'
  BY <1>5 DEF Sound
<1>7. QED
  BY <1>1, <1>3, <1>5, <1>6, GoOn

\* After such characters, a step that returns a value.
LEMMA PassBack ==
  ASSUME IInv, pc \notin {"string", "error"}, NEW v, NEW m \in Nat, m \in i + 1 .. Len(s) + 1,
         \A j \in i .. m - 1 : Quiet(s[j]), Return(v, stack, m), UNCHANGED << s, str >>
  PROVE  IInv' /\ Advances
<1>1. /\ s \in Seq(Char) /\ Len(s) \in Nat /\ i \in 1 .. Len(s) + 1 /\ Framed(stack)
      /\ Tracks(s, i - 1, Kinds(stack)) /\ Scan(s)[i - 1].mode = "plain"
      /\ str = [chars |-> str.chars, isKey |-> str.isKey] /\ str.isKey \in BOOLEAN
  BY Unfold
<1>2. PICK q : q = stack
  OBVIOUS
<1>3. m \in i .. Len(s) + 1 /\ m \in 1 .. Len(s) + 1
  BY <1>1
<1>4. Scan(s)[m - 1].mode = "plain" /\ Tracks(s, m - 1, Kinds(q))
  BY <1>1, <1>2, <1>3, ConsumeQuiet
<1>5. i' \in m .. Len(s) + 1 /\ pc' \in Running /\ Framed(stack') /\ Sound'
  BY <1>1, <1>2, <1>3, <1>4, ReturnStep
<1>6. i' \in i + 1 .. Len(s) + 1
  BY <1>1, <1>5
<1>7. QED
  BY <1>1, <1>5, <1>6, GoOn

LEMMA ColonAction == IInv /\ Colon => IInv' /\ Advances
<1> SUFFICES ASSUME IInv, Colon PROVE IInv' /\ Advances
  OBVIOUS
<1>1. CASE peek(i) # ":"
  BY <1>1, FailStep DEF Colon
<1>2. CASE peek(i) = ":"
  <2>1. /\ pc = "colon" /\ pc' = "value" /\ i' = skip_ws(After(i))
        /\ UNCHANGED << s, stack, str, root >>
    BY <1>2 DEF Colon
  <2>2. Quiet(peek(i)) /\ peek(i) # "NUL"
    BY <1>2 DEF Quiet, Opens, Closes
  <2>3. Calls' /\ pc' \in Running \ {"string"}
    BY <2>1 DEF Calls, Running
  <2>4. QED
    BY <2>1, <2>2, <2>3, PassOn
<1>3. QED
  BY <1>1, <1>2

LEMMA LiteralAction == IInv /\ Literal => IInv' /\ Advances
<1> SUFFICES ASSUME IInv, Literal PROVE IInv' /\ Advances
  OBVIOUS
<1>1. pc = "value" /\ peek(i) \in {"true", "null"} /\ UNCHANGED << s, str >>
  BY DEF Literal
<1>2. Quiet(peek(i)) /\ peek(i) # "NUL"
  BY <1>1 DEF Quiet, Opens, Closes
<1>3. i \in 1 .. Len(s) /\ After(i) = i + 1 /\ i + 1 \in 1 .. Len(s) + 1 /\ Len(s) \in Nat
  BY <1>1, <1>2, ConsumeOne
<1>4. peek(i) = s[i] /\ \A j \in i .. (i + 1) - 1 : j = i
  BY <1>3 DEF peek
<1>5. PICK m \in Nat : m = i + 1 /\ m \in i + 1 .. Len(s) + 1
  BY <1>3
<1>6. PICK v : v = Value(peek(i), << >>)
  OBVIOUS
<1>7. \A j \in i .. m - 1 : Quiet(s[j])
  BY <1>2, <1>4, <1>5
<1>8. Return(v, stack, m)
  BY <1>3, <1>5, <1>6 DEF Literal
<1>9. QED
  BY <1>1, <1>5, <1>7, <1>8, PassBack

(***************************************************************************)
(* Numbers: the cursor passes what looks like part of one, and there is a  *)
(* digit in it.                                                            *)
(***************************************************************************)
LEMMA NumberEnds ==
  ASSUME s \in Seq(Char), NEW k \in 1 .. Len(s) + 1
  PROVE  NumberEnd(k) \in k .. Len(s) + 1 /\ \A j \in k .. NumberEnd(k) - 1 : Quiet(s[j])
<1> DEFINE T == { m \in k .. Len(s) + 1 : peek(m) \notin NumChar }
<1>0. Len(s) \in Nat
  OBVIOUS
<1>1. T \subseteq Nat /\ Len(s) + 1 \in T
  BY <1>0 DEF peek, NumChar
<1>2. PICK m \in T : \A n \in T : m <= n
  <2> HIDE DEF T
  <2> QED BY <1>1, LeastNumber
<1>3. \A j \in k .. m - 1 : j \in k .. Len(s) + 1 /\ j \notin T /\ j <= Len(s)
  BY <1>0, <1>2
<1>4. \A j \in k .. m - 1 : s[j] \in NumChar
  BY <1>3 DEF peek
<1>5. \E n \in k .. Len(s) + 1 : peek(n) \notin NumChar /\ \A j \in k .. n - 1 : s[j] \in NumChar
  BY <1>2, <1>4
<1>6. NumberEnd(k) \in k .. Len(s) + 1 /\ \A j \in k .. NumberEnd(k) - 1 : s[j] \in NumChar
  BY <1>5, Zenon DEF NumberEnd
<1>7. \A c \in NumChar : Quiet(c)
  BY DEF NumChar, Quiet, Opens, Closes
<1>8. QED
  BY <1>6, <1>7

LEMMA StodEnds ==
  ASSUME NEW k \in Nat, NEW m \in Nat, k <= m
  PROVE  /\ StodEnd(k, m) \in k .. m
         /\ \A j \in k + 1 .. StodEnd(k, m) - 1 : s[j] = "1"
         /\ StodEnd(k, m) = m \/ (StodEnd(k, m) > k /\ s[StodEnd(k, m)] # "1")
<1> DEFINE Stops(d) == d = m \/ (d > k /\ s[d] # "1")
           T == { d \in k .. m : Stops(d) }
<1>1. T \subseteq Nat /\ m \in T
  OBVIOUS
<1>2. PICK d \in T : \A n \in T : d <= n
  <2> HIDE DEF T
  <2> QED BY <1>1, LeastNumber
<1>3. ASSUME NEW j \in k + 1 .. d - 1 PROVE s[j] = "1"
  <2>1. j \in k .. m /\ j \notin T /\ j > k
    BY <1>2
  <2>2. QED
    BY <2>1
<1>4. \E e \in k .. m : /\ \A j \in k + 1 .. e - 1 : s[j] = "1"
                        /\ e = m \/ (e > k /\ s[e] # "1")
  BY <1>2, <1>3
<1>5. QED
  BY <1>4, Zenon DEF StodEnd

LEMMA NumberAction == IInv /\ Number => IInv' /\ Advances
<1> SUFFICES ASSUME IInv, Number PROVE IInv' /\ Advances
  OBVIOUS
<1>1. pc = "value" /\ s \in Seq(Char) /\ Len(s) \in Nat /\ i \in 1 .. Len(s) + 1
  BY Unfold DEF Number
<1>2. PICK m \in Nat : m = NumberEnd(i) /\ m \in i .. Len(s) + 1 /\ \A j \in i .. m - 1 : Quiet(s[j])
  <2>1. NumberEnd(i) \in i .. Len(s) + 1 /\ \A j \in i .. NumberEnd(i) - 1 : Quiet(s[j])
    BY <1>1, NumberEnds
  <2>2. NumberEnd(i) \in Nat
    BY <1>1, <2>1
  <2>3. QED
    BY <2>1, <2>2
<1>3. PICK d \in Nat : d = StodEnd(i, m) /\ d \in i .. m
  <2>1. StodEnd(i, m) \in i .. m
    BY <1>1, <1>2, StodEnds
  <2>2. QED
    BY <1>1, <2>1
<1>4. CASE \E j \in i .. d - 1 : s[j] = "1"
  <2>1. PICK v : v = Value("number", SubSeq(s, i, d - 1))
    OBVIOUS
  <2>2. Return(v, stack, m) /\ UNCHANGED << s, str >>
    BY <1>2, <1>3, <1>4, <2>1 DEF Number
  <2>3. m \in i + 1 .. Len(s) + 1
    BY <1>1, <1>2, <1>3, <1>4
  <2>4. QED
    BY <1>1, <1>2, <2>2, <2>3, PassBack
<1>5. CASE ~ \E j \in i .. d - 1 : s[j] = "1"
  <2>1. Fail
    BY <1>2, <1>3, <1>5 DEF Number
  <2>2. QED
    BY <2>1, FailStep
<1>6. QED
  BY <1>4, <1>5

(***************************************************************************)
(* What follows a member or an item: another one, or the closing bracket.  *)
(***************************************************************************)
Loops(at, kind, close, next) ==
  \/ at = "member" /\ kind = "object" /\ close = "}" /\ next = "key"
  \/ at = "item" /\ kind = "array" /\ close = "]" /\ next = "value"

LEMMA FollowAction ==
  ASSUME IInv, NEW at, NEW kind, NEW close, NEW next,
         Loops(at, kind, close, next), Follow(at, kind, close, next)
  PROVE  IInv' /\ Advances
<1>0. /\ pc = at /\ pc \in {"member", "item"} /\ kind \in Kind /\ close = CloserOf(kind)
      /\ close # "NUL" /\ close # "quote" /\ close # "," /\ close \in Closes
      /\ next \in {"key", "value"} /\ (next = "key" => pc = "member")
      /\ (kind = "object" <=> pc = "member")
  BY DEF Loops, Follow, Kind, CloserOf, Closes
<1>1. /\ s \in Seq(Char) /\ Len(s) \in Nat /\ i \in 1 .. Len(s) + 1 /\ Framed(stack)
      /\ Kinds(stack) \in Seq(Kind) /\ Tracks(s, i - 1, Kinds(stack))
      /\ Scan(s)[i - 1].mode = "plain"
      /\ str = [chars |-> str.chars, isKey |-> str.isKey] /\ str.isKey \in BOOLEAN
  BY <1>0, Unfold
<1>2. stack # << >> /\ Last(stack).kind = kind
  BY <1>0 DEF IInv, Calls, InObject, InArray, Kind
<1>3. CASE peek(i) = ","
  <2>1. pc' = next /\ i' = skip_ws(After(i)) /\ UNCHANGED << s, stack, str, root >>
    BY <1>0, <1>3 DEF Follow
  <2>2. Quiet(peek(i)) /\ peek(i) # "NUL"
    BY <1>3 DEF Quiet, Opens, Closes
  <2>3. Calls' /\ pc' \in Running \ {"string"}
    BY <1>0, <1>2, <2>1 DEF Calls, Running, InObject
  <2>4. QED
    BY <1>0, <2>1, <2>2, <2>3, PassOn
<1>4. CASE peek(i) = close
  <2>1. Close(kind) /\ UNCHANGED << s, str >>
    BY <1>0, <1>4 DEF Follow
  <2>2. i \in 1 .. Len(s) /\ s[i] = close /\ After(i) = i + 1 /\ i + 1 \in 1 .. Len(s) + 1
    BY <1>0, <1>1, <1>4, PeekIn
  <2>3. Scan(s)[i].mode = "plain" /\ i \in Closing(s)
    BY <1>0, <1>1, <2>2, StaysPlain DEF Closing
  <2>a. PICK q : q = stack
    OBVIOUS
  <2>b. PICK t \in Seq(Char), K \in Seq(Kind) : t = s /\ K = Kinds(stack)
    BY <1>1
  <2>4. t = s /\ K = Kinds(stack) /\ q = stack
    BY <2>a, <2>b
  <2>5. PICK c \in Closing(t) : c = i
    BY <2>3, <2>4
  <2>6. Framed(q) /\ q # << >> /\ Len(K) = Len(q) /\ K # << >> /\ K[Len(K)] = kind
    <3>1. Framed(q) /\ q # << >> /\ Last(q).kind = kind
      BY <1>1, <1>2, <2>4
    <3>2. Len(K) = Len(q)
      BY <2>4, <3>1, KindsType
    <3>3. QED
      BY <2>4, <3>1, <3>2, PopFrame
  <2>7. Tracks(t, c, SubSeq(K, 1, Len(K) - 1))
    BY <1>0, <1>1, <2>2, <2>4, <2>5, <2>6, CloseStep
  <2>8. PICK outer : outer = Front(q) /\ Framed(outer) /\ Kinds(outer) = SubSeq(K, 1, Len(K) - 1)
    BY <2>4, <2>6, PopFrame
  <2>9. PICK v : v = Value(kind, Last(stack).members)
    OBVIOUS
  <2>10. PICK b \in 1 .. Len(s) + 1 : b = i + 1
    BY <2>2
  <2>11. Return(v, outer, b)
    BY <2>1, <2>2, <2>4, <2>8, <2>9, <2>10 DEF Close
  <2>12. Scan(s)[b - 1].mode = "plain" /\ Tracks(s, b - 1, Kinds(outer))
    <3>1. b - 1 = i
      BY <1>1, <2>10
    <3>2. QED
      BY <2>3, <2>4, <2>5, <2>7, <2>8, <3>1
  <2>13. i' \in b .. Len(s) + 1 /\ pc' \in Running /\ Framed(stack') /\ Sound'
    BY <1>1, <2>1, <2>8, <2>11, <2>12, ReturnStep
  <2>14. QED
    BY <1>1, <2>1, <2>10, <2>13, GoOn
<1>5. CASE peek(i) # "," /\ peek(i) # close
  BY <1>5, FailStep DEF Follow
<1>6. QED
  BY <1>3, <1>4, <1>5

(***************************************************************************)
(* Strings, keys included: brackets in them do not count, and an escape is *)
(* taken together with the character after it.                             *)
(***************************************************************************)
\* One character further, in a string or onto its first or last quote.
LEMMA StringStep ==
  ASSUME NEW t \in Seq(Char), NEW K, NEW k \in 1 .. Len(t), Tracks(t, k - 1, K),
         t[k] = "quote" \/ Scan(t)[k - 1].mode # "plain"
  PROVE  /\ Tracks(t, k, K)
         /\ Scan(t)[k].mode = ModeAfter(Scan(t)[k - 1].mode, t[k])
<1>1. Scan(t)[k].mode = ModeAfter(Scan(t)[k - 1].mode, t[k])
  BY OneFurther
<1>2. k - 1 \in 0 .. Len(t)
  OBVIOUS
<1>3. Scan(t)[k - 1].mode \in Mode
  BY <1>2, ScanType
<1>4. t[k] = "quote" \/ Scan(t)[k].mode # "plain"
  BY <1>1, <1>3 DEF ModeAfter, Mode
<1>5. k \notin Opening(t) /\ k \notin Closing(t)
  BY <1>4 DEF Opening, Closing, InString, Opens, Closes
<1>6. QED
  BY <1>1, <1>5, NoBracket

\* The opening quote.
LEMMA EnterString ==
  ASSUME IInv, pc \notin {"string", "error"}, peek(i) = "quote", pc' = "string", i' = After(i),
         NEW isKey \in BOOLEAN, str' = [chars |-> << >>, isKey |-> isKey],
         UNCHANGED << s, stack, root >>, isKey => InObject
  PROVE  IInv' /\ Advances
<1>1. /\ s \in Seq(Char) /\ Len(s) \in Nat /\ i \in 1 .. Len(s) + 1 /\ Framed(stack)
      /\ Tracks(s, i - 1, Kinds(stack)) /\ Scan(s)[i - 1].mode = "plain"
  BY Unfold
<1>2. i \in 1 .. Len(s) /\ s[i] = "quote" /\ After(i) = i + 1 /\ i + 1 \in 1 .. Len(s) + 1
  BY <1>1, PeekIn
<1>b. PICK K : K = Kinds(stack)
  OBVIOUS
<1>c. PICK t \in Seq(Char) : t = s
  BY <1>1
<1>3. t = s /\ K = Kinds(stack)
  BY <1>b, <1>c
<1>4. PICK k \in 1 .. Len(t) : k = i
  BY <1>2, <1>3
<1>5. Tracks(t, k, K) /\ Scan(t)[k].mode = "string"
  <2>1. Tracks(t, k, K) /\ Scan(t)[k].mode = ModeAfter(Scan(t)[k - 1].mode, t[k])
    BY <1>1, <1>2, <1>3, <1>4, StringStep
  <2>2. QED
    BY <1>1, <1>2, <1>3, <1>4, <2>1 DEF ModeAfter
<1>6. i' = i + 1 /\ i' - 1 = i
  BY <1>1, <1>2
<1>7. Tracks(s', i' - 1, Kinds(stack')) /\ StringsAgree'
  BY <1>3, <1>4, <1>5, <1>6 DEF StringsAgree, InString, Introduces
<1>8. Calls'
  BY DEF Calls, InObject
<1>9. Sound' /\ pc' \in Running
  BY <1>7, <1>8 DEF Sound, Running
<1>10. /\ str' = [chars |-> str'.chars, isKey |-> str'.isKey] /\ str'.isKey \in BOOLEAN
       /\ Framed(stack') /\ s' = s /\ i' \in i + 1 .. Len(s) + 1
  BY <1>1, <1>2, <1>6
<1>11. QED
  BY <1>9, <1>10, GoOn

LEMMA KeyAction == IInv /\ Key => IInv' /\ Advances
<1> SUFFICES ASSUME IInv, Key PROVE IInv' /\ Advances
  OBVIOUS
<1>1. CASE peek(i) # "quote"
  BY <1>1, FailStep DEF Key
<1>2. CASE peek(i) = "quote"
  <2>1. /\ pc = "key" /\ pc' = "string" /\ i' = After(i) /\ str' = [chars |-> << >>, isKey |-> TRUE]
        /\ UNCHANGED << s, stack, root >>
    BY <1>2 DEF Key
  <2>2. InObject
    BY <2>1 DEF IInv, Calls
  <2>3. QED
    BY <1>2, <2>1, <2>2, EnterString
<1>3. QED
  BY <1>1, <1>2

LEMMA BeginStringAction == IInv /\ BeginString => IInv' /\ Advances
<1> SUFFICES ASSUME IInv, BeginString PROVE IInv' /\ Advances
  OBVIOUS
<1>1. /\ pc = "value" /\ peek(i) = "quote" /\ pc' = "string" /\ i' = After(i)
      /\ str' = [chars |-> << >>, isKey |-> FALSE] /\ UNCHANGED << s, stack, root >>
  BY DEF BeginString
<1>2. QED
  BY <1>1, EnterString

\* The closing quote.
LEMMA EndStringAction ==
  ASSUME IInv, pc = "string", peek(i) = "quote", EndString
  PROVE  IInv' /\ Advances
<1>1. /\ s \in Seq(Char) /\ Len(s) \in Nat /\ i \in 1 .. Len(s) + 1 /\ Framed(stack)
      /\ Tracks(s, i - 1, Kinds(stack)) /\ (i <= Len(s) => Scan(s)[i - 1].mode = "string")
  BY Unfold
<1>2. i \in 1 .. Len(s) /\ s[i] = "quote" /\ After(i) = i + 1 /\ i + 1 \in 1 .. Len(s) + 1
  BY <1>1, PeekIn
<1>b. PICK K, q : K = Kinds(stack) /\ q = stack
  OBVIOUS
<1>c. PICK t \in Seq(Char) : t = s
  BY <1>1
<1>3. t = s /\ K = Kinds(stack) /\ q = stack
  BY <1>b, <1>c
<1>4. PICK k \in 1 .. Len(t) : k = i
  BY <1>2, <1>3
<1>a. Scan(t)[k - 1].mode = "string"
  BY <1>1, <1>2, <1>3, <1>4
<1>5. Tracks(t, k, K) /\ Scan(t)[k].mode = "plain"
  <2>1. Tracks(t, k, K) /\ Scan(t)[k].mode = ModeAfter(Scan(t)[k - 1].mode, t[k])
    BY <1>1, <1>2, <1>3, <1>4, <1>a, StringStep
  <2>2. QED
    BY <1>2, <1>3, <1>4, <1>a, <2>1 DEF ModeAfter
<1>6. PICK b \in 1 .. Len(s) + 1 : b = i + 1 /\ b - 1 = i
  <2>1. i + 1 \in 1 .. Len(s) + 1 /\ (i + 1) - 1 = i
    BY <1>1, <1>2
  <2>2. QED
    BY <2>1
<1>7. Scan(s)[b - 1].mode = "plain" /\ Tracks(s, b - 1, K)
  BY <1>3, <1>4, <1>5, <1>6
<1>8. /\ s' = s /\ str' = NoString
      /\ str' = [chars |-> str'.chars, isKey |-> str'.isKey] /\ str'.isKey \in BOOLEAN
  BY DEF EndString, NoString
<1>9. CASE str.isKey
  <2>1. /\ pc' = "colon" /\ i' = skip_ws(b)
        /\ stack' = [q EXCEPT ![Len(q)] = [q[Len(q)] EXCEPT !.key = str.chars]]
    BY <1>2, <1>3, <1>6, <1>9 DEF EndString
  <2>2. q # << >> /\ Last(q).kind = "object"
    BY <1>3, <1>9 DEF IInv, Calls, InObject
  <2>3. PICK x, r : x = str.chars /\ r = stack'
    OBVIOUS
  <2>4. Framed(r) /\ Kinds(r) = Kinds(q) /\ r # << >> /\ Last(r).kind = Last(q).kind
    <3>1. Framed(q) /\ q # << >>
      BY <1>1, <1>3, <2>2
    <3>2. r = [q EXCEPT ![Len(q)] = [q[Len(q)] EXCEPT !.key = x]]
      BY <2>1, <2>3
    <3>3. QED
      BY <3>1, <3>2, FillFrame
  <2>5. Kinds(stack') = K
    BY <1>3, <2>3, <2>4
  <2>6. i' \in b .. Len(s) + 1 /\ StringsAgree' /\ Tracks(s', i' - 1, Kinds(stack'))
    BY <1>1, <1>7, <1>8, <2>1, <2>5, Landed
  <2>7. Calls'
    BY <2>1, <2>2, <2>3, <2>4 DEF Calls, InObject
  <2>8. Sound' /\ pc' \in Running /\ Framed(stack')
    BY <2>1, <2>3, <2>4, <2>6, <2>7 DEF Sound, Running
  <2>9. i' \in i + 1 .. Len(s) + 1
    BY <1>6, <2>6
  <2>10. QED
    BY <1>8, <2>8, <2>9, GoOn
<1>10. CASE ~str.isKey
  <2>1. PICK v : v = Value("string", str.chars)
    OBVIOUS
  <2>2. Return(v, q, b)
    BY <1>2, <1>3, <1>6, <1>10, <2>1 DEF EndString
  <2>3. Framed(q) /\ K = Kinds(q)
    BY <1>1, <1>3
  <2>4. i' \in b .. Len(s) + 1 /\ pc' \in Running /\ Framed(stack') /\ Sound'
    BY <1>1, <1>7, <1>8, <2>2, <2>3, ReturnStep
  <2>5. i' \in i + 1 .. Len(s) + 1
    BY <1>6, <2>4
  <2>6. QED
    BY <1>8, <2>4, <2>5, GoOn
<1>11. QED
  BY <1>9, <1>10

\* A character of a string; an escape takes the next one with it.
LEMMA PushAction ==
  ASSUME IInv, pc = "string", peek(i) # "NUL", peek(i) # "quote", NEW c,
         Push(c, IF peek(i) = "esc" THEN After(After(i)) ELSE After(i))
  PROVE  IInv' /\ Advances
<1>1. /\ s \in Seq(Char) /\ Len(s) \in Nat /\ i \in 1 .. Len(s) + 1 /\ Framed(stack)
      /\ Tracks(s, i - 1, Kinds(stack)) /\ (i <= Len(s) => Scan(s)[i - 1].mode = "string")
      /\ str = [chars |-> str.chars, isKey |-> str.isKey] /\ str.isKey \in BOOLEAN
  BY Unfold
<1>2. i \in 1 .. Len(s) /\ peek(i) = s[i] /\ After(i) = i + 1 /\ i + 1 \in 1 .. Len(s) + 1
  BY <1>1, PeekIn
<1>b. PICK K : K = Kinds(stack)
  OBVIOUS
<1>c. PICK t \in Seq(Char) : t = s
  BY <1>1
<1>3. t = s /\ K = Kinds(stack)
  BY <1>b, <1>c
<1>4. PICK k \in 1 .. Len(t) : k = i
  BY <1>2, <1>3
<1>5. Scan(t)[k - 1].mode = "string"
  BY <1>1, <1>2, <1>3, <1>4
<1>6. Tracks(t, k, K) /\ Scan(t)[k].mode = IF t[k] = "esc" THEN "escape" ELSE "string"
  <2>1. Tracks(t, k, K) /\ Scan(t)[k].mode = ModeAfter(Scan(t)[k - 1].mode, t[k])
    BY <1>1, <1>3, <1>4, <1>5, StringStep
  <2>2. t[k] # "quote"
    BY <1>2, <1>3, <1>4
  <2>3. QED
    BY <1>5, <2>1, <2>2 DEF ModeAfter
<1>7. UNCHANGED << s, pc, stack, root >> /\ str' = [str EXCEPT !.chars = Append(@, c)]
  BY DEF Push
<1>8. str' = [chars |-> str'.chars, isKey |-> str'.isKey] /\ str'.isKey = str.isKey
  <2>1. PICK a, b : str = [chars |-> a, isKey |-> b]
    BY <1>1
  <2>2. str' = [chars |-> Append(a, c), isKey |-> b]
    BY <1>7, <2>1
  <2>3. QED
    BY <2>1, <2>2
<1>9. /\ i' \in i + 1 .. Len(s) + 1
      /\ Tracks(t, i' - 1, K) /\ Scan(t)[i' - 1].mode # "plain"
      /\ Scan(t)[i' - 1].mode = "escape" => i' = Len(s) + 1
  <2>1. CASE s[i] # "esc"
    <3>1. i' = i + 1 /\ i' - 1 = k
      BY <1>1, <1>2, <1>4, <2>1 DEF Push
    <3>2. QED
      BY <1>2, <1>3, <1>4, <1>6, <2>1, <3>1
  <2>2. CASE s[i] = "esc" /\ i = Len(s)
    <3>1. i' = i + 1 /\ i' - 1 = k
      BY <1>1, <1>2, <1>4, <2>2 DEF Push, After
    <3>2. QED
      BY <1>2, <1>3, <1>4, <1>6, <2>2, <3>1
  <2>3. CASE s[i] = "esc" /\ i # Len(s)
    <3>1. i' = i + 2 /\ i + 1 \in 1 .. Len(s) /\ i' - 1 = i + 1 /\ i' \in i + 1 .. Len(s) + 1
      BY <1>1, <1>2, <2>3 DEF Push, After
    <3>2. PICK n \in 1 .. Len(t) : n = i + 1 /\ n - 1 = k
      <4>1. i + 1 \in 1 .. Len(t) /\ (i + 1) - 1 = k
        BY <1>1, <1>3, <1>4, <3>1
      <4>2. QED
        BY <4>1
    <3>3. Scan(t)[n - 1].mode = "escape" /\ Tracks(t, n - 1, K)
      BY <1>3, <1>4, <1>6, <2>3, <3>2
    <3>4. Tracks(t, n, K) /\ Scan(t)[n].mode = ModeAfter(Scan(t)[n - 1].mode, t[n])
      BY <3>3, StringStep
    <3>5. Scan(t)[n].mode = "string"
      BY <3>3, <3>4 DEF ModeAfter
    <3>6. QED
      BY <3>1, <3>2, <3>4, <3>5
  <2>4. QED
    BY <2>1, <2>2, <2>3
<1>10. Tracks(s', i' - 1, Kinds(stack')) /\ StringsAgree'
  BY <1>3, <1>7, <1>9 DEF StringsAgree, InString, Introduces
<1>11. Calls'
  BY <1>7, <1>8 DEF Calls, IInv, InObject
<1>12. Sound' /\ pc' \in Running
  BY <1>7, <1>10, <1>11 DEF Sound, Running
<1>13. QED
  BY <1>1, <1>7, <1>8, <1>9, <1>12, GoOn

LEMMA StringCharAction == IInv /\ StringChar => IInv' /\ Advances
<1> SUFFICES ASSUME IInv, StringChar PROVE IInv' /\ Advances
  OBVIOUS
<1>0. pc = "string"
  BY DEF StringChar
<1>1. CASE peek(i) = "NUL"
  BY <1>1, FailStep DEF StringChar
<1>2. CASE peek(i) = "quote"
  BY <1>0, <1>2, EndStringAction DEF StringChar
<1>3. CASE peek(i) = "esc"
  <2>1. PICK c : c = Unescape(peek(After(i)))
    OBVIOUS
  <2>2. Push(c, After(After(i)))
    BY <1>3, <2>1 DEF StringChar
  <2>3. QED
    BY <1>0, <1>3, <2>2, PushAction
<1>4. CASE peek(i) \notin {"NUL", "quote", "esc"}
  <2>1. PICK c : c = peek(i)
    OBVIOUS
  <2>2. Push(c, After(i))
    BY <1>4, <2>1 DEF StringChar
  <2>3. QED
    BY <1>0, <1>4, <2>2, PushAction
<1>5. QED
  BY <1>1, <1>2, <1>3, <1>4

LEMMA EndDocumentAction == IInv /\ EndDocument => IInv' /\ Advances
<1> SUFFICES ASSUME IInv, EndDocument PROVE IInv' /\ Advances
  OBVIOUS
<1>1. CASE i # Len(s) + 1
  BY <1>1, FailStep DEF EndDocument
<1>2. CASE i = Len(s) + 1
  <2>1. pc = "end" /\ pc' = "ok" /\ UNCHANGED << s, i, stack, str, root >>
    BY <1>2 DEF EndDocument
  <2>2. TypeOK' /\ Tracks(s, i - 1, Kinds(stack))'
    BY <2>1 DEF IInv, TypeOK
  <2>3. StringsAgree'
    BY <2>1 DEF IInv, StringsAgree
  <2>4. Calls'
    BY <1>2, <2>1 DEF IInv, Calls
  <2>5. QED
    BY <2>1, <2>2, <2>3, <2>4 DEF IInv, Advances
<1>3. QED
  BY <1>1, <1>2
-----------------------------------------------------------------------------
(* The invariant                                                           *)

LEMMA InitIInv == Init => IInv
<1> SUFFICES ASSUME Init PROVE IInv
  OBVIOUS
<1>1. /\ s \in Texts /\ i = skip_ws(1) /\ pc = "value" /\ stack = << >> /\ str = NoString
      /\ s \in Seq(Char)
  BY ConfigAssumption DEF Init
<1>2. PICK t \in Seq(Char) : t = s
  BY <1>1
<1>3. Len(t) \in Nat /\ 1 \in 1 .. Len(t) + 1
  OBVIOUS
<1>4. PICK m \in 1 .. Len(t) + 1 : m = i /\ \A j \in 1 .. m - 1 : Quiet(t[j])
  BY <1>1, <1>2, <1>3, SkipWs
<1>5. Scan(t)[0].mode = "plain" /\ Tracks(t, 0, << >>)
  <2>1. Scan(t)[0].mode = "plain" /\ Depth(t, 0) = 0
    BY OneFurther
  <2>2. \A j \in Opening(t) \cup Closing(t) : ~(j <= 0)
    BY DEF Opening, Closing
  <2>3. Len(<< >>) = 0 /\ \A n \in DOMAIN << >> : FALSE
    OBVIOUS
  <2>4. QED
    BY <2>1, <2>2, <2>3 DEF Tracks
<1>6. Scan(t)[m - 1].mode = "plain" /\ Tracks(t, m - 1, << >>)
  <2>1. PICK k \in 1 .. Len(t) + 1 : k = 1 /\ k - 1 = 0
    BY <1>3
  <2>2. m \in k .. Len(t) + 1 /\ \A j \in k .. m - 1 : Quiet(t[j])
    BY <1>4, <2>1
  <2>3. QED
    BY <1>5, <2>1, <2>2, RunTracks
<1>7. Kinds(stack) = << >> /\ Framed(stack)
  BY <1>1 DEF Kinds, Framed
<1>8. TypeOK
  BY <1>1, <1>2, <1>4, <1>7 DEF TypeOK, Running, NoString
<1>9. Calls
  BY <1>1 DEF Calls
<1>10. StringsAgree
  BY <1>1, <1>2, <1>4, <1>6 DEF StringsAgree, InString, Introduces
<1>11. Tracks(s, i - 1, Kinds(stack))
  BY <1>2, <1>4, <1>6, <1>7
<1>12. QED
  BY <1>8, <1>9, <1>10, <1>11 DEF IInv

LEMMA ActionIInv == IInv /\ Next => IInv' /\ (Advances \/ UNCHANGED vars)
<1> SUFFICES ASSUME IInv, Next PROVE IInv' /\ (Advances \/ UNCHANGED vars)
  OBVIOUS
<1>1. CASE OpenObject
  <2>1. PICK kind, open, close, next :
           Brackets(kind, open, close, next) /\ Open(kind, open, close, next)
    BY <1>1 DEF OpenObject, Brackets
  <2>2. QED
    BY <2>1, OpenAction
<1>2. CASE OpenArray
  <2>1. PICK kind, open, close, next :
           Brackets(kind, open, close, next) /\ Open(kind, open, close, next)
    BY <1>2 DEF OpenArray, Brackets
  <2>2. QED
    BY <2>1, OpenAction
<1>3. CASE BeginString
  BY <1>3, BeginStringAction
<1>4. CASE Literal
  BY <1>4, LiteralAction
<1>5. CASE Number
  BY <1>5, NumberAction
<1>6. CASE Key
  BY <1>6, KeyAction
<1>7. CASE Colon
  BY <1>7, ColonAction
<1>8. CASE AfterMember
  <2>1. PICK at, kind, close, next :
           Loops(at, kind, close, next) /\ Follow(at, kind, close, next)
    BY <1>8 DEF AfterMember, Loops
  <2>2. QED
    BY <2>1, FollowAction
<1>9. CASE AfterItem
  <2>1. PICK at, kind, close, next :
           Loops(at, kind, close, next) /\ Follow(at, kind, close, next)
    BY <1>9 DEF AfterItem, Loops
  <2>2. QED
    BY <2>1, FollowAction
<1>10. CASE StringChar
  BY <1>10, StringCharAction
<1>11. CASE EndDocument
  BY <1>11, EndDocumentAction
<1>12. CASE Finished
  BY <1>12 DEF Finished, vars, IInv, TypeOK, Calls, InObject, InArray, StringsAgree
<1>13. QED
  BY <1>1, <1>2, <1>3, <1>4, <1>5, <1>6, <1>7, <1>8, <1>9, <1>10, <1>11, <1>12 DEF Next

LEMMA StepIInv == IInv /\ [Next]_vars => IInv' /\ [Advances]_vars
<1>1. CASE Next
  BY <1>1, ActionIInv
<1>2. CASE UNCHANGED vars
  BY <1>2 DEF vars, IInv, TypeOK, Calls, InObject, InArray, StringsAgree
<1>3. QED
  BY <1>1, <1>2

LEMMA AlwaysIInv == Spec => []IInv
<1>1. IInv /\ [Next]_vars => IInv'
  BY StepIInv
<1>2. QED
  BY <1>1, InitIInv, PTL DEF Spec
-----------------------------------------------------------------------------
(* What has been built is what the text up to the cursor says              *)

\* The value v says what the text says from position k on, along every rest of
\* a path.
Rests == UNION {{SubSeq(path, n, Len(path)) : n \in 1 .. Len(path) + 1} : path \in Paths}
Reads(t, v, k) ==
  \A path \in Rests :
    LET got == find(v, path)
        at == Locate(t, k, path)
    IN  /\ got.t = KindAt(t, at)
        /\ KindAt(t, at) = "string" => got.v = StringAt(t, at)
        /\ KindAt(t, at) = "number" => got.v = NumberAt(t, at)

\* The members are those of the colons up to e of the object that opens at j:
\* of each key the first one.
IsFirst(t, j, c) == \A d \in Colons(t, j) : KeyAt(t, d) = KeyAt(t, c) => c <= d
MembersUpTo(t, j, members, e) ==
  /\ members \in Seq({members[m] : m \in DOMAIN members})
  /\ \A c \in Colons(t, j) : c <= e => \E m \in DOMAIN members : members[m].key = KeyAt(t, c)
  /\ \A m \in DOMAIN members : \E c \in Colons(t, j) :
       /\ c <= e /\ IsFirst(t, j, c) /\ members[m].key = KeyAt(t, c)
       /\ Reads(t, members[m].value, FirstInk(t, c + 1))

\* The bracket of the n-th frame is at j.
IsPlace(t, k, n, j) == j \in Opening(t) /\ j <= k /\ StaysOpen(t, j, k) /\ Depth(t, j) = n

\* An object that waits for the value of the key after the last colon c, which
\* begins at p; an object with all members before the cursor.
WaitsIn(t, j, frame, k, p) ==
  frame.kind = "object" =>
    \E c \in Colons(t, j) :
      /\ c <= k /\ \A d \in Colons(t, j) : d <= k => d <= c
      /\ MembersUpTo(t, j, frame.members, c - 1)
      /\ frame.key = KeyAt(t, c) /\ p = FirstInk(t, c + 1)
WaitsFor(t, frames, n, k, p) ==
  IF n = 0 THEN p = FirstInk(t, 1)
  ELSE \A j \in Opening(t) : IsPlace(t, k, n, j) => WaitsIn(t, j, frames[n], k, p)
Settled(t, frames, k) ==
  \A j \in Opening(t) :
    IsPlace(t, k, Len(frames), j) => MembersUpTo(t, j, Last(frames).members, k)

\* Every frame waits for the value that the next one is building.
FramesWait(t, frames, k) ==
  \A n \in 1 .. Len(frames) : \A j \in Opening(t) :
    IsPlace(t, k, n, j) => WaitsFor(t, frames, n - 1, k, j)

\* The string that opens at q is open, and read as far as the cursor; an escape
\* at the very end is not in it.
StringFrom(q) ==
  /\ s[q] = "quote" /\ ~InString(s, q - 1) /\ \A m \in q .. i - 1 : InString(s, m)
  /\ Introduces(s, i - 1) \/ str.chars = Read(s, q)[i - 1]
  /\ IF str.isKey THEN Settled(s, stack, i - 1) ELSE WaitsFor(s, stack, Len(stack), i - 1, q)

Written ==
  /\ FramesWait(s, stack, i - 1)
  /\ pc = "value" => WaitsFor(s, stack, Len(stack), i - 1, i)
  /\ pc = "string" => \E q \in 1 .. i - 1 : StringFrom(q)
  /\ pc \in {"key", "colon", "member"} => Settled(s, stack, i - 1)
  /\ pc = "colon" => Last(stack).key = KeyAt(s, i)
  /\ pc \in {"end", "ok"} => Reads(s, root, FirstInk(s, 1))

WInv == IInv /\ (pc # "error" /\ NoUnicode(s) => Written)

-----------------------------------------------------------------------------
(* Definitions by recursion                                                *)

(***************************************************************************)
(* The three recursive definitions (find, Locate and Read) have solutions: *)
(* all of them continue what they have by one step.                        *)
(***************************************************************************)
Continued(what, t, path, x, n) ==
  CASE what = "find" -> Member(x, path[n])
    [] what = "Locate" -> MemberAt(t, x, path[n])
    [] OTHER -> IF Introduces(t, n) THEN x
                ELSE IF Introduces(t, n - 1) THEN Escaped(x, t[n]) ELSE Append(x, t[n])
Chain(c, what, t, path, a, lo, hi) ==
  c = [n \in lo .. hi |-> IF n = lo THEN a ELSE Continued(what, t, path, c[n - 1], n)]

LEMMA ChainsExist ==
  ASSUME NEW what, NEW t, NEW path, NEW a, NEW lo \in Nat, NEW hi \in Nat, lo <= hi
  PROVE  \E c : Chain(c, what, t, path, a, lo, hi)
<1> DEFINE Bad == { k \in Nat : lo <= k /\ ~ \E c : Chain(c, what, t, path, a, lo, k) }
<1>1. ASSUME Bad # {} PROVE FALSE
  <2>1. PICK k \in Bad : \A j \in Bad : k <= j
    <3>1. Bad \subseteq Nat
      OBVIOUS
    <3> HIDE DEF Bad
    <3> QED BY <1>1, <3>1, LeastNumber
  <2>2. k \in Nat /\ lo <= k /\ ~ \E c : Chain(c, what, t, path, a, lo, k)
    BY <2>1
  <2>3. k # lo
    <3> DEFINE g == [n \in lo .. lo |-> a]
    <3>1. g = [n \in lo .. lo |-> IF n = lo THEN a ELSE Continued(what, t, path, g[n - 1], n)]
      OBVIOUS
    <3> HIDE DEF g
    <3>2. QED
      BY <2>2, <3>1 DEF Chain
  <2>4. k - 1 \in Nat /\ lo <= k - 1 /\ k - 1 \notin Bad
    <3>1. k - 1 \in Nat /\ lo <= k - 1 /\ ~(k <= k - 1)
      BY <2>2, <2>3
    <3> HIDE DEF Bad
    <3> QED BY <2>1, <3>1
  <2>5. PICK f : Chain(f, what, t, path, a, lo, k - 1)
    BY <2>4
  <2>6. \A n \in lo .. k - 1 : f[n] = IF n = lo THEN a ELSE Continued(what, t, path, f[n - 1], n)
    BY <2>5, Zenon DEF Chain
  <2> DEFINE g == [n \in lo .. k |-> IF n = k THEN Continued(what, t, path, f[k - 1], k) ELSE f[n]]
  <2>7. ASSUME NEW n \in lo .. k
        PROVE  g[n] = IF n = lo THEN a ELSE Continued(what, t, path, g[n - 1], n)
    <3>1. n \in Nat /\ (n # lo => n - 1 \in lo .. k /\ n - 1 # k)
      BY <2>2
    <3>2. n # lo => g[n - 1] = f[n - 1]
      BY <3>1
    <3>3. CASE n = k
      BY <2>3, <3>2, <3>3
    <3>4. CASE n # k
      <4>1. n \in lo .. k - 1
        BY <2>2, <3>4
      <4>2. QED
        BY <2>6, <3>2, <3>4, <4>1
    <3>5. QED
      BY <3>3, <3>4
  <2>8. g = [n \in lo .. k |-> g[n]]
    OBVIOUS
  <2> HIDE DEF g
  <2>9. Chain(g, what, t, path, a, lo, k)
    BY <2>7, <2>8 DEF Chain
  <2>10. QED
    BY <2>2, <2>9
<1>2. QED
  BY <1>1

Steps(c, what, t, path, a, lo, hi) ==
  /\ c[lo] = a
  /\ \A n \in lo + 1 .. hi : c[n] = Continued(what, t, path, c[n - 1], n)

LEMMA ChainSteps ==
  ASSUME NEW c, NEW what, NEW t, NEW path, NEW a, NEW lo \in Nat, NEW hi \in Nat, lo <= hi,
         Chain(c, what, t, path, a, lo, hi)
  PROVE  Steps(c, what, t, path, a, lo, hi)
<1>1. \A n \in lo .. hi : c[n] = IF n = lo THEN a ELSE Continued(what, t, path, c[n - 1], n)
  BY Zenon DEF Chain
<1>2. lo \in lo .. hi /\ \A n \in lo + 1 .. hi : n \in lo .. hi /\ n # lo
  OBVIOUS
<1>3. QED
  BY <1>1, <1>2 DEF Steps

LEMMA FindIs ==
  ASSUME NEW v, NEW path, NEW N \in Nat, Len(path) = N
  PROVE  \E c : Steps(c, "find", << >>, path, v, 0, N) /\ find(v, path) = c[N]
<1> DEFINE f == CHOOSE c : c = [n \in 0 .. N |-> IF n = 0 THEN v ELSE Member(c[n - 1], path[n])]
<1>1. \A c : Chain(c, "find", << >>, path, v, 0, N)
         <=> c = [n \in 0 .. N |-> IF n = 0 THEN v ELSE Member(c[n - 1], path[n])]
  <2>1. \A x, n : Continued("find", << >>, path, x, n) = Member(x, path[n])
    BY DEF Continued
  <2>2. ASSUME NEW c
        PROVE  [n \in 0 .. N |-> IF n = 0 THEN v ELSE Continued("find", << >>, path, c[n - 1], n)]
                 = [n \in 0 .. N |-> IF n = 0 THEN v ELSE Member(c[n - 1], path[n])]
    BY <2>1
  <2>3. QED
    BY <2>2, Zenon DEF Chain
<1>0. 0 \in Nat /\ 0 <= N
  OBVIOUS
<1>2. \E c : Chain(c, "find", << >>, path, v, 0, N)
  BY <1>0, ChainsExist
<1>3. f = [n \in 0 .. N |-> IF n = 0 THEN v ELSE Member(f[n - 1], path[n])]
  BY <1>1, <1>2, Zenon
<1>4. find(v, path) = f[N]
  BY Zenon DEF find
<1> HIDE DEF f
<1>5. Chain(f, "find", << >>, path, v, 0, N)
  BY <1>1, <1>3
<1>6. QED
  BY <1>0, <1>4, <1>5, ChainSteps

LEMMA LocateIs ==
  ASSUME NEW t, NEW k, NEW path, NEW N \in Nat, Len(path) = N
  PROVE  \E c : Steps(c, "Locate", t, path, k, 0, N) /\ Locate(t, k, path) = c[N]
<1> DEFINE f == CHOOSE c : c = [n \in 0 .. N |-> IF n = 0 THEN k ELSE MemberAt(t, c[n - 1], path[n])]
<1>1. \A c : Chain(c, "Locate", t, path, k, 0, N)
         <=> c = [n \in 0 .. N |-> IF n = 0 THEN k ELSE MemberAt(t, c[n - 1], path[n])]
  <2>1. \A x, n : Continued("Locate", t, path, x, n) = MemberAt(t, x, path[n])
    BY DEF Continued
  <2>2. ASSUME NEW c
        PROVE  [n \in 0 .. N |-> IF n = 0 THEN k ELSE Continued("Locate", t, path, c[n - 1], n)]
                 = [n \in 0 .. N |-> IF n = 0 THEN k ELSE MemberAt(t, c[n - 1], path[n])]
    BY <2>1
  <2>3. QED
    BY <2>2, Zenon DEF Chain
<1>0. 0 \in Nat /\ 0 <= N
  OBVIOUS
<1>2. \E c : Chain(c, "Locate", t, path, k, 0, N)
  BY <1>0, ChainsExist
<1>3. f = [n \in 0 .. N |-> IF n = 0 THEN k ELSE MemberAt(t, f[n - 1], path[n])]
  BY <1>1, <1>2, Zenon
<1>4. Locate(t, k, path) = f[N]
  BY Zenon DEF Locate
<1> HIDE DEF f
<1>5. Chain(f, "Locate", t, path, k, 0, N)
  BY <1>1, <1>3
<1>6. QED
  BY <1>0, <1>4, <1>5, ChainSteps

LEMMA ReadIs ==
  ASSUME NEW t \in Seq(Char), NEW q \in 1 .. Len(t)
  PROVE  /\ Read(t, q)[q] = << >>
         /\ \A k \in q + 1 .. Len(t) :
              Read(t, q)[k] = IF Introduces(t, k) THEN Read(t, q)[k - 1]
                              ELSE IF Introduces(t, k - 1) THEN Escaped(Read(t, q)[k - 1], t[k])
                              ELSE Append(Read(t, q)[k - 1], t[k])
<1> DEFINE N == Len(t)
           f == CHOOSE c : c = [k \in q .. N |->
                  IF k = q THEN << >>
                  ELSE IF Introduces(t, k) THEN c[k - 1]
                  ELSE IF Introduces(t, k - 1) THEN Escaped(c[k - 1], t[k])
                  ELSE Append(c[k - 1], t[k])]
<1>0. N \in Nat /\ q \in Nat /\ q <= N
  OBVIOUS
<1>1. \A c : Chain(c, "Read", t, t, << >>, q, N)
         <=> c = [k \in q .. N |->
                  IF k = q THEN << >>
                  ELSE IF Introduces(t, k) THEN c[k - 1]
                  ELSE IF Introduces(t, k - 1) THEN Escaped(c[k - 1], t[k])
                  ELSE Append(c[k - 1], t[k])]
  <2>1. \A x, k : Continued("Read", t, t, x, k) =
           IF Introduces(t, k) THEN x
           ELSE IF Introduces(t, k - 1) THEN Escaped(x, t[k])
           ELSE Append(x, t[k])
    BY DEF Continued
  <2>2. QED
    BY <2>1, Zenon DEF Chain
<1>2. \E c : Chain(c, "Read", t, t, << >>, q, N)
  BY <1>0, ChainsExist
<1>3. f = [k \in q .. N |->
             IF k = q THEN << >>
             ELSE IF Introduces(t, k) THEN f[k - 1]
             ELSE IF Introduces(t, k - 1) THEN Escaped(f[k - 1], t[k])
             ELSE Append(f[k - 1], t[k])]
  BY <1>1, <1>2, Zenon
<1>4. Read(t, q) = f
  BY Zenon DEF Read
<1> HIDE DEF f
<1>5. \A k \in q .. N : f[k] = IF k = q THEN << >>
                              ELSE IF Introduces(t, k) THEN f[k - 1]
                              ELSE IF Introduces(t, k - 1) THEN Escaped(f[k - 1], t[k])
                              ELSE Append(f[k - 1], t[k])
  BY <1>3, Zenon
<1>6. q \in q .. N /\ \A k \in q + 1 .. N : k \in q .. N /\ k # q
  BY <1>0
<1>7. QED
  BY <1>4, <1>5, <1>6, Zenon

-----------------------------------------------------------------------------
(* Paths, and what a value says along them                                 *)

(***************************************************************************)
(* A path that is not empty is a key and the rest of the path.             *)
(***************************************************************************)
RestOf(rest, path) ==
  Len(rest) = Len(path) - 1 /\ \A n \in 1 .. Len(path) - 1 : rest[n] = path[n + 1]

LEMMA RestIn ==
  ASSUME NEW path \in Paths, NEW n \in 1 .. Len(path) + 1
  PROVE  SubSeq(path, n, Len(path)) \in Rests
<1> DEFINE S(p) == {SubSeq(p, m, Len(p)) : m \in 1 .. Len(p) + 1}
<1>1. SubSeq(path, n, Len(path)) \in S(path)
  OBVIOUS
<1>2. Rests = UNION {S(p) : p \in Paths}
  BY DEF Rests
<1> HIDE DEF S
<1>3. QED
  BY <1>1, <1>2

LEMMA RestsType ==
  /\ \A path \in Rests : Len(path) \in Nat
  /\ \A path \in Rests : Len(path) # 0 => \E rest \in Rests : RestOf(rest, path)
  /\ Paths \subseteq Rests
<1>1. ASSUME NEW whole \in Paths, NEW n \in 1 .. Len(whole) + 1
      PROVE  /\ Len(whole) \in Nat
             /\ Len(SubSeq(whole, n, Len(whole))) = Len(whole) - n + 1
             /\ \A m \in 1 .. Len(whole) - n + 1 : SubSeq(whole, n, Len(whole))[m] = whole[n + m - 1]
  <2>1. whole \in Seq({whole[m] : m \in DOMAIN whole})
    BY ConfigAssumption
  <2>2. QED
    BY <2>1
<1>2. ASSUME NEW path \in Rests
      PROVE  Len(path) \in Nat /\ (Len(path) # 0 => \E rest \in Rests : RestOf(rest, path))
  <2>0. PICK whole \in Paths : \E n \in 1 .. Len(whole) + 1 : path = SubSeq(whole, n, Len(whole))
    BY Zenon DEF Rests
  <2>1. PICK n \in 1 .. Len(whole) + 1 : path = SubSeq(whole, n, Len(whole))
    BY <2>0
  <2>2. /\ Len(whole) \in Nat /\ n \in Nat /\ Len(path) = Len(whole) - n + 1
        /\ \A m \in 1 .. Len(whole) - n + 1 : path[m] = whole[n + m - 1]
    BY <1>1, <2>1
  <2>3. Len(path) \in Nat
    BY <2>1, <2>2
  <2>4. ASSUME Len(path) # 0 PROVE \E rest \in Rests : RestOf(rest, path)
    <3> DEFINE rest == SubSeq(whole, n + 1, Len(whole))
    <3>1. n + 1 \in 1 .. Len(whole) + 1
      BY <2>2, <2>4
    <3>2. rest \in Rests
      BY <3>1, RestIn
    <3>3. /\ Len(rest) = Len(whole) - (n + 1) + 1
          /\ \A m \in 1 .. Len(whole) - (n + 1) + 1 : rest[m] = whole[(n + 1) + m - 1]
      BY <1>1, <3>1
    <3> HIDE DEF rest
    <3>4. RestOf(rest, path)
      BY <2>2, <3>3 DEF RestOf
    <3>5. QED
      BY <3>2, <3>4
  <2>5. QED
    BY <2>3, <2>4
<1>3. ASSUME NEW path \in Paths PROVE path \in Rests
  <2>1. path \in Seq({path[m] : m \in DOMAIN path})
    BY ConfigAssumption
  <2>2. SubSeq(path, 1, Len(path)) = path /\ 1 \in 1 .. Len(path) + 1
    BY <2>1
  <2>3. QED
    BY <2>2, RestIn
<1>4. QED
  BY <1>2, <1>3

\* Walking a path from the second place on is walking the rest of it.
LEMMA SameSteps ==
  ASSUME NEW what \in {"find", "Locate"}, NEW t, NEW path, NEW rest, NEW N \in Nat, N > 0,
         Len(path) = N, RestOf(rest, path), NEW a, NEW c, NEW d,
         Steps(c, what, t, path, a, 0, N),
         Steps(d, what, t, rest, Continued(what, t, path, a, 1), 0, N - 1)
  PROVE  c[N] = d[N - 1]
<1> DEFINE Bad == { n \in Nat : n <= N - 1 /\ d[n] # c[n + 1] }
<1>1. ASSUME Bad # {} PROVE FALSE
  <2>1. PICK k \in Bad : \A j \in Bad : k <= j
    <3>1. Bad \subseteq Nat
      OBVIOUS
    <3> HIDE DEF Bad
    <3> QED BY <1>1, <3>1, LeastNumber
  <2>2. k \in Nat /\ k <= N - 1 /\ d[k] # c[k + 1]
    BY <2>1
  <2>3. k # 0
    <3>1. d[0] = Continued(what, t, path, a, 1) /\ c[0] = a
      BY DEF Steps
    <3>2. 1 \in 0 + 1 .. N /\ 1 - 1 = 0
      OBVIOUS
    <3>3. c[1] = Continued(what, t, path, c[1 - 1], 1)
      BY <3>2 DEF Steps
    <3>4. c[1] = d[0]
      BY <3>1, <3>2, <3>3
    <3>5. QED
      BY <2>2, <3>4
  <2>4. k - 1 \in Nat /\ k - 1 <= N - 1 /\ k - 1 \notin Bad
    <3>1. k - 1 \in Nat /\ k - 1 <= N - 1 /\ ~(k <= k - 1)
      BY <2>2, <2>3
    <3> HIDE DEF Bad
    <3> QED BY <2>1, <3>1
  <2>5. d[k - 1] = c[k]
    <3>1. (k - 1) + 1 = k
      BY <2>2
    <3>2. QED
      BY <2>4, <3>1
  <2>6. k \in 0 + 1 .. N - 1 /\ k + 1 \in 0 + 1 .. N /\ (k + 1) - 1 = k
    BY <2>2, <2>3
  <2>7. d[k] = Continued(what, t, rest, d[k - 1], k)
    BY <2>6 DEF Steps
  <2>8. c[k + 1] = Continued(what, t, path, c[(k + 1) - 1], k + 1)
    BY <2>6 DEF Steps
  <2>9. rest[k] = path[k + 1]
    BY <2>6 DEF RestOf
  <2>10. QED
    BY <2>2, <2>5, <2>6, <2>7, <2>8, <2>9 DEF Continued
<1>2. N - 1 \in Nat /\ N - 1 \notin Bad /\ (N - 1) + 1 = N
  BY <1>1
<1>3. QED
  BY <1>2

LEMMA FindRest ==
  ASSUME NEW path, NEW rest, Len(path) \in Nat, Len(path) # 0, RestOf(rest, path), NEW v
  PROVE  find(v, path) = find(Member(v, path[1]), rest)
<1> DEFINE N == Len(path)
<1>1. N \in Nat /\ N > 0 /\ N - 1 \in Nat /\ Len(rest) = N - 1
  BY DEF RestOf
<1>2. PICK c : Steps(c, "find", << >>, path, v, 0, N) /\ find(v, path) = c[N]
  BY <1>1, FindIs
<1>a. PICK M \in Nat : M = N - 1
  BY <1>1
<1>b. PICK w : w = Member(v, path[1])
  OBVIOUS
<1>3. PICK d : Steps(d, "find", << >>, rest, w, 0, M) /\ find(w, rest) = d[M]
  BY <1>1, <1>a, FindIs
<1>4. Continued("find", << >>, path, v, 1) = Member(v, path[1])
  BY DEF Continued
<1>5. c[N] = d[N - 1]
  BY <1>1, <1>2, <1>3, <1>4, <1>a, <1>b, SameSteps
<1>6. QED
  BY <1>2, <1>3, <1>5, <1>a, <1>b

LEMMA LocateRest ==
  ASSUME NEW path, NEW rest, Len(path) \in Nat, Len(path) # 0, RestOf(rest, path), NEW t, NEW k
  PROVE  Locate(t, k, path) = Locate(t, MemberAt(t, k, path[1]), rest)
<1> DEFINE N == Len(path)
<1>1. N \in Nat /\ N > 0 /\ N - 1 \in Nat /\ Len(rest) = N - 1
  BY DEF RestOf
<1>2. PICK c : Steps(c, "Locate", t, path, k, 0, N) /\ Locate(t, k, path) = c[N]
  BY <1>1, LocateIs
<1>3. PICK d : Steps(d, "Locate", t, rest, MemberAt(t, k, path[1]), 0, N - 1)
               /\ Locate(t, MemberAt(t, k, path[1]), rest) = d[N - 1]
  BY <1>1, LocateIs
<1>4. Continued("Locate", t, path, k, 1) = MemberAt(t, k, path[1])
  BY DEF Continued
<1>5. c[N] = d[N - 1]
  BY <1>1, <1>2, <1>3, <1>4, SameSteps
<1>6. QED
  BY <1>2, <1>3, <1>5

LEMMA NoPath ==
  ASSUME NEW path, Len(path) = 0, NEW t, NEW v, NEW k
  PROVE  find(v, path) = v /\ Locate(t, k, path) = k
<1>1. 0 \in Nat
  OBVIOUS
<1>2. find(v, path) = v
  <2>1. \E c : Steps(c, "find", << >>, path, v, 0, 0) /\ find(v, path) = c[0]
    <3>1. PICK N \in Nat : N = 0 /\ Len(path) = N
      OBVIOUS
    <3>2. \E c : Steps(c, "find", << >>, path, v, 0, N) /\ find(v, path) = c[N]
      BY <3>1, FindIs
    <3>3. QED
      BY <3>1, <3>2
  <2>2. QED
    BY <2>1 DEF Steps
<1>3. Locate(t, k, path) = k
  <2>1. \E c : Steps(c, "Locate", t, path, k, 0, 0) /\ Locate(t, k, path) = c[0]
    BY <1>1, LocateIs
  <2>2. QED
    BY <2>1 DEF Steps
<1>4. QED
  BY <1>2, <1>3

\* What is not there stays not there, however long the path.
LEMMA StaysMissing ==
  ASSUME NEW what, NEW t, NEW path, NEW a, NEW N \in Nat, NEW c, Steps(c, what, t, path, a, 0, N),
         \A n \in 1 .. N : Continued(what, t, path, a, n) = a
  PROVE  c[N] = a
<1> DEFINE Bad == { n \in Nat : n <= N /\ c[n] # a }
<1>1. ASSUME Bad # {} PROVE FALSE
  <2>1. PICK k \in Bad : \A j \in Bad : k <= j
    <3>1. Bad \subseteq Nat
      OBVIOUS
    <3> HIDE DEF Bad
    <3> QED BY <1>1, <3>1, LeastNumber
  <2>2. k \in Nat /\ k <= N /\ c[k] # a
    BY <2>1
  <2>3. k # 0
    BY <2>2 DEF Steps
  <2>4. k - 1 \in Nat /\ k - 1 <= N /\ k - 1 \notin Bad
    <3>1. k - 1 \in Nat /\ k - 1 <= N /\ ~(k <= k - 1)
      BY <2>2, <2>3
    <3> HIDE DEF Bad
    <3> QED BY <2>1, <3>1
  <2>5. k \in 0 + 1 .. N /\ k \in 1 .. N
    BY <2>2, <2>3
  <2>6. c[k] = Continued(what, t, path, c[k - 1], k)
    BY <2>5 DEF Steps
  <2>7. QED
    BY <2>2, <2>4, <2>5, <2>6
<1>2. N \notin Bad /\ N <= N
  BY <1>1
<1>3. QED
  BY <1>2

LEMMA MissingHas == \A key : Member(Missing, key) = Missing
  BY DEF Member, Missing, Value

LEMMA NowhereHas == \A t, key : MemberAt(t, 0, key) = 0
  BY DEF MemberAt

LEMMA ReadsMissing ==
  ASSUME NEW t
  PROVE  Reads(t, Missing, 0)
<1>a. KindAt(t, 0) = "missing" /\ Missing.t = "missing"
  BY DEF KindAt, Missing, Value
<1> SUFFICES ASSUME NEW path \in Rests
             PROVE  find(Missing, path) = Missing /\ Locate(t, 0, path) = 0
  BY <1>a DEF Reads
<1>1. PICK N \in Nat : N = Len(path)
  BY RestsType
<1>2. find(Missing, path) = Missing
  <2>1. PICK c : Steps(c, "find", << >>, path, Missing, 0, N) /\ find(Missing, path) = c[N]
    BY <1>1, FindIs
  <2>2. \A n \in 1 .. N : Continued("find", << >>, path, Missing, n) = Missing
    BY MissingHas DEF Continued
  <2>3. QED
    BY <2>1, <2>2, StaysMissing
<1>3. Locate(t, 0, path) = 0
  <2>1. PICK c : Steps(c, "Locate", t, path, 0, 0, N) /\ Locate(t, 0, path) = c[N]
    BY <1>1, LocateIs
  <2>2. \A n \in 1 .. N : Continued("Locate", t, path, 0, n) = 0
    BY NowhereHas DEF Continued
  <2>3. QED
    BY <2>1, <2>2, StaysMissing
<1>4. QED
  BY <1>2, <1>3

(***************************************************************************)
(* A value says what the text says if it does at its own place and its     *)
(* members do at theirs.                                                   *)
(***************************************************************************)
Agrees(t, v, k) ==
  /\ v.t = KindAt(t, k)
  /\ KindAt(t, k) = "string" => v.v = StringAt(t, k)
  /\ KindAt(t, k) = "number" => v.v = NumberAt(t, k)

LEMMA ReadsMembers ==
  ASSUME NEW t, NEW v, NEW k, Agrees(t, v, k),
         \A key : Reads(t, Member(v, key), MemberAt(t, k, key))
  PROVE  Reads(t, v, k)
<1> SUFFICES ASSUME NEW path \in Rests
             PROVE  Agrees(t, find(v, path), Locate(t, k, path))
  BY DEF Reads, Agrees
<1>1. CASE Len(path) = 0
  BY <1>1, NoPath
<1>2. CASE Len(path) # 0
  <2>1. PICK rest \in Rests : RestOf(rest, path)
    BY <1>2, RestsType
  <2>2. Len(path) \in Nat
    BY RestsType
  <2>3. find(v, path) = find(Member(v, path[1]), rest)
    BY <1>2, <2>1, <2>2, FindRest
  <2>4. Locate(t, k, path) = Locate(t, MemberAt(t, k, path[1]), rest)
    BY <1>2, <2>1, <2>2, LocateRest
  <2>5. Reads(t, Member(v, path[1]), MemberAt(t, k, path[1]))
    OBVIOUS
  <2>6. Agrees(t, find(Member(v, path[1]), rest), Locate(t, MemberAt(t, k, path[1]), rest))
    BY <2>1, <2>5, Zenon DEF Reads, Agrees
  <2>7. QED
    BY <2>3, <2>4, <2>6
<1>3. QED
  BY <1>1, <1>2

LEMMA ReadsLeaf ==
  ASSUME NEW t, NEW v, NEW k, Agrees(t, v, k), v.t # "object", t[k] # "{"
  PROVE  Reads(t, v, k)
<1>1. ASSUME NEW key PROVE Member(v, key) = Missing /\ MemberAt(t, k, key) = 0
  BY DEF Member, MemberAt
<1>2. \A key : Reads(t, Member(v, key), MemberAt(t, k, key))
  BY <1>1, ReadsMissing
<1>3. QED
  BY <1>2, ReadsMembers

(***************************************************************************)
(* An object with the members of all its colons.                           *)
(***************************************************************************)
Hits(v, key) == IF v.t # "object" THEN {} ELSE {k \in DOMAIN v.v : v.v[k].key = key}
HitsAt(t, k, key) ==
  {c \in IF k # 0 /\ t[k] = "{" THEN Colons(t, k) ELSE {} : KeyAt(t, c) = key}

LEMMA MemberIs ==
  ASSUME NEW v, NEW key
  PROVE  Member(v, key) = IF Hits(v, key) = {} THEN Missing
                          ELSE v.v[CHOOSE k \in Hits(v, key) : TRUE].value
BY Zenon DEF Member, Hits

LEMMA MemberAtIs ==
  ASSUME NEW t, NEW k, NEW key
  PROVE  MemberAt(t, k, key) =
           IF HitsAt(t, k, key) = {} THEN 0
           ELSE FirstInk(t, (CHOOSE c \in HitsAt(t, k, key) : \A d \in HitsAt(t, k, key) : c <= d) + 1)
BY Zenon DEF MemberAt, HitsAt

\* The least of some numbers.
LEMMA LeastIs ==
  ASSUME NEW S, S \subseteq Int, NEW m \in S, \A d \in S : m <= d
  PROVE  (CHOOSE c \in S : \A d \in S : c <= d) = m
<1>1. PICK b : b = CHOOSE c \in S : \A d \in S : c <= d
  OBVIOUS
<1>2. b \in S /\ \A d \in S : b <= d
  BY <1>1, Zenon
<1>3. b <= m /\ m <= b /\ b \in Int /\ m \in Int
  BY <1>2
<1>4. b = m
  BY <1>3
<1>5. QED
  BY <1>1, <1>4

LEMMA ColonsBeyond ==
  ASSUME NEW t \in Seq(Char), NEW j \in 1 .. Len(t)
  PROVE  /\ j \in Nat /\ j # 0 /\ j > 0 /\ Colons(t, j) \subseteq Int
         /\ \A c \in Colons(t, j) : c \in 1 .. Len(t) /\ c > j
BY DEF Colons

LEMMA ReadsObject ==
  ASSUME NEW t \in Seq(Char), NEW v, NEW j \in 1 .. Len(t), NEW e \in Int,
         t[j] = "{", v.t = "object", MembersUpTo(t, j, v.v, e),
         \A c \in Colons(t, j) : c <= e
  PROVE  Reads(t, v, j)
<1>0. j # 0 /\ j > 0
  BY ColonsBeyond
<1>1. Agrees(t, v, j)
  BY <1>0 DEF Agrees, KindAt, NumChar
<1>2. ASSUME NEW key PROVE Reads(t, Member(v, key), MemberAt(t, j, key))
  <2>1. PICK H : H = Hits(v, key)
    OBVIOUS
  <2>2. \A k : k \in H <=> k \in DOMAIN v.v /\ v.v[k].key = key
    BY <2>1 DEF Hits
  <2>3. PICK C : C = HitsAt(t, j, key)
    OBVIOUS
  <2>4. \A c : c \in C <=> c \in Colons(t, j) /\ KeyAt(t, c) = key
    BY <1>0, <2>3 DEF HitsAt
  <2>5. Colons(t, j) \subseteq Int
    BY ColonsBeyond
  <2>6. C \subseteq Int
    BY <2>4, <2>5
  <2>7. CASE H = {}
    <3>1. C = {}
      BY <2>2, <2>4, <2>7 DEF MembersUpTo
    <3>2. Member(v, key) = Missing
      BY <2>1, <2>7, MemberIs
    <3>3. MemberAt(t, j, key) = 0
      BY <2>3, <3>1, MemberAtIs
    <3>4. QED
      BY <3>2, <3>3, ReadsMissing
  <2>8. CASE H # {}
    <3>1. PICK k \in H : k = CHOOSE h \in H : TRUE
      BY <2>8
    <3>2. PICK c \in Colons(t, j) : /\ IsFirst(t, j, c) /\ v.v[k].key = KeyAt(t, c)
                                    /\ Reads(t, v.v[k].value, FirstInk(t, c + 1))
      BY <2>2, <3>1 DEF MembersUpTo
    <3>3. c \in C /\ \A d \in C : c <= d
      BY <2>2, <2>4, <3>1, <3>2 DEF IsFirst
    <3>4. (CHOOSE b \in C : \A d \in C : b <= d) = c
      BY <2>6, <3>3, LeastIs
    <3>5. Member(v, key) = v.v[k].value
      BY <2>1, <2>8, <3>1, MemberIs
    <3>6. MemberAt(t, j, key) = FirstInk(t, c + 1)
      BY <2>3, <3>3, <3>4, MemberAtIs
    <3>7. QED
      BY <3>2, <3>5, <3>6
  <2>9. QED
    BY <2>7, <2>8
<1>3. QED
  BY <1>1, <1>2, ReadsMembers

-----------------------------------------------------------------------------
(* What has been built, later in the text                                  *)

(***************************************************************************)
(* Where a cursor moves from k to m: nothing but what is deeper than n     *)
(* opens, and there are only colons of such.                               *)
(***************************************************************************)
Within(t, k, m, n) ==
  \A c \in k + 1 .. m :
    /\ c \in Opening(t) => Depth(t, c) > n
    /\ t[c] = ":" /\ ~InString(t, c) => Depth(t, c) > n

\* What was open later is open earlier.
LEMMA OpenEarlier ==
  ASSUME NEW t \in Seq(Char), NEW k \in 0 .. Len(t), NEW m \in k .. Len(t), NEW n, NEW j,
         IsPlace(t, m, n, j), j <= k
  PROVE  IsPlace(t, k, n, j)
<1>1. j \in Opening(t) /\ StaysOpen(t, j, m) /\ Depth(t, j) = n
  BY DEF IsPlace
<1>2. \A h \in j .. k : h \in j .. m
  OBVIOUS
<1>3. StaysOpen(t, j, k)
  BY <1>1, <1>2 DEF StaysOpen
<1>4. QED
  BY <1>1, <1>3 DEF IsPlace

LEMMA PlaceType ==
  ASSUME NEW t \in Seq(Char), NEW k, NEW n, NEW j, IsPlace(t, k, n, j)
  PROVE  /\ j \in 1 .. Len(t) /\ j \in Nat /\ j <= k /\ Depth(t, j) = n /\ StaysOpen(t, j, k)
         /\ j \in Opening(t) /\ Len(t) \in Nat
BY DEF IsPlace, Opening

\* The same frames have the same places.
LEMMA SamePlaces ==
  ASSUME NEW t \in Seq(Char), NEW k \in 0 .. Len(t), NEW m \in k .. Len(t), NEW n \in Int,
         Within(t, k, m, n), NEW j, IsPlace(t, m, n, j)
  PROVE  IsPlace(t, k, n, j)
<1>0. j \in Nat /\ j <= m /\ Depth(t, j) = n /\ j \in Opening(t)
  BY PlaceType
<1>1. CASE j <= k
  BY <1>1, OpenEarlier
<1>2. CASE ~(j <= k)
  <2>1. j \in k + 1 .. m
    BY <1>0, <1>2
  <2>2. Depth(t, j) > n
    BY <1>0, <2>1 DEF Within
  <2>3. QED
    BY <1>0, <2>2
<1>3. QED
  BY <1>1, <1>2

\* And the same colons.
LEMMA SameColons ==
  ASSUME NEW t \in Seq(Char), NEW k \in 0 .. Len(t), NEW m \in k .. Len(t), NEW n \in Int,
         Within(t, k, m, n), NEW j, IsPlace(t, k, n, j)
  PROVE  \A c \in Colons(t, j) : c <= m <=> c <= k
<1>0. j \in 1 .. Len(t) /\ Depth(t, j) = n
  BY PlaceType
<1>1. SUFFICES ASSUME NEW c \in Colons(t, j) PROVE c <= m <=> c <= k
  OBVIOUS
<1>2. /\ c \in 1 .. Len(t) /\ c \in Nat /\ t[c] = ":" /\ ~InString(t, c) /\ Depth(t, c) = n
  BY <1>0, ColonsBeyond DEF Colons
<1>3. CASE c <= k
  BY <1>2, <1>3
<1>4. CASE ~(c <= k)
  <2>1. ASSUME c <= m PROVE FALSE
    <3>1. c \in k + 1 .. m
      BY <1>2, <1>4, <2>1
    <3>2. Depth(t, c) > n
      BY <1>2, <3>1 DEF Within
    <3>3. QED
      BY <1>2, <3>2
  <2>2. QED
    BY <1>4, <2>1
<1>5. QED
  BY <1>3, <1>4

LEMMA MembersLater ==
  ASSUME NEW t \in Seq(Char), NEW k \in 0 .. Len(t), NEW m \in k .. Len(t), NEW n \in Int,
         Within(t, k, m, n), NEW j, IsPlace(t, k, n, j), NEW members,
         MembersUpTo(t, j, members, k)
  PROVE  MembersUpTo(t, j, members, m)
BY SameColons DEF MembersUpTo

LEMMA WaitsLater ==
  ASSUME NEW t \in Seq(Char), NEW k \in 0 .. Len(t), NEW m \in k .. Len(t), NEW n \in Int,
         Within(t, k, m, n), NEW frames, NEW p, WaitsFor(t, frames, n, k, p)
  PROVE  WaitsFor(t, frames, n, m, p)
<1>1. CASE n = 0
  BY <1>1 DEF WaitsFor
<1>2. CASE n # 0
  <2>1. SUFFICES ASSUME NEW j \in Opening(t), IsPlace(t, m, n, j)
                 PROVE  WaitsIn(t, j, frames[n], m, p)
    BY <1>2 DEF WaitsFor
  <2>2. IsPlace(t, k, n, j)
    BY <2>1, SamePlaces
  <2>3. WaitsIn(t, j, frames[n], k, p)
    BY <1>2, <2>2 DEF WaitsFor
  <2>4. \A c \in Colons(t, j) : c <= m <=> c <= k
    BY <2>2, SameColons
  <2>5. QED
    BY <2>3, <2>4 DEF WaitsIn
<1>3. QED
  BY <1>1, <1>2

LEMMA SettledLater ==
  ASSUME NEW t \in Seq(Char), NEW k \in 0 .. Len(t), NEW m \in k .. Len(t), NEW frames,
         Len(frames) \in Int, Within(t, k, m, Len(frames)), Settled(t, frames, k)
  PROVE  Settled(t, frames, m)
<1>1. SUFFICES ASSUME NEW j \in Opening(t), IsPlace(t, m, Len(frames), j)
               PROVE  MembersUpTo(t, j, Last(frames).members, m)
  BY DEF Settled
<1>2. PICK n \in Int : n = Len(frames)
  OBVIOUS
<1>3. IsPlace(t, k, n, j)
  BY <1>1, <1>2, SamePlaces
<1>4. MembersUpTo(t, j, Last(frames).members, k)
  BY <1>2, <1>3 DEF Settled
<1>5. QED
  BY <1>2, <1>3, <1>4, MembersLater

\* The frames go on waiting while nothing opens between them.
LEMMA FramesLater ==
  ASSUME NEW t \in Seq(Char), NEW k \in 0 .. Len(t), NEW m \in k .. Len(t), NEW frames,
         Len(frames) \in Nat, Within(t, k, m, Len(frames) - 1),
         \A c \in k + 1 .. m : c \in Opening(t) => Depth(t, c) > Len(frames),
         FramesWait(t, frames, k)
  PROVE  FramesWait(t, frames, m)
<1>1. SUFFICES ASSUME NEW n \in 1 .. Len(frames), NEW j \in Opening(t), IsPlace(t, m, n, j)
               PROVE  WaitsFor(t, frames, n - 1, m, j)
  BY DEF FramesWait
<1>2. j \in Nat /\ j <= m /\ Depth(t, j) = n
  BY <1>1, PlaceType
<1>3. j <= k
  <2>1. CASE ~(j <= k)
    <3>1. j \in k + 1 .. m
      BY <1>2, <2>1
    <3>2. Depth(t, j) > Len(frames)
      BY <3>1
    <3>3. QED
      BY <1>1, <1>2, <3>2
  <2>2. QED
    BY <2>1
<1>4. IsPlace(t, k, n, j)
  BY <1>1, <1>3, OpenEarlier
<1>5. WaitsFor(t, frames, n - 1, k, j)
  BY <1>4 DEF FramesWait
<1>6. PICK d \in Int : d = n - 1 /\ d <= Len(frames) - 1
  OBVIOUS
<1>7. Within(t, k, m, d)
  <2>1. SUFFICES ASSUME NEW c \in k + 1 .. m PROVE Depth(t, c) > Len(frames) - 1 => Depth(t, c) > d
    BY DEF Within
  <2>2. Depth(t, c) \in Int
    <3>1. c \in 0 .. Len(t)
      OBVIOUS
    <3>2. QED
      BY <3>1, ScanType
  <2>3. QED
    BY <1>6, <2>2
<1>8. QED
  BY <1>5, <1>6, <1>7, WaitsLater

\* Only the frames under the last one wait for another.
LEMMA FramesUnder ==
  ASSUME NEW t, NEW k, NEW f, NEW g, Len(f) \in Nat, Len(g) \in Nat, Len(g) <= Len(f),
         \A n \in 1 .. Len(g) - 1 : g[n] = f[n], FramesWait(t, f, k)
  PROVE  FramesWait(t, g, k)
<1>1. SUFFICES ASSUME NEW n \in 1 .. Len(g), NEW j \in Opening(t), IsPlace(t, k, n, j)
               PROVE  WaitsFor(t, g, n - 1, k, j)
  BY DEF FramesWait
<1>2. n \in 1 .. Len(f) /\ (n - 1 # 0 => n - 1 \in 1 .. Len(g) - 1)
  OBVIOUS
<1>3. WaitsFor(t, f, n - 1, k, j)
  BY <1>1, <1>2 DEF FramesWait
<1>4. n - 1 # 0 => g[n - 1] = f[n - 1]
  BY <1>2
<1>5. QED
  BY <1>3, <1>4 DEF WaitsFor
-----------------------------------------------------------------------------
(***************************************************************************)
(* Nothing is said about members: in strings, and outside of them where    *)
(* nothing opens and there is no colon.                                    *)
(***************************************************************************)
Still(t, k, m) == \A c \in k + 1 .. m : InString(t, c) \/ (t[c] \notin Opens /\ t[c] # ":")

LEMMA StillWithin ==
  ASSUME NEW t, NEW k, NEW m, NEW n, Still(t, k, m)
  PROVE  Within(t, k, m, n) /\ \A c \in k + 1 .. m : c \notin Opening(t)
BY DEF Still, Within, Opening

LEMMA StillLater ==
  ASSUME NEW t \in Seq(Char), NEW k \in 0 .. Len(t), NEW m \in k .. Len(t), NEW frames,
         Len(frames) \in Nat, Still(t, k, m)
  PROVE  /\ Settled(t, frames, k) => Settled(t, frames, m)
         /\ \A p : WaitsFor(t, frames, Len(frames), k, p) => WaitsFor(t, frames, Len(frames), m, p)
         /\ FramesWait(t, frames, k) => FramesWait(t, frames, m)
<1>1. PICK n \in Nat : n = Len(frames)
  OBVIOUS
<1>2. Within(t, k, m, n) /\ Within(t, k, m, n - 1) /\ \A c \in k + 1 .. m : c \notin Opening(t)
  BY StillWithin
<1>3. Settled(t, frames, k) => Settled(t, frames, m)
  BY <1>1, <1>2, SettledLater
<1>4. ASSUME NEW p, WaitsFor(t, frames, n, k, p) PROVE WaitsFor(t, frames, n, m, p)
  BY <1>2, <1>4, WaitsLater
<1>5. FramesWait(t, frames, k) => FramesWait(t, frames, m)
  BY <1>1, <1>2, FramesLater
<1>6. QED
  BY <1>1, <1>3, <1>4, <1>5

\* A bracket that opens: the last frame waits for what begins there.
LEMMA OpeningLater ==
  ASSUME NEW t \in Seq(Char), NEW a \in Opening(t), NEW frames, Len(frames) \in Nat,
         Depth(t, a - 1) = Len(frames), WaitsFor(t, frames, Len(frames), a - 1, a),
         FramesWait(t, frames, a - 1)
  PROVE  /\ WaitsFor(t, frames, Len(frames), a, a) /\ FramesWait(t, frames, a)
         /\ \A j : IsPlace(t, a, Len(frames) + 1, j) => j = a
<1>1. PICK n \in Nat : n = Len(frames)
  OBVIOUS
<1>0. a \in 1 .. Len(t) /\ Len(t) \in Nat /\ a \in Nat
  BY DEF Opening
<1>2. PICK k \in 0 .. Len(t) : k = a - 1
  <2>1. a - 1 \in 0 .. Len(t)
    BY <1>0
  <2>2. QED
    BY <2>1
<1>3. a \in k .. Len(t) /\ (\A c \in k + 1 .. a : c = a) /\ \A c : c <= a /\ c \in Nat => c <= k \/ c = a
  BY <1>0, <1>2
<1>4. Depth(t, a) = n + 1 /\ ~InString(t, a) /\ t[a] # ":"
  <2>1. Depth(t, a) = Depth(t, a - 1) + 1
    BY BracketDepth
  <2>2. QED
    BY <1>1, <2>1 DEF Opening, Opens
<1>5. n + 1 > n /\ n + 1 > n - 1 /\ ~(n >= n + 1)
  OBVIOUS
<1>6. /\ \A c \in k + 1 .. a : Depth(t, c) > n /\ Depth(t, c) > n - 1
      /\ Within(t, k, a, n) /\ Within(t, k, a, n - 1)
  BY <1>3, <1>4, <1>5 DEF Within
<1>7. WaitsFor(t, frames, n, a, a)
  <2>1. WaitsFor(t, frames, n, k, a)
    BY <1>1, <1>2
  <2>2. QED
    BY <1>3, <1>6, <2>1, WaitsLater
<1>8. FramesWait(t, frames, a)
  BY <1>1, <1>2, <1>3, <1>6, FramesLater
<1>9. ASSUME NEW j, IsPlace(t, a, n + 1, j), j # a PROVE FALSE
  <2>1. j \in Nat /\ j <= k /\ Depth(t, j) = n + 1 /\ StaysOpen(t, j, a)
    BY <1>3, <1>9, PlaceType
  <2>2. k \in j .. a
    BY <1>0, <1>2, <2>1
  <2>3. Depth(t, k) >= n + 1
    BY <2>1, <2>2 DEF StaysOpen
  <2>4. QED
    BY <1>1, <1>2, <1>5, <2>3
<1>10. QED
  BY <1>1, <1>7, <1>8, <1>9

\* A colon: the last frame, an object, waits for what comes after it.
LEMMA ColonLater ==
  ASSUME NEW t \in Seq(Char), NEW a \in 1 .. Len(t), NEW frames, Len(frames) \in Nat, Len(frames) # 0,
         t[a] = ":", ~InString(t, a), Depth(t, a) = Len(frames),
         FramesWait(t, frames, a - 1), Settled(t, frames, a - 1), Last(frames).key = KeyAt(t, a)
  PROVE  FramesWait(t, frames, a) /\ WaitsFor(t, frames, Len(frames), a, FirstInk(t, a + 1))
<1>1. PICK n \in Nat : n = Len(frames) /\ n # 0 /\ n > n - 1
  OBVIOUS
<1>0. Len(t) \in Nat /\ a \in Nat
  OBVIOUS
<1>2. PICK k \in 0 .. Len(t) : k = a - 1
  <2>1. a - 1 \in 0 .. Len(t)
    BY <1>0
  <2>2. QED
    BY <2>1
<1>3. /\ a \in k .. Len(t) /\ (\A c \in k + 1 .. a : c = a) /\ k <= a /\ a <= a /\ ~(a <= k)
      /\ \A c : c <= a /\ c \in Nat => c <= k \/ c = a
      /\ \A c : c <= k /\ c \in Nat => c <= a
  BY <1>0, <1>2
<1>4. a \notin Opening(t)
  BY DEF Opening, Opens
<1>5. Within(t, k, a, n - 1) /\ \A c \in k + 1 .. a : c \notin Opening(t)
  BY <1>1, <1>3, <1>4 DEF Within
<1>6. FramesWait(t, frames, a)
  BY <1>1, <1>2, <1>3, <1>5, FramesLater
<1>7. ASSUME NEW j \in Opening(t), IsPlace(t, a, n, j)
      PROVE  WaitsIn(t, j, frames[n], a, FirstInk(t, a + 1))
  <2>1. j \in 1 .. Len(t) /\ j \in Nat /\ j <= a /\ j # a /\ Depth(t, j) = n /\ StaysOpen(t, j, a)
    BY <1>4, <1>7, PlaceType
  <2>2. IsPlace(t, k, n, j)
    <3>1. j <= k
      BY <1>3, <2>1
    <3>2. QED
      BY <1>3, <1>7, <3>1, OpenEarlier
  <2>3. MembersUpTo(t, j, frames[n].members, a - 1)
    BY <1>1, <1>2, <2>2 DEF Settled, Last
  <2>4. a \in Colons(t, j)
    <3>1. a \in j + 1 .. Len(t)
      BY <1>0, <2>1
    <3>2. QED
      BY <1>1, <2>1, <3>1 DEF Colons
  <2>5. frames[n].key = KeyAt(t, a)
    BY <1>1 DEF Last
  <2>6. QED
    BY <1>3, <2>3, <2>4, <2>5 DEF WaitsIn
<1>8. QED
  BY <1>1, <1>6, <1>7 DEF WaitsFor

-----------------------------------------------------------------------------
(* A member, a bracket, a string                                           *)

LEMMA ValueIs == \A a, b : Value(a, b).t = a /\ Value(a, b).v = b
BY DEF Value

(***************************************************************************)
(* emplace() keeps the members those of the colons, the first of each key. *)
(***************************************************************************)
LEMMA AppendMember ==
  ASSUME NEW q, q \in Seq({q[n] : n \in DOMAIN q}), NEW x
  PROVE  /\ Append(q, x) \in Seq({Append(q, x)[n] : n \in DOMAIN Append(q, x)})
         /\ Len(q) \in Nat /\ DOMAIN q = 1 .. Len(q) /\ DOMAIN Append(q, x) = 1 .. Len(q) + 1
         /\ Append(q, x)[Len(q) + 1] = x /\ \A n \in 1 .. Len(q) : Append(q, x)[n] = q[n]
<1> DEFINE S == {q[n] : n \in DOMAIN q} \cup {x}
           r == Append(q, x)
<1>1. q \in Seq(S) /\ x \in S
  OBVIOUS
<1> HIDE DEF S
<1>2. /\ r \in Seq(S) /\ DOMAIN r = 1 .. Len(q) + 1 /\ r[Len(q) + 1] = x
      /\ Len(q) \in Nat /\ DOMAIN q = 1 .. Len(q) /\ \A n \in 1 .. Len(q) : r[n] = q[n]
  BY <1>1
<1> HIDE DEF r
<1>3. r \in Seq({r[n] : n \in DOMAIN r})
  BY <1>2, SeqOfElements
<1>4. QED
  BY <1>2, <1>3 DEF r

LEMMA EmplaceMember ==
  ASSUME NEW t \in Seq(Char), NEW j \in 1 .. Len(t), NEW members, NEW c \in Colons(t, j),
         NEW v, NEW k \in Nat, c <= k, \A d \in Colons(t, j) : d <= k => d <= c,
         MembersUpTo(t, j, members, c - 1), Reads(t, v, FirstInk(t, c + 1))
  PROVE  MembersUpTo(t, j, emplace(members, KeyAt(t, c), v), k)
<1>1. PICK key : key = KeyAt(t, c)
  OBVIOUS
<1>2. \A d \in Colons(t, j) : d \in Nat
  BY ColonsBeyond
<1>3. c \in Nat /\ c - 1 <= k /\ \A d \in Colons(t, j) : (d <= c - 1 => d <= k) /\ (d <= k => d <= c - 1 \/ d = c)
  BY <1>2
<1>4. CASE \E n \in DOMAIN members : members[n].key = key
  <2>1. emplace(members, key, v) = members
    BY <1>4 DEF emplace
  <2>2. MembersUpTo(t, j, members, k)
    BY <1>1, <1>3, <1>4 DEF MembersUpTo
  <2>3. QED
    BY <1>1, <2>1, <2>2
<1>5. CASE ~ \E n \in DOMAIN members : members[n].key = key
  <2>1. PICK x : x = [key |-> key, value |-> v]
    OBVIOUS
  <2>2. x.key = key /\ x.value = v
    BY <2>1
  <2>3. PICK r : r = Append(members, x)
    OBVIOUS
  <2>4. emplace(members, key, v) = r
    BY <1>5, <2>1, <2>3 DEF emplace
  <2>a. members \in Seq({members[n] : n \in DOMAIN members})
    BY DEF MembersUpTo
  <2>b. /\ r \in Seq({r[n] : n \in DOMAIN r})
        /\ Len(members) \in Nat /\ DOMAIN members = 1 .. Len(members)
        /\ DOMAIN r = 1 .. Len(members) + 1
        /\ r[Len(members) + 1] = x /\ \A n \in 1 .. Len(members) : r[n] = members[n]
    <3>1. /\ Append(members, x) \in Seq({Append(members, x)[n] : n \in DOMAIN Append(members, x)})
          /\ Len(members) \in Nat /\ DOMAIN members = 1 .. Len(members)
          /\ DOMAIN Append(members, x) = 1 .. Len(members) + 1
          /\ Append(members, x)[Len(members) + 1] = x
          /\ \A n \in 1 .. Len(members) : Append(members, x)[n] = members[n]
      BY <2>a, AppendMember
    <3>2. QED
      BY <2>3, <3>1, Zenon
  <2>5. PICK N \in Nat : /\ DOMAIN members = 1 .. N /\ DOMAIN r = 1 .. N + 1
                         /\ r[N + 1] = x /\ \A n \in 1 .. N : r[n] = members[n]
                         /\ r \in Seq({r[n] : n \in DOMAIN r})
    BY <2>b
  <2>6. N + 1 \in DOMAIN r /\ \A n \in DOMAIN r : n \in DOMAIN members \/ n = N + 1
    BY <2>5
  <2>7. \A n \in DOMAIN members : n \in DOMAIN r /\ r[n] = members[n]
    BY <2>5
  <2>8. ASSUME NEW d \in Colons(t, j), d <= k
        PROVE  \E n \in DOMAIN r : r[n].key = KeyAt(t, d)
    <3>1. CASE d = c
      BY <1>1, <2>2, <2>5, <2>6, <3>1
    <3>2. CASE d <= c - 1
      BY <2>7, <3>2 DEF MembersUpTo
    <3>3. QED
      BY <1>3, <2>8, <3>1, <3>2
  <2>9. IsFirst(t, j, c)
    <3>1. SUFFICES ASSUME NEW d \in Colons(t, j), KeyAt(t, d) = key PROVE c <= d
      BY <1>1 DEF IsFirst
    <3>2. ~(d <= c - 1)
      BY <1>5, <3>1 DEF MembersUpTo
    <3>3. QED
      BY <1>2, <3>2
  <2>10. ASSUME NEW n \in DOMAIN r
         PROVE  \E d \in Colons(t, j) : /\ d <= k /\ IsFirst(t, j, d) /\ r[n].key = KeyAt(t, d)
                                        /\ Reads(t, r[n].value, FirstInk(t, d + 1))
    <3>1. CASE n = N + 1
      BY <1>1, <2>2, <2>5, <2>9, <3>1
    <3>2. CASE n \in DOMAIN members
      BY <1>3, <2>7, <3>2 DEF MembersUpTo
    <3>3. QED
      BY <2>6, <3>1, <3>2
  <2>11. MembersUpTo(t, j, r, k)
    BY <2>5, <2>8, <2>10 DEF MembersUpTo
  <2>12. QED
    BY <1>1, <2>4, <2>11
<1>6. QED
  BY <1>4, <1>5

(***************************************************************************)
(* A bracket that closes at e has told all it says.                        *)
(***************************************************************************)
LEMMA ReadsClosed ==
  ASSUME NEW t \in Seq(Char), NEW j \in Opening(t), NEW e \in 1 .. Len(t), j < e,
         Depth(t, e) < Depth(t, j), NEW kind, kind = KindOf(t[j]), NEW members,
         kind = "object" => MembersUpTo(t, j, members, e - 1)
  PROVE  Reads(t, Value(kind, members), j)
<1>1. PICK v : v = Value(kind, members) /\ v.t = kind /\ v.v = members
  BY ValueIs
<1>2. j \in 1 .. Len(t) /\ t[j] \in Opens /\ Len(t) \in Nat /\ j \in Nat /\ e \in Nat /\ e - 1 \in Int
  BY DEF Opening
<1>3. CASE t[j] = "{"
  <2>1. kind = "object"
    BY <1>3 DEF KindOf
  <2>2. ASSUME NEW c \in Colons(t, j) PROVE c <= e - 1
    <3>1. CASE e <= c
      <4>1. e \in j .. c /\ StaysOpen(t, j, c)
        BY <1>2, <2>2, <3>1, ColonsBeyond DEF Colons
      <4>2. Depth(t, e) >= Depth(t, j)
        BY <4>1 DEF StaysOpen
      <4>3. Depth(t, e) \in Int /\ Depth(t, j) \in Int
        <5>1. e \in 0 .. Len(t) /\ j \in 0 .. Len(t)
          BY <1>2
        <5>2. QED
          BY <5>1, ScanType
      <4>4. QED
        BY <4>2, <4>3
    <3>2. CASE ~(e <= c)
      <4>1. c \in Nat
        BY <1>2, ColonsBeyond
      <4>2. QED
        BY <1>2, <3>2, <4>1
    <3>3. QED
      BY <3>1, <3>2
  <2>3. PICK d \in Int : d = e - 1
    BY <1>2
  <2>4. Reads(t, v, j)
    BY <1>1, <1>2, <1>3, <2>1, <2>2, <2>3, ReadsObject
  <2>5. QED
    BY <1>1, <2>4
<1>4. CASE t[j] = "["
  <2>1. kind = "array" /\ t[j] # "{"
    BY <1>4 DEF KindOf
  <2>2. j # 0 /\ j > 0
    BY <1>2
  <2>3. KindAt(t, j) = "array"
    BY <1>4, <2>2 DEF KindAt, NumChar
  <2>4. Agrees(t, v, j) /\ v.t # "object"
    BY <1>1, <2>1, <2>3 DEF Agrees
  <2>5. Reads(t, v, j)
    BY <2>1, <2>4, ReadsLeaf
  <2>6. QED
    BY <1>1, <2>5
<1>5. QED
  BY <1>2, <1>3, <1>4 DEF Opens

(***************************************************************************)
(* The end of a string, and the key that it is.                            *)
(***************************************************************************)
StringIn(t, q, k) ==
  t[q] = "quote" /\ ~InString(t, q - 1) /\ \A m \in q .. k : InString(t, m)

LEMMA StringEndIs ==
  ASSUME NEW t \in Seq(Char), NEW q \in 1 .. Len(t), NEW k \in q + 1 .. Len(t),
         StringIn(t, q, k - 1), ~InString(t, k)
  PROVE  StringEnd(t, q) = k
<1> DEFINE End(e) == ~InString(t, e) /\ \A m \in q + 1 .. e - 1 : InString(t, m)
<1>0. Len(t) \in Nat /\ q \in Nat /\ k \in Nat
  OBVIOUS
<1>1. End(k)
  BY <1>0 DEF StringIn
<1>2. StringEnd(t, q) = CHOOSE e \in q + 1 .. Len(t) : End(e)
  BY Zenon DEF StringEnd
<1>3. ASSUME NEW e \in q + 1 .. Len(t), End(e) PROVE e = k
  <2>1. e \in Nat
    BY <1>0
  <2>2. ~(e < k)
    <3>1. e < k => e \in q .. k - 1
      BY <1>0
    <3>2. QED
      BY <1>3, <3>1 DEF StringIn
  <2>3. ~(k < e)
    <3>1. k < e => k \in q + 1 .. e - 1
      BY <1>0
    <3>2. QED
      BY <1>3, <3>1
  <2>4. QED
    BY <1>0, <2>1, <2>2, <2>3
<1> HIDE DEF End
<1>4. PICK e \in q + 1 .. Len(t) : e = StringEnd(t, q) /\ End(e)
  BY <1>1, <1>2
<1>5. QED
  BY <1>3, <1>4

\* A colon after the string has it for its key, if no other opens in between.
LEMMA KeyAtIs ==
  ASSUME NEW t \in Seq(Char), NEW q \in 1 .. Len(t), NEW k \in q + 1 .. Len(t),
         StringIn(t, q, k - 1), NEW c \in k + 1 .. Len(t) + 1,
         \A m \in k .. c - 1 : ~InString(t, m)
  PROVE  KeyAt(t, c) = StringAt(t, q)
<1> DEFINE P == OpenedBefore(t, c)
<1>0. Len(t) \in Nat /\ q \in Nat /\ k \in Nat /\ c \in Nat /\ q \in 1 .. c - 1 /\ q \in q .. k - 1
  OBVIOUS
<1>1. q \in P
  BY <1>0 DEF OpenedBefore, StringIn
<1>2. ASSUME NEW p \in P PROVE p <= q
  <2>1. p \in 1 .. c - 1 /\ p \in Nat /\ InString(t, p) /\ ~InString(t, p - 1)
    BY <1>0 DEF OpenedBefore
  <2>2. ~(p \in k .. c - 1)
    BY <2>1
  <2>3. ~(p - 1 \in q .. k - 1)
    BY <2>1 DEF StringIn
  <2>4. QED
    BY <1>0, <2>1, <2>2, <2>3
<1>3. ASSUME NEW b \in P, \A p \in P : p <= b PROVE b = q
  <2>1. b <= q /\ q <= b /\ b \in Nat
    BY <1>0, <1>1, <1>2, <1>3 DEF OpenedBefore
  <2>2. QED
    BY <1>0, <2>1
<1>4. KeyAt(t, c) = StringAt(t, CHOOSE b \in P : \A p \in P : p <= b)
  BY Zenon DEF KeyAt
<1> HIDE DEF P
<1>5. PICK b \in P : b = (CHOOSE a \in P : \A p \in P : p <= a) /\ \A p \in P : p <= b
  BY <1>1, <1>2
<1>6. QED
  BY <1>3, <1>4, <1>5

LEMMA ReadsString ==
  ASSUME NEW t \in Seq(Char), NEW q \in 1 .. Len(t), NEW k \in q + 1 .. Len(t),
         StringIn(t, q, k - 1), ~InString(t, k), NEW chars, chars = Read(t, q)[k - 1]
  PROVE  StringAt(t, q) = chars /\ Reads(t, Value("string", chars), q)
<1>1. StringAt(t, q) = chars
  BY StringEndIs DEF StringAt
<1>2. PICK v : v = Value("string", chars) /\ v.t = "string" /\ v.v = chars
  BY ValueIs
<1>3. t[q] = "quote" /\ q # 0 /\ q > 0
  <2>1. q # 0 /\ q > 0
    OBVIOUS
  <2>2. QED
    BY <2>1 DEF StringIn
<1>4. KindAt(t, q) = "string"
  BY <1>3 DEF KindAt, NumChar
<1>5. Agrees(t, v, q) /\ v.t # "object" /\ t[q] # "{"
  BY <1>1, <1>2, <1>3, <1>4 DEF Agrees
<1>6. Reads(t, v, q)
  BY <1>5, ReadsLeaf
<1>7. QED
  BY <1>1, <1>2, <1>6

-----------------------------------------------------------------------------
(* Returning a value                                                       *)

LEMMA InkIs ==
  ASSUME s \in Seq(Char), NEW k \in 1 .. Len(s) + 1
  PROVE  /\ skip_ws(k) = FirstInk(s, k) /\ skip_ws(k) \in k .. Len(s) + 1
         /\ \A j \in k .. skip_ws(k) - 1 : s[j] \in Blank
<1> DEFINE Ends(m) == (m <= Len(s) => s[m] \notin Blank) /\ \A j \in k .. m - 1 : s[j] \in Blank
           T == { m \in k .. Len(s) + 1 : m <= Len(s) => s[m] \notin Blank }
<1>0. Len(s) \in Nat
  OBVIOUS
<1>1. T \subseteq Nat /\ Len(s) + 1 \in T
  BY <1>0
<1>2. PICK m \in T : \A n \in T : m <= n
  <2> HIDE DEF T
  <2> QED BY <1>1, LeastNumber
<1>3. \A j \in k .. m - 1 : j \in k .. Len(s) + 1 /\ j \notin T /\ j <= Len(s)
  BY <1>0, <1>2
<1>4. m \in k .. Len(s) + 1 /\ Ends(m)
  BY <1>3
<1>5. ASSUME NEW n \in k .. Len(s) + 1, Ends(n) PROVE n = m
  <2>1. ~(n < m)
    <3>1. n < m => n \in k .. m - 1 /\ n <= Len(s)
      BY <1>0
    <3>2. QED
      BY <1>4, <1>5, <3>1
  <2>2. ~(m < n)
    <3>1. m < n => m \in k .. n - 1 /\ m <= Len(s)
      BY <1>0, <1>4
    <3>2. QED
      BY <1>4, <1>5, <3>1
  <2>3. QED
    BY <1>0, <1>4, <2>1, <2>2
<1>6. FirstInk(s, k) = CHOOSE n \in k .. Len(s) + 1 : Ends(n)
  BY Zenon DEF FirstInk
<1>7. \A n \in k .. Len(s) + 1 : peek(n) \notin Blank <=> (n <= Len(s) => s[n] \notin Blank)
  BY <1>0 DEF peek, Blank
<1>8. /\ skip_ws(k) \in k .. Len(s) + 1 /\ peek(skip_ws(k)) \notin Blank
      /\ \A j \in k .. skip_ws(k) - 1 : s[j] \in Blank
  <2>1. \E n \in k .. Len(s) + 1 : peek(n) \notin Blank /\ \A j \in k .. n - 1 : s[j] \in Blank
    BY <1>4, <1>7
  <2>2. QED
    BY <2>1, Zenon DEF skip_ws
<1>9. skip_ws(k) \in k .. Len(s) + 1 /\ Ends(skip_ws(k))
  BY <1>7, <1>8
<1> HIDE DEF Ends
<1>10. PICK n \in k .. Len(s) + 1 : n = FirstInk(s, k) /\ Ends(n)
  BY <1>4, <1>6
<1>11. n = m /\ skip_ws(k) = m
  BY <1>5, <1>9, <1>10
<1>12. QED
  BY <1>8, <1>10, <1>11

\* White space says nothing about members.
LEMMA StillOver ==
  ASSUME s \in Seq(Char), NEW k \in 1 .. Len(s) + 1
  PROVE  /\ k - 1 \in 0 .. Len(s) /\ skip_ws(k) - 1 \in k - 1 .. Len(s)
         /\ Still(s, k - 1, skip_ws(k) - 1)
<1>1. skip_ws(k) \in k .. Len(s) + 1 /\ \A j \in k .. skip_ws(k) - 1 : s[j] \in Blank
  BY InkIs
<1>2. PICK m : m = skip_ws(k)
  OBVIOUS
<1>3. k - 1 \in 0 .. Len(s) /\ m - 1 \in k - 1 .. Len(s) /\ (k - 1) + 1 = k
  BY <1>1, <1>2
<1>4. \A c \in Blank : c \notin Opens /\ c # ":"
  BY DEF Blank, Opens
<1>5. QED
  BY <1>1, <1>2, <1>3, <1>4 DEF Still

\* One field of the last of N frames.
WithMembers(r, q, N, x) == r = [q EXCEPT ![N] = [q[N] EXCEPT !.members = x]]
WithKey(r, q, N, x) == r = [q EXCEPT ![N] = [q[N] EXCEPT !.key = x]]

LEMMA LastFilled ==
  ASSUME NEW q, Framed(q), q # << >>, NEW x, NEW r, NEW N, N = Len(q)
  PROVE  /\ N \in Nat /\ N # 0
         /\ WithMembers(r, q, N, x) =>
              /\ Len(r) = N /\ Last(r).members = x /\ Last(r).key = q[N].key
              /\ \A n \in 1 .. N - 1 : r[n] = q[n]
         /\ WithKey(r, q, N, x) =>
              /\ Len(r) = N /\ Last(r).members = q[N].members /\ Last(r).key = x
              /\ \A n \in 1 .. N - 1 : r[n] = q[n]
<1>1. N \in Nat /\ N # 0 /\ DOMAIN q = 1 .. N /\ q \in Seq({q[n] : n \in DOMAIN q})
  BY KindsType DEF Framed
<1>2. q[N] = [kind |-> q[N].kind, members |-> q[N].members, key |-> q[N].key]
  BY <1>1 DEF Framed
<1>3. ASSUME NEW f, r = [q EXCEPT ![N] = f]
      PROVE  Len(r) = N /\ Last(r) = f /\ \A n \in 1 .. N - 1 : r[n] = q[n]
  <2> DEFINE S == {q[n] : n \in DOMAIN q} \cup {f}
  <2>1. q \in Seq(S) /\ f \in S
    BY <1>1
  <2> HIDE DEF S
  <2>2. /\ r \in Seq(S) /\ Len(r) = N /\ \A n \in 1 .. N : r[n] = IF n = N THEN f ELSE q[n]
    BY <1>1, <1>3, <2>1
  <2>3. N \in 1 .. N /\ \A n \in 1 .. N - 1 : n \in 1 .. N /\ n # N
    BY <1>1
  <2>4. QED
    BY <2>2, <2>3 DEF Last
<1>4. PICK a, b, c : q[N] = [kind |-> a, members |-> b, key |-> c]
  BY <1>2
<1>5. q[N].members = b /\ q[N].key = c
  BY <1>4
<1>6. ASSUME r = [q EXCEPT ![N] = [q[N] EXCEPT !.members = x]]
      PROVE  /\ Len(r) = N /\ Last(r).members = x /\ Last(r).key = q[N].key
             /\ \A n \in 1 .. N - 1 : r[n] = q[n]
  <2>1. PICK f : f = [q[N] EXCEPT !.members = x]
    OBVIOUS
  <2>2. f = [kind |-> a, members |-> x, key |-> c]
    BY <1>4, <2>1
  <2>3. f.members = x /\ f.key = c
    BY <2>2
  <2>4. QED
    BY <1>3, <1>5, <1>6, <2>1, <2>3
<1>7. ASSUME r = [q EXCEPT ![N] = [q[N] EXCEPT !.key = x]]
      PROVE  /\ Len(r) = N /\ Last(r).members = q[N].members /\ Last(r).key = x
             /\ \A n \in 1 .. N - 1 : r[n] = q[n]
  <2>1. PICK f : f = [q[N] EXCEPT !.key = x]
    OBVIOUS
  <2>2. f = [kind |-> a, members |-> b, key |-> x]
    BY <1>4, <2>1
  <2>3. f.members = b /\ f.key = x
    BY <2>2
  <2>4. QED
    BY <1>3, <1>5, <1>7, <2>1, <2>3
<1>8. QED
  BY <1>1, <1>6, <1>7 DEF WithMembers, WithKey

(***************************************************************************)
(* A value that is returned to a frame that waits for it.                  *)
(***************************************************************************)
LEMMA ReturnFrames ==
  ASSUME NEW t \in Seq(Char), NEW outer, Framed(outer), outer # << >>, NEW N, N = Len(outer),
         NEW k \in 0 .. Len(t), NEW p, NEW v, Reads(t, v, p), WaitsFor(t, outer, N, k, p),
         NEW x, NEW r, WithMembers(r, outer, N, x),
         outer[N].kind = "object" => x = emplace(outer[N].members, outer[N].key, v)
  PROVE  /\ Len(r) = N /\ N \in Nat /\ \A n \in 1 .. N - 1 : r[n] = outer[n]
         /\ outer[N].kind = "object" => Settled(t, r, k)
<1>1. /\ N \in Nat /\ N # 0 /\ Len(r) = N /\ Last(r).members = x
      /\ \A n \in 1 .. N - 1 : r[n] = outer[n]
  BY LastFilled
<1>2. ASSUME outer[N].kind = "object", NEW j \in Opening(t), IsPlace(t, k, N, j)
      PROVE  MembersUpTo(t, j, x, k)
  <2>1. j \in 1 .. Len(t) /\ k \in Nat
    BY <1>2, PlaceType
  <2>2. WaitsIn(t, j, outer[N], k, p)
    BY <1>1, <1>2 DEF WaitsFor
  <2>3. PICK c \in Colons(t, j) :
          /\ c <= k /\ \A d \in Colons(t, j) : d <= k => d <= c
          /\ MembersUpTo(t, j, outer[N].members, c - 1)
          /\ outer[N].key = KeyAt(t, c) /\ p = FirstInk(t, c + 1)
    BY <1>2, <2>2 DEF WaitsIn
  <2>4. PICK members : members = outer[N].members
    OBVIOUS
  <2>5. MembersUpTo(t, j, emplace(members, KeyAt(t, c), v), k)
    BY <2>1, <2>3, <2>4, EmplaceMember
  <2>6. QED
    BY <1>2, <2>3, <2>4, <2>5
<1>3. outer[N].kind = "object" => Settled(t, r, k)
  BY <1>1, <1>2 DEF Settled
<1>4. QED
  BY <1>1, <1>3

LEMMA ReturnWritten ==
  ASSUME s \in Seq(Char), s' = s, NEW v, NEW outer, Framed(outer), NEW k \in 1 .. Len(s) + 1,
         NEW p, Reads(s, v, p), FramesWait(s, outer, k - 1),
         WaitsFor(s, outer, Len(outer), k - 1, p), Return(v, outer, k)
  PROVE  Written'
<1>1. PICK t \in Seq(Char) : t = s /\ t = s'
  OBVIOUS
<1>2. PICK a \in 0 .. Len(t) : a = k - 1
  BY <1>1
<1>3. i' = skip_ws(k)
  BY DEF Return
<1>4. PICK b \in a .. Len(t) : b = i' - 1 /\ Still(t, a, b)
  BY <1>1, <1>2, <1>3, StillOver
<1>5. CASE outer = << >>
  <2>1. pc' = "end" /\ root' = v /\ stack' = << >>
    BY <1>5 DEF Return
  <2>2. FramesWait(t, stack', b)
    BY <2>1 DEF FramesWait
  <2>3. p = FirstInk(t, 1)
    <3>1. Len(outer) = 0
      BY <1>5
    <3>2. QED
      BY <1>1, <3>1 DEF WaitsFor
  <2>4. Reads(t, root', FirstInk(t, 1))
    BY <1>1, <2>1, <2>3
  <2>5. QED
    BY <1>1, <1>4, <2>1, <2>2, <2>4 DEF Written
<1>6. CASE outer # << >>
  <2>1. PICK N : N = Len(outer)
    OBVIOUS
  <2>2. /\ pc' = IF outer[N].kind = "object" THEN "member" ELSE "item"
        /\ stack' = [outer EXCEPT ![N].members =
                       IF outer[N].kind = "object" THEN emplace(@, outer[N].key, v) ELSE Append(@, v)]
    BY <1>6, <2>1 DEF Return, Last
  <2>3. PICK x : x = IF outer[N].kind = "object" THEN emplace(outer[N].members, outer[N].key, v)
                     ELSE Append(outer[N].members, v)
    OBVIOUS
  <2>4. PICK r : r = stack'
    OBVIOUS
  <2>5. WithMembers(r, outer, N, x)
    BY <2>2, <2>3, <2>4 DEF WithMembers
  <2>6. /\ Len(r) = N /\ N \in Nat /\ \A n \in 1 .. N - 1 : r[n] = outer[n]
        /\ outer[N].kind = "object" => Settled(t, r, a)
    <3>1. WaitsFor(t, outer, N, a, p) /\ Reads(t, v, p)
      BY <1>1, <1>2, <2>1
    <3>2. outer[N].kind = "object" => x = emplace(outer[N].members, outer[N].key, v)
      BY <2>3
    <3>3. QED
      BY <1>6, <2>1, <2>5, <3>1, <3>2, ReturnFrames
  <2>7. FramesWait(t, r, a)
    <3>1. FramesWait(t, outer, a)
      BY <1>1, <1>2
    <3>2. N <= N
      BY <2>6
    <3>3. QED
      BY <2>1, <2>6, <3>1, <3>2, FramesUnder
  <2>8. FramesWait(t, r, b) /\ (outer[N].kind = "object" => Settled(t, r, b))
    BY <1>4, <2>6, <2>7, StillLater
  <2>9. QED
    BY <1>1, <1>4, <2>2, <2>4, <2>8 DEF Written
<1>7. QED
  BY <1>5, <1>6

-----------------------------------------------------------------------------
(* The steps, and what they write                                          *)

LEMMA StillOn ==
  ASSUME NEW t, NEW k \in Int, NEW m \in Int, NEW l \in Int, Still(t, k, m), Still(t, m, l)
  PROVE  Still(t, k, l)
<1>1. \A c \in k + 1 .. l : c \in k + 1 .. m \/ c \in m + 1 .. l
  OBVIOUS
<1>2. QED
  BY <1>1 DEF Still

\* One character that says nothing about members, and white space.
LEMMA StillOne ==
  ASSUME s \in Seq(Char), NEW k \in 1 .. Len(s),
         InString(s, k) \/ (s[k] \notin Opens /\ s[k] # ":")
  PROVE  /\ k - 1 \in 0 .. Len(s) /\ k \in k - 1 .. Len(s) /\ Still(s, k - 1, k)
         /\ skip_ws(k + 1) - 1 \in k - 1 .. Len(s) /\ Still(s, k - 1, skip_ws(k + 1) - 1)
<1>0. Len(s) \in Nat /\ k + 1 \in 1 .. Len(s) + 1 /\ (k + 1) - 1 = k
  OBVIOUS
<1>1. PICK b \in 1 .. Len(s) + 1 : b = k + 1 /\ b - 1 = k
  BY <1>0
<1>2. skip_ws(b) - 1 \in b - 1 .. Len(s) /\ Still(s, b - 1, skip_ws(b) - 1)
  BY StillOver
<1>3. PICK m \in k .. Len(s) : m = skip_ws(k + 1) - 1 /\ Still(s, k, m)
  BY <1>1, <1>2
<1>4. k - 1 \in Int /\ k \in Int /\ m \in Int /\ \A c \in (k - 1) + 1 .. k : c = k
  BY <1>0
<1>5. Still(s, k - 1, k)
  BY <1>4 DEF Still
<1>6. Still(s, k - 1, m)
  BY <1>3, <1>4, <1>5, StillOn
<1>7. k - 1 \in 0 .. Len(s) /\ k \in k - 1 .. Len(s) /\ m \in k - 1 .. Len(s)
  BY <1>0
<1>8. QED
  BY <1>3, <1>5, <1>6, <1>7

\* Where nothing has been said there are no members.
LEMMA NoMembers ==
  ASSUME NEW t \in Seq(Char), NEW j \in 1 .. Len(t), NEW k \in Int, Still(t, j, k)
  PROVE  MembersUpTo(t, j, << >>, k)
<1>1. ASSUME NEW c \in Colons(t, j), c <= k PROVE FALSE
  <2>1. c \in j + 1 .. k /\ t[c] = ":" /\ ~InString(t, c)
    BY <1>1, ColonsBeyond DEF Colons
  <2>2. QED
    BY <2>1 DEF Still
<1>2. << >> \in Seq({<< >>[m] : m \in DOMAIN << >>}) /\ \A m : m \notin DOMAIN << >>
  OBVIOUS
<1>3. QED
  BY <1>1, <1>2 DEF MembersUpTo

\* A new frame has its place where its bracket opens, and nothing in it yet.
LEMMA PushWaits ==
  ASSUME NEW t \in Seq(Char), NEW a \in Opening(t), NEW q, Framed(q), NEW kind,
         WaitsFor(t, q, Len(q), a, a), FramesWait(t, q, a),
         \A j : IsPlace(t, a, Len(q) + 1, j) => j = a
  PROVE  LET g == Append(q, Frame(kind))
         IN  /\ Len(g) \in Nat /\ FramesWait(t, g, a) /\ Settled(t, g, a)
             /\ kind = "array" => \A k, p : WaitsFor(t, g, Len(g), k, p)
<1>1. PICK g : g = Append(q, Frame(kind))
  OBVIOUS
<1>2. PICK N \in Nat : N = Len(q) /\ q \in Seq({q[n] : n \in DOMAIN q})
  BY KindsType DEF Framed
<1>3. Len(g) = N + 1 /\ g[N + 1] = Frame(kind) /\ \A n \in 1 .. N : g[n] = q[n]
  <2>1. PICK f : f = Frame(kind)
    OBVIOUS
  <2>2. QED
    BY <1>1, <1>2, <2>1, AppendMember
<1>4. Frame(kind).kind = kind /\ Frame(kind).members = << >>
  BY DEF Frame
<1>5. N + 1 \in Nat /\ N + 1 # 0 /\ \A n \in 1 .. N + 1 : n \in 1 .. N \/ n = N + 1
  OBVIOUS
<1>6. ASSUME NEW n \in 1 .. N + 1, NEW j \in Opening(t), IsPlace(t, a, n, j)
      PROVE  WaitsFor(t, g, n - 1, a, j)
  <2>1. WaitsFor(t, q, n - 1, a, j)
    <3>1. CASE n = N + 1
      <4>1. j = a /\ n - 1 = N
        BY <1>2, <1>6, <3>1
      <4>2. QED
        BY <1>2, <4>1
    <3>2. CASE n \in 1 .. N
      BY <1>2, <1>6, <3>2 DEF FramesWait
    <3>3. QED
      BY <1>5, <3>1, <3>2
  <2>2. n - 1 # 0 => n - 1 \in 1 .. N
    OBVIOUS
  <2>3. n - 1 # 0 => g[n - 1] = q[n - 1]
    BY <1>3, <2>2
  <2>4. QED
    BY <2>1, <2>3 DEF WaitsFor
<1>7. FramesWait(t, g, a)
  BY <1>3, <1>6 DEF FramesWait
<1>8. MembersUpTo(t, a, << >>, a)
  <2>1. a \in 1 .. Len(t) /\ a \in Int /\ \A c : c \notin a + 1 .. a
    BY DEF Opening
  <2>2. Still(t, a, a)
    BY <2>1 DEF Still
  <2>3. QED
    BY <2>1, <2>2, NoMembers
<1>9. Settled(t, g, a)
  BY <1>2, <1>3, <1>4, <1>8 DEF Settled, Last
<1>10. kind = "array" => \A k, p : WaitsFor(t, g, N + 1, k, p)
  BY <1>3, <1>4, <1>5 DEF WaitsFor, WaitsIn
<1>11. QED
  BY <1>1, <1>3, <1>5, <1>7, <1>9, <1>10

\* What has been said before a value, a bracket or a string is parsed.
LEMMA Before ==
  ASSUME IInv, Written, pc # "error"
  PROVE  /\ s \in Seq(Char) /\ Len(s) \in Nat /\ i \in 1 .. Len(s) + 1 /\ Framed(stack)
         /\ Len(stack) \in Nat /\ Kinds(stack) \in Seq(Kind) /\ Tracks(s, i - 1, Kinds(stack))
         /\ Len(Kinds(stack)) = Len(stack) /\ Depth(s, i - 1) = Len(stack)
         /\ i - 1 \in 0 .. Len(s) /\ FramesWait(s, stack, i - 1)
         /\ pc # "string" => Scan(s)[i - 1].mode = "plain"
<1>1. /\ s \in Seq(Char) /\ Len(s) \in Nat /\ i \in 1 .. Len(s) + 1 /\ Framed(stack)
      /\ Kinds(stack) \in Seq(Kind) /\ Tracks(s, i - 1, Kinds(stack))
      /\ pc # "string" => Scan(s)[i - 1].mode = "plain"
  BY Unfold
<1>2. Len(stack) \in Nat /\ Len(Kinds(stack)) = Len(stack)
  <2>1. PICK q : q = stack /\ Framed(q)
    BY <1>1
  <2>2. QED
    BY <2>1, KindsType
<1>3. Depth(s, i - 1) = Len(stack)
  BY <1>1, <1>2 DEF Tracks
<1>4. FramesWait(s, stack, i - 1)
  BY DEF Written
<1>5. i - 1 \in 0 .. Len(s)
  BY <1>1
<1>6. QED
  BY <1>1, <1>2, <1>3, <1>4, <1>5

\* An opening bracket: its frame waits for members, and the frame under it for it.
LEMMA OpenWritten ==
  ASSUME IInv, Written, NEW kind, NEW open, NEW close, NEW next,
         Brackets(kind, open, close, next), Open(kind, open, close, next)
  PROVE  Written'
<1>0. /\ pc = "value" /\ peek(i) = open /\ open # "NUL" /\ open # "quote" /\ open \in Opens
      /\ KindOf(open) = kind /\ close # "NUL" /\ close # "quote" /\ close # ":"
      /\ close \in Closes /\ close \notin Opens /\ s' = s
      /\ (next = "key" /\ kind = "object") \/ (next = "value" /\ kind = "array")
  BY DEF Brackets, Open, Opens, Closes, KindOf
<1>1. /\ s \in Seq(Char) /\ Len(s) \in Nat /\ i \in 1 .. Len(s) + 1 /\ Framed(stack)
      /\ Len(stack) \in Nat /\ Depth(s, i - 1) = Len(stack)
      /\ FramesWait(s, stack, i - 1) /\ Scan(s)[i - 1].mode = "plain"
  BY <1>0, Before
<1>2. i \in 1 .. Len(s) /\ s[i] = open /\ After(i) = i + 1 /\ i + 1 \in 1 .. Len(s) + 1
  BY <1>0, <1>1, PeekIn
<1>3. Scan(s)[i].mode = "plain" /\ i \in Opening(s)
  BY <1>0, <1>1, <1>2, StaysPlain DEF Opening
<1>4. WaitsFor(s, stack, Len(stack), i - 1, i)
  BY <1>0 DEF Written
<1>t. PICK t \in Seq(Char) : t = s /\ t = s'
  BY <1>0, <1>1
<1>5. PICK q : t = s /\ t = s' /\ q = stack
  BY <1>t
<1>6. PICK a \in Opening(t) : a = i /\ t[a] = open /\ a \in Nat
  BY <1>1, <1>2, <1>3, <1>5
<1>7. /\ WaitsFor(t, q, Len(q), a, a) /\ FramesWait(t, q, a)
      /\ \A j : IsPlace(t, a, Len(q) + 1, j) => j = a
  BY <1>1, <1>4, <1>5, <1>6, OpeningLater
<1>8. PICK b \in 1 .. Len(t) + 1 : b = i + 1 /\ b - 1 = a
  BY <1>1, <1>2, <1>5, <1>6
<1>9. PICK k \in 1 .. Len(t) + 1 :
         /\ k = skip_ws(b) /\ k - 1 \in a .. Len(t) /\ Still(t, a, k - 1)
         /\ \A j \in a + 1 .. k - 1 : Quiet(t[j])
  <2>1. /\ skip_ws(b) - 1 \in b - 1 .. Len(t) /\ Still(t, b - 1, skip_ws(b) - 1)
        /\ skip_ws(b) \in b .. Len(t) + 1 /\ \A j \in b .. skip_ws(b) - 1 : Quiet(t[j])
    BY <1>1, <1>5, <1>8, StillOver, SkipWs
  <2>2. b = a + 1 /\ skip_ws(b) \in 1 .. Len(t) + 1
    BY <1>6, <1>8, <2>1
  <2>3. QED
    BY <1>8, <2>1, <2>2
<1>10. PICK m \in a .. Len(t) : m = k - 1 /\ m \in 0 .. Len(t) /\ a \in 0 .. Len(t)
  BY <1>6, <1>9
<1>11. CASE peek(k) = close
  <2>1. k \in 1 .. Len(s) /\ s[k] = close /\ After(k) = k + 1 /\ k + 1 \in 1 .. Len(s) + 1
    BY <1>0, <1>1, <1>5, <1>11, PeekIn
  <2>2. PICK e \in 1 .. Len(t) : e = k /\ t[e] = close /\ e - 1 = m /\ a < e /\ e \in m .. Len(t)
    BY <1>1, <1>5, <1>6, <1>9, <1>10, <2>1
  <2>3. \A j \in a .. m : Scan(t)[j].mode = "plain" /\ Depth(t, j) = Depth(t, a)
    BY <1>3, <1>5, <1>6, <1>9, <1>10, QuietRun
  <2>4. Scan(t)[m].mode = "plain" /\ Depth(t, m) = Depth(t, a)
    BY <2>3
  <2>5. Scan(t)[e].mode = "plain" /\ e \in Closing(t)
    BY <1>0, <2>2, <2>4, StaysPlain DEF Closing
  <2>6. Depth(t, e) < Depth(t, a)
    <3>1. Depth(t, e) = Depth(t, m) - 1
      BY <2>2, <2>5, BracketDepth
    <3>2. Depth(t, a) \in Int
      BY <1>10, ScanType
    <3>3. QED
      BY <2>4, <3>1, <3>2
  <2>7. PICK v : v = Value(kind, << >>)
    OBVIOUS
  <2>8. Reads(t, v, a)
    <3>1. MembersUpTo(t, a, << >>, e - 1)
      <4>1. m \in Int /\ a \in 1 .. Len(t) /\ Still(t, a, m)
        BY <1>9, <1>10 DEF Opening
      <4>2. QED
        BY <2>2, <4>1, NoMembers
    <3>2. kind = KindOf(t[a])
      BY <1>0, <1>6
    <3>3. QED
      BY <2>2, <2>6, <2>7, <3>1, <3>2, ReadsClosed
  <2>9. Still(t, a, e)
    <3>1. \A c \in a + 1 .. e : c \in a + 1 .. m \/ c = e
      BY <1>6, <1>10, <2>2
    <3>2. t[e] \notin Opens /\ t[e] # ":"
      BY <1>0, <2>2
    <3>3. QED
      BY <1>9, <1>10, <3>1, <3>2 DEF Still
  <2>10. FramesWait(t, q, e) /\ WaitsFor(t, q, Len(q), e, a)
    <3>1. e \in a .. Len(t) /\ Len(q) \in Nat
      BY <1>1, <1>5, <1>6, <2>2
    <3>2. QED
      BY <1>7, <1>10, <2>9, <3>1, StillLater
  <2>11. PICK h \in 1 .. Len(s) + 1 : h = k + 1 /\ h - 1 = e
    BY <1>1, <2>1, <2>2
  <2>12. Return(v, q, h)
    BY <1>0, <1>2, <1>5, <1>8, <1>9, <1>11, <2>1, <2>7, <2>11 DEF Open
  <2>13. QED
    BY <1>0, <1>1, <1>5, <2>8, <2>10, <2>11, <2>12, ReturnWritten
<1>12. CASE peek(k) # close
  <2>1. i' = k /\ pc' = next /\ stack' = Append(q, Frame(kind))
    BY <1>2, <1>5, <1>8, <1>9, <1>12 DEF Open
  <2>2. PICK g : g = stack'
    OBVIOUS
  <2>3. /\ Len(g) \in Nat /\ FramesWait(t, g, a) /\ Settled(t, g, a)
        /\ kind = "array" => \A l, p : WaitsFor(t, g, Len(g), l, p)
    <3>1. Framed(q)
      BY <1>1, <1>5
    <3>2. g = Append(q, Frame(kind))
      BY <2>1, <2>2
    <3>3. QED
      BY <1>7, <3>1, <3>2, PushWaits
  <2>4. FramesWait(t, g, m) /\ Settled(t, g, m)
    BY <1>9, <1>10, <2>3, StillLater
  <2>5. QED
    BY <1>0, <1>5, <1>10, <2>1, <2>2, <2>3, <2>4 DEF Written
<1>13. QED
  BY <1>11, <1>12

\* A value that takes the characters from the cursor up to m.
LEMMA ValueWritten ==
  ASSUME IInv, Written, pc = "value", NEW v, NEW m \in 1 .. Len(s) + 1, i <= m,
         Still(s, i - 1, m - 1), Reads(s, v, i), Return(v, stack, m), s' = s
  PROVE  Written'
<1>1. /\ s \in Seq(Char) /\ Len(s) \in Nat /\ i \in 1 .. Len(s) + 1 /\ Framed(stack)
      /\ Len(stack) \in Nat /\ FramesWait(s, stack, i - 1) /\ i - 1 \in 0 .. Len(s)
  BY Before
<1>2. WaitsFor(s, stack, Len(stack), i - 1, i)
  BY DEF Written
<1>t. PICK t \in Seq(Char) : t = s
  BY <1>1
<1>3. PICK q, p : t = s /\ q = stack /\ p = i
  BY <1>t
<1>4. PICK k \in 0 .. Len(t) : k = i - 1
  BY <1>1, <1>3
<1>5. PICK l \in k .. Len(t) : l = m - 1
  BY <1>1, <1>3, <1>4
<1>6. FramesWait(t, q, l) /\ WaitsFor(t, q, Len(q), l, p)
  BY <1>1, <1>2, <1>3, <1>4, <1>5, StillLater
<1>7. QED
  BY <1>1, <1>3, <1>5, <1>6, ReturnWritten

LEMMA NumberEndsAt ==
  ASSUME s \in Seq(Char), NEW k \in 1 .. Len(s) + 1
  PROVE  \E m \in 1 .. Len(s) + 1 : /\ m = NumberEnd(k) /\ k <= m /\ m \in Nat
                                   /\ \A j \in k .. m - 1 : s[j] \in NumChar
<1> DEFINE T == { m \in k .. Len(s) + 1 : peek(m) \notin NumChar }
<1>0. Len(s) \in Nat
  OBVIOUS
<1>1. T \subseteq Nat /\ Len(s) + 1 \in T
  BY <1>0 DEF peek, NumChar
<1>2. PICK m \in T : \A n \in T : m <= n
  <2> HIDE DEF T
  <2> QED BY <1>1, LeastNumber
<1>3. \A j \in k .. m - 1 : j \in k .. Len(s) + 1 /\ j \notin T /\ j <= Len(s)
  BY <1>0, <1>2
<1>4. \A j \in k .. m - 1 : s[j] \in NumChar
  BY <1>3 DEF peek
<1>5. \E n \in k .. Len(s) + 1 : peek(n) \notin NumChar /\ \A j \in k .. n - 1 : s[j] \in NumChar
  BY <1>2, <1>4
<1>6. NumberEnd(k) \in k .. Len(s) + 1 /\ \A j \in k .. NumberEnd(k) - 1 : s[j] \in NumChar
  BY <1>5, Zenon DEF NumberEnd
<1>7. QED
  BY <1>0, <1>6

\* No digit follows a number.
LEMMA NumberStops ==
  ASSUME s \in Seq(Char), NEW k \in 1 .. Len(s) + 1
  PROVE  NumberEnd(k) <= Len(s) => s[NumberEnd(k)] # "1"
<1> DEFINE Stop(n) == peek(n) \notin NumChar /\ \A j \in k .. n - 1 : s[j] \in NumChar
           T == { n \in k .. Len(s) + 1 : peek(n) \notin NumChar }
<1>0. Len(s) \in Nat
  OBVIOUS
<1>2. T \subseteq Nat /\ Len(s) + 1 \in T
  BY <1>0 DEF peek, NumChar
<1>3. PICK n \in T : \A h \in T : n <= h
  <2> HIDE DEF T
  <2> QED BY <1>2, LeastNumber
<1>4. \A j \in k .. n - 1 : j \in k .. Len(s) + 1 /\ j \notin T /\ j <= Len(s)
  BY <1>0, <1>3
<1>5. n \in k .. Len(s) + 1 /\ Stop(n)
  BY <1>3, <1>4 DEF peek
<1>6. NumberEnd(k) = CHOOSE e \in k .. Len(s) + 1 : Stop(e)
  BY Zenon DEF NumberEnd
<1> HIDE DEF Stop, T
<1>7. Stop(NumberEnd(k))
  BY <1>5, <1>6
<1>8. QED
  BY <1>7 DEF Stop, peek, NumChar

\* What stod() takes is the number that begins there.
LEMMA StodTakes ==
  ASSUME NEW t \in Seq(Char), NEW k \in 1 .. Len(t), NEW d \in k + 1 .. Len(t) + 1,
         t[k] \in NumChar, \A j \in k + 1 .. d - 1 : t[j] = "1",
         \E j \in k .. d - 1 : t[j] = "1", d <= Len(t) => t[d] # "1"
  PROVE  NumberAt(t, k) = SubSeq(t, k, d - 1)
<1> DEFINE Longest(e) == Numeral(t, k, e) /\ \A f \in e + 1 .. Len(t) : ~Numeral(t, k, f)
<1>0. Len(t) \in Nat /\ k \in Nat /\ d \in Nat /\ d - 1 \in k .. Len(t) /\ (d - 1) + 1 = d
  OBVIOUS
<1>1. Numeral(t, k, d - 1)
  <2>1. t[d - 1] = "1"
    <3>1. CASE d - 1 = k
      <4>1. \A j \in k .. d - 1 : j = k
        BY <1>0, <3>1
      <4>2. QED
        BY <3>1, <4>1
    <3>2. CASE d - 1 # k
      <4>1. d - 1 \in k + 1 .. d - 1
        BY <1>0, <3>2
      <4>2. QED
        BY <4>1
    <3>3. QED
      BY <3>1, <3>2
  <2>2. QED
    BY <2>1 DEF Numeral
<1>2. ASSUME NEW f \in d .. Len(t) PROVE ~Numeral(t, k, f)
  <2>1. d \in k + 1 .. f /\ d <= Len(t)
    BY <1>0
  <2>2. QED
    BY <2>1 DEF Numeral
<1>3. Longest(d - 1)
  BY <1>0, <1>1, <1>2
<1>4. ASSUME NEW e \in k .. Len(t), Longest(e) PROVE e = d - 1
  <2>1. e \in Nat
    BY <1>0
  <2>2. ~(e \in d .. Len(t))
    BY <1>2, <1>4
  <2>3. ~(d - 1 \in e + 1 .. Len(t))
    BY <1>1, <1>4
  <2>4. QED
    BY <1>0, <2>1, <2>2, <2>3
<1>5. NumberAt(t, k) = SubSeq(t, k, CHOOSE e \in k .. Len(t) : Longest(e))
  BY Zenon DEF NumberAt
<1> HIDE DEF Longest
<1>6. (CHOOSE e \in k .. Len(t) : Longest(e)) = d - 1
  BY <1>0, <1>3, <1>4
<1>7. QED
  BY <1>5, <1>6

LEMMA FrontIs ==
  ASSUME NEW S, NEW q \in Seq(S), Len(q) # 0
  PROVE  /\ Len(Front(q)) = Len(q) - 1 /\ Len(q) - 1 \in Nat
         /\ \A n \in 1 .. Len(q) - 1 : Front(q)[n] = q[n]
<1>1. Len(q) \in Nat
  OBVIOUS
<1>2. Len(q) - 1 \in Nat /\ Front(q) = SubSeq(q, 1, Len(q) - 1)
  BY <1>1 DEF Front
<1>3. Len(SubSeq(q, 1, Len(q) - 1)) = Len(q) - 1
  <2>a. PICK M \in Nat : M = Len(q) /\ M # 0
    BY <1>1
  <2>b. M - 1 \in Nat /\ M - 1 <= M
    BY <2>a
  <2>1. PICK N \in Nat : N = Len(q) - 1 /\ N <= Len(q)
    BY <2>a, <2>b
  <2>2. SubSeq(q, 1, N) \in Seq(S) /\ Len(SubSeq(q, 1, N)) = N
    BY <2>1
  <2>3. QED
    BY <2>1, <2>2
<1>4. \A n \in 1 .. Len(q) - 1 : SubSeq(q, 1, Len(q) - 1)[n] = q[n]
  BY <1>1
<1>5. QED
  BY <1>2, <1>3, <1>4

LEMMA KindIs ==
  ASSUME NEW t, NEW k \in Nat, k > 0
  PROVE  /\ t[k] \in NumChar => KindAt(t, k) = "number" /\ t[k] # "{"
         /\ t[k] \in {"true", "null"} => /\ KindAt(t, k) = t[k] /\ t[k] # "string"
                                       /\ t[k] # "number" /\ t[k] # "object" /\ t[k] # "{"
<1>1. CASE t[k] = "1"
  BY <1>1 DEF KindAt, NumChar
<1>2. CASE t[k] = "-"
  BY <1>2 DEF KindAt, NumChar
<1>3. CASE t[k] = "true"
  BY <1>3 DEF KindAt, NumChar
<1>4. CASE t[k] = "null"
  BY <1>4 DEF KindAt, NumChar
<1>5. QED
  BY <1>1, <1>2, <1>3, <1>4 DEF NumChar

LEMMA LiteralWritten == IInv /\ Written /\ Literal => Written'
<1> SUFFICES ASSUME IInv, Written, Literal PROVE Written'
  OBVIOUS
<1>1. pc = "value" /\ peek(i) \in {"true", "null"} /\ s' = s
  BY DEF Literal
<1>2. s \in Seq(Char) /\ Len(s) \in Nat /\ i \in 1 .. Len(s) + 1 /\ i - 1 \in 0 .. Len(s)
  BY <1>1, Before
<1>3. i \in 1 .. Len(s) /\ peek(i) = s[i] /\ After(i) = i + 1 /\ i + 1 \in 1 .. Len(s) + 1
  BY <1>1, <1>2, PeekIn
<1>4. PICK v : v = Value(s[i], << >>) /\ v.t = s[i]
  BY ValueIs
<1>a. i \in Nat /\ i > 0
  BY <1>2
<1>5. s[i] # "{" /\ s[i] \notin Opens /\ s[i] # ":"
  BY <1>1, <1>3 DEF Opens
<1>6. KindAt(s, i) = s[i] /\ s[i] # "string" /\ s[i] # "number" /\ s[i] # "object"
  BY <1>1, <1>3, <1>a, KindIs
<1>7. Agrees(s, v, i) /\ v.t # "object"
  BY <1>4, <1>6 DEF Agrees
<1>8. Reads(s, v, i)
  BY <1>5, <1>7, ReadsLeaf
<1>9. PICK m \in 1 .. Len(s) + 1 : m = i + 1 /\ i <= m /\ m - 1 = i
  BY <1>2, <1>3
<1>10. Still(s, i - 1, m - 1)
  BY <1>2, <1>3, <1>5, <1>9, StillOne
<1>11. Return(v, stack, m)
  BY <1>3, <1>4, <1>9 DEF Literal
<1>12. QED
  BY <1>1, <1>8, <1>9, <1>10, <1>11, ValueWritten

LEMMA NumberWritten == IInv /\ Written /\ Number => Written' \/ pc' = "error"
<1> SUFFICES ASSUME IInv, Written, Number PROVE Written' \/ pc' = "error"
  OBVIOUS
<1>1. /\ pc = "value" /\ s \in Seq(Char) /\ Len(s) \in Nat /\ i \in 1 .. Len(s) + 1
      /\ i - 1 \in 0 .. Len(s)
  BY Before DEF Number
<1>2. PICK m \in 1 .. Len(s) + 1 :
        m = NumberEnd(i) /\ i <= m /\ m \in Nat /\ \A j \in i .. m - 1 : s[j] \in NumChar
  BY <1>1, NumberEndsAt
<1>a. m <= Len(s) => s[m] # "1"
  BY <1>1, <1>2, NumberStops
<1>3. PICK d \in Nat :
        /\ d = StodEnd(i, m) /\ d \in i .. m
        /\ \A j \in i + 1 .. d - 1 : s[j] = "1"
        /\ d = m \/ (d > i /\ s[d] # "1")
  <2>1. /\ StodEnd(i, m) \in i .. m
        /\ \A j \in i + 1 .. StodEnd(i, m) - 1 : s[j] = "1"
        /\ StodEnd(i, m) = m \/ (StodEnd(i, m) > i /\ s[StodEnd(i, m)] # "1")
    <3>1. i \in Nat /\ m \in Nat /\ i <= m
      BY <1>1, <1>2
    <3>2. QED
      BY <3>1, StodEnds, Zenon
  <2>2. QED
    BY <1>1, <2>1
<1>4. CASE \E j \in i .. d - 1 : s[j] = "1"
  <2>0. PICK x : x = SubSeq(s, i, d - 1)
    OBVIOUS
  <2>1. PICK v : v = Value("number", x) /\ v.t = "number" /\ v.v = x
    BY ValueIs
  <2>2. Return(v, stack, m) /\ s' = s
    BY <1>2, <1>3, <1>4, <2>0, <2>1 DEF Number
  <2>3. i \in i .. m - 1 /\ i \in Nat /\ i > 0
    BY <1>1, <1>2, <1>3, <1>4
  <2>4. s[i] \in NumChar
    BY <1>2, <2>3
  <2>5. KindAt(s, i) = "number" /\ s[i] # "{"
    BY <2>3, <2>4, KindIs
  <2>a. v.v = NumberAt(s, i)
    <3>1. /\ i \in 1 .. Len(s) /\ d \in i + 1 .. Len(s) + 1
          /\ d <= Len(s) => s[d] # "1"
      BY <1>1, <1>2, <1>3, <1>4, <1>a
    <3>2. NumberAt(s, i) = SubSeq(s, i, d - 1)
      BY <1>1, <1>3, <1>4, <2>4, <3>1, StodTakes
    <3>3. QED
      BY <2>0, <2>1, <3>2
  <2>6. Agrees(s, v, i) /\ v.t # "object"
    BY <2>1, <2>5, <2>a DEF Agrees
  <2>7. Reads(s, v, i)
    BY <2>5, <2>6, ReadsLeaf
  <2>8. Still(s, i - 1, m - 1)
    <3>1. (i - 1) + 1 = i
      BY <1>1
    <3>2. \A c \in NumChar : c \notin Opens /\ c # ":"
      BY DEF NumChar, Opens
    <3>3. QED
      BY <1>2, <3>1, <3>2 DEF Still
  <2>9. QED
    BY <1>1, <1>2, <2>2, <2>7, <2>8, ValueWritten
<1>5. CASE ~ \E j \in i .. d - 1 : s[j] = "1"
  <2>1. Fail
    BY <1>2, <1>3, <1>5 DEF Number
  <2>2. QED
    BY <2>1 DEF Fail
<1>6. QED
  BY <1>4, <1>5

\* A step onto the next thing to be parsed, which keeps stack and string.
LEMMA PassWritten ==
  ASSUME IInv, Written, pc \notin {"string", "error"}, i \in 1 .. Len(s), s[i] \notin Opens, s[i] # ":",
         i' = skip_ws(i + 1), UNCHANGED << s, stack >>
  PROVE  /\ FramesWait(s', stack', i' - 1)
         /\ Settled(s, stack, i - 1) => Settled(s', stack', i' - 1)
<1>1. /\ s \in Seq(Char) /\ Len(stack) \in Nat /\ FramesWait(s, stack, i - 1)
      /\ i - 1 \in 0 .. Len(s)
  BY Before
<1>t. PICK t \in Seq(Char) : t = s
  BY <1>1
<1>2. PICK q : t = s /\ q = stack
  BY <1>t
<1>3. PICK k \in 0 .. Len(t) : k = i - 1
  BY <1>1, <1>2
<1>4. PICK l \in k .. Len(t) : l = i' - 1 /\ Still(t, k, l)
  BY <1>1, <1>2, <1>3, StillOne
<1>5. FramesWait(t, q, l) /\ (Settled(t, q, k) => Settled(t, q, l))
  BY <1>1, <1>2, <1>3, <1>4, StillLater
<1>6. QED
  BY <1>2, <1>3, <1>4, <1>5

LEMMA PlaceOf ==
  ASSUME NEW t \in Seq(Char), NEW k \in 0 .. Len(t), NEW K \in Seq(Kind), Tracks(t, k, K),
         NEW n \in 1 .. Len(K)
  PROVE  \E j : IsPlace(t, k, n, j) /\ K[n] = KindOf(t[j])
<1>1. n \in DOMAIN K
  OBVIOUS
<1>2. PICK j \in Opening(t) : j <= k /\ StaysOpen(t, j, k) /\ Depth(t, j) = n
  BY <1>1 DEF Tracks
<1>3. IsPlace(t, k, n, j)
  BY <1>2 DEF IsPlace
<1>4. ASSUME NEW m \in Closing(t), m <= k, Pairs(t, j, m) PROVE FALSE
  <2>a. j \in 1 .. Len(t) /\ m \in 1 .. Len(t) /\ j < m /\ Depth(t, m) = n - 1
    BY <1>2, <1>4 DEF Pairs, Closing, Opening
  <2>1. m \in j .. k /\ Depth(t, m) = n - 1
    BY <1>4, <2>a
  <2>2. Depth(t, m) >= n
    BY <1>2, <2>1 DEF StaysOpen
  <2>3. QED
    BY <2>1, <2>2
<1>5. K[n] = KindOf(t[j])
  BY <1>2, <1>4 DEF Tracks
<1>6. QED
  BY <1>3, <1>5

LEMMA FollowWritten ==
  ASSUME IInv, Written, NEW at, NEW kind, NEW close, NEW next,
         Loops(at, kind, close, next), Follow(at, kind, close, next)
  PROVE  Written' \/ pc' = "error"
<1>0. /\ pc = at /\ close # "NUL" /\ close # "quote" /\ close # "," /\ close # ":"
      /\ close \in Closes /\ close \notin Opens
      /\ \/ pc = "member" /\ kind = "object" /\ next = "key"
         \/ pc = "item" /\ kind = "array" /\ next = "value"
  BY DEF Loops, Follow, Closes, Opens
<1>1. /\ s \in Seq(Char) /\ Len(s) \in Nat /\ i \in 1 .. Len(s) + 1 /\ Framed(stack)
      /\ Kinds(stack) \in Seq(Kind) /\ Tracks(s, i - 1, Kinds(stack))
      /\ Len(stack) \in Nat /\ Len(Kinds(stack)) = Len(stack) /\ Depth(s, i - 1) = Len(stack)
      /\ i - 1 \in 0 .. Len(s) /\ FramesWait(s, stack, i - 1)
      /\ Scan(s)[i - 1].mode = "plain"
  BY <1>0, Before
<1>2. stack # << >> /\ Last(stack).kind = kind
  BY <1>0 DEF IInv, Calls, InObject, InArray
<1>3. kind = "object" => Settled(s, stack, i - 1)
  BY <1>0 DEF Written
<1>4. CASE peek(i) = ","
  <2>1. pc' = next /\ i' = skip_ws(After(i)) /\ UNCHANGED << s, stack, str, root >>
    BY <1>0, <1>4 DEF Follow
  <2>2. i \in 1 .. Len(s) /\ s[i] = "," /\ After(i) = i + 1
    BY <1>1, <1>4, PeekIn
  <2>3. s[i] \notin Opens /\ s[i] # ":"
    BY <2>2 DEF Opens
  <2>4. /\ FramesWait(s', stack', i' - 1)
        /\ Settled(s, stack, i - 1) => Settled(s', stack', i' - 1)
    BY <1>0, <2>1, <2>2, <2>3, PassWritten
  <2>5. kind = "array" => WaitsFor(s', stack', Len(stack'), i' - 1, i')
    <3>1. ASSUME kind = "array" PROVE WaitsFor(s, stack, Len(stack), i' - 1, i')
      <4>1. Len(stack) # 0
        BY <1>1, <1>2
      <4>2. stack[Len(stack)].kind = "array"
        BY <1>2, <3>1 DEF Last
      <4>3. QED
        BY <4>1, <4>2 DEF WaitsFor, WaitsIn
    <3>2. QED
      BY <2>1, <3>1
  <2>6. QED
    BY <1>0, <1>3, <2>1, <2>4, <2>5 DEF Written
<1>5. CASE peek(i) = close
  <2>1. Close(kind) /\ UNCHANGED << s, str >>
    BY <1>0, <1>5 DEF Follow
  <2>2. i \in 1 .. Len(s) /\ s[i] = close /\ After(i) = i + 1 /\ i + 1 \in 1 .. Len(s) + 1
    BY <1>0, <1>1, <1>5, PeekIn
  <2>3. Scan(s)[i].mode = "plain" /\ i \in Closing(s)
    BY <1>0, <1>1, <2>2, StaysPlain DEF Closing
  <2>a. PICK q : q = stack
    OBVIOUS
  <2>b. PICK t \in Seq(Char), K \in Seq(Kind) : t = s /\ K = Kinds(stack)
    BY <1>1
  <2>4. q = stack /\ t = s /\ K = Kinds(q)
    BY <2>a, <2>b
  <2>5. PICK N \in Nat : N = Len(q) /\ N = Len(K) /\ N # 0 /\ N \in 1 .. Len(K)
    <3>1. Len(q) # 0
      BY <1>1, <1>2, <2>4
    <3>2. QED
      BY <1>1, <2>4, <3>1
  <2>6. PICK k \in 0 .. Len(t) : k = i - 1
    BY <1>1, <2>4
  <2>7. PICK e \in k .. Len(t) : e = i /\ e \in 1 .. Len(t) /\ e - 1 = k /\ e \in Closing(t)
    BY <1>1, <2>2, <2>3, <2>4, <2>6
  <2>8. PICK j : IsPlace(t, k, N, j) /\ K[N] = KindOf(t[j])
    BY <1>1, <2>4, <2>5, <2>6, PlaceOf
  <2>9. j \in Opening(t) /\ j \in Nat /\ j <= k /\ Depth(t, j) = N /\ j < e
    <3>1. j \in Opening(t) /\ j \in Nat /\ j <= k /\ Depth(t, j) = N
      BY <2>8, PlaceType
    <3>2. QED
      BY <2>7, <3>1
  <2>10. Depth(t, e) < Depth(t, j)
    <3>1. Depth(t, e) = Depth(t, k) - 1
      BY <2>7, BracketDepth
    <3>2. Depth(t, k) = N
      BY <1>1, <2>4, <2>5, <2>6
    <3>3. QED
      BY <2>9, <3>1, <3>2
  <2>11. kind = KindOf(t[j])
    <3>1. K[Len(q)] = Last(q).kind
      BY <1>1, <1>2, <2>4, PopFrame
    <3>2. QED
      BY <1>2, <2>4, <2>5, <2>8, <3>1
  <2>12. PICK members, v : members = Last(q).members /\ v = Value(kind, members)
    OBVIOUS
  <2>13. kind = "object" => MembersUpTo(t, j, members, e - 1)
    BY <1>3, <2>4, <2>5, <2>6, <2>7, <2>8, <2>9, <2>12 DEF Settled
  <2>14. Reads(t, v, j)
    BY <2>7, <2>9, <2>10, <2>11, <2>12, <2>13, ReadsClosed
  <2>15. PICK outer : outer = Front(q) /\ Framed(outer)
    BY <1>1, <1>2, <2>4, PopFrame
  <2>16. Len(outer) = N - 1 /\ N - 1 \in Nat /\ \A n \in 1 .. N - 1 : outer[n] = q[n]
    <3>1. q \in Seq({q[n] : n \in DOMAIN q})
      BY <1>1, <2>4 DEF Framed
    <3> DEFINE S == {q[n] : n \in DOMAIN q}
    <3>2. q \in Seq(S)
      BY <3>1
    <3> HIDE DEF S
    <3>3. QED
      BY <2>5, <2>15, <3>2, FrontIs
  <2>17. WaitsFor(t, outer, N - 1, k, j)
    <3>1. N \in 1 .. Len(q) /\ (N - 1 # 0 => N - 1 \in 1 .. N - 1)
      BY <2>5
    <3>2. FramesWait(t, q, k)
      BY <1>1, <2>4, <2>6
    <3>3. WaitsFor(t, q, N - 1, k, j)
      BY <2>8, <2>9, <3>1, <3>2 DEF FramesWait
    <3>4. N - 1 # 0 => outer[N - 1] = q[N - 1]
      BY <2>16, <3>1
    <3>5. QED
      BY <3>3, <3>4 DEF WaitsFor
  <2>18. FramesWait(t, outer, k)
    <3>1. FramesWait(t, q, k)
      BY <1>1, <2>4, <2>6
    <3>2. Len(outer) \in Nat /\ Len(q) \in Nat /\ Len(outer) <= Len(q)
          /\ \A n \in 1 .. Len(outer) - 1 : n \in 1 .. N - 1
      BY <2>5, <2>16
    <3>3. QED
      BY <2>16, <3>1, <3>2, FramesUnder
  <2>19. FramesWait(t, outer, e) /\ WaitsFor(t, outer, Len(outer), e, j)
    <3>1. Still(t, k, e)
      <4>1. \A c \in k + 1 .. e : c = e
        BY <2>7
      <4>2. t[e] \notin Opens /\ t[e] # ":"
        BY <1>0, <2>2, <2>4, <2>7
      <4>3. QED
        BY <4>1, <4>2 DEF Still
    <3>2. QED
      BY <2>16, <2>17, <2>18, <3>1, StillLater
  <2>20. PICK b \in 1 .. Len(s) + 1 : b = i + 1 /\ b - 1 = e
    BY <1>1, <2>2, <2>7
  <2>21. Return(v, outer, b)
    BY <2>1, <2>2, <2>4, <2>12, <2>15, <2>20 DEF Close
  <2>22. QED
    BY <1>1, <2>1, <2>4, <2>14, <2>15, <2>19, <2>20, <2>21, ReturnWritten
<1>6. CASE peek(i) # "," /\ peek(i) # close
  BY <1>6 DEF Follow, Fail
<1>7. QED
  BY <1>4, <1>5, <1>6

LEMMA ColonWritten == IInv /\ Written /\ Colon => Written' \/ pc' = "error"
<1> SUFFICES ASSUME IInv, Written, Colon PROVE Written' \/ pc' = "error"
  OBVIOUS
<1>1. CASE peek(i) # ":"
  BY <1>1 DEF Colon, Fail
<1>2. CASE peek(i) = ":"
  <2>1. /\ pc = "colon" /\ pc' = "value" /\ i' = skip_ws(After(i))
        /\ UNCHANGED << s, stack, str, root >>
    BY <1>2 DEF Colon
  <2>2. /\ s \in Seq(Char) /\ Len(s) \in Nat /\ i \in 1 .. Len(s) + 1
        /\ Len(stack) \in Nat /\ Depth(s, i - 1) = Len(stack)
        /\ FramesWait(s, stack, i - 1) /\ Scan(s)[i - 1].mode = "plain"
    BY <2>1, Before
  <2>3. i \in 1 .. Len(s) /\ s[i] = ":" /\ After(i) = i + 1 /\ i + 1 \in 1 .. Len(s) + 1
    BY <1>2, <2>2, PeekIn
  <2>4. Len(stack) # 0
    <3>1. stack # << >>
      BY <2>1 DEF IInv, Calls, InObject
    <3>2. PICK q : q = stack /\ Framed(q) /\ q # << >>
      BY <3>1 DEF IInv, TypeOK
    <3>3. q \in Seq({q[n] : n \in DOMAIN q})
      BY <3>2 DEF Framed
    <3>4. QED
      BY <3>2, <3>3, EmptySeq
  <2>5. ~InString(s, i)
    BY <2>2, <2>3, StaysPlain
  <2>6. Depth(s, i) = Len(stack)
    <3>1. Depth(s, i) = Depth(s, i - 1) + Weight(s[i])
      BY <2>2, <2>3, <2>5, OneFurther
    <3>2. Weight(s[i]) = 0
      BY <2>3 DEF Weight, Opens, Closes
    <3>3. QED
      BY <2>2, <3>1, <3>2
  <2>7. Settled(s, stack, i - 1) /\ Last(stack).key = KeyAt(s, i)
    BY <2>1 DEF Written
  <2>t. PICK t \in Seq(Char) : t = s
    BY <2>2
  <2>8. PICK q : t = s /\ q = stack
    BY <2>t
  <2>9. PICK a \in 1 .. Len(t) : a = i
    BY <2>3, <2>8
  <2>10. FramesWait(t, q, a) /\ WaitsFor(t, q, Len(q), a, FirstInk(t, a + 1))
    BY <2>2, <2>3, <2>4, <2>5, <2>6, <2>7, <2>8, <2>9, ColonLater
  <2>11. PICK b \in 1 .. Len(t) + 1 : b = i + 1 /\ b - 1 = a
    BY <2>2, <2>3, <2>8, <2>9
  <2>12. i' = FirstInk(t, b)
    BY <2>1, <2>2, <2>3, <2>8, <2>11, InkIs
  <2>13. PICK k \in 0 .. Len(t) : k = a
    BY <2>2, <2>8
  <2>14. PICK l \in k .. Len(t) : l = i' - 1 /\ Still(t, k, l)
    BY <2>1, <2>2, <2>3, <2>8, <2>11, <2>13, StillOver
  <2>15. FramesWait(t, q, l) /\ WaitsFor(t, q, Len(q), l, i')
    <3>1. PICK p : p = i'
      OBVIOUS
    <3>2. WaitsFor(t, q, Len(q), k, p)
      BY <2>9, <2>10, <2>11, <2>12, <2>13, <3>1
    <3>3. FramesWait(t, q, k) /\ Len(q) \in Nat
      BY <2>2, <2>8, <2>10, <2>13
    <3>4. FramesWait(t, q, l) /\ WaitsFor(t, q, Len(q), l, p)
      BY <2>14, <3>2, <3>3, StillLater
    <3>5. QED
      BY <3>1, <3>4
  <2>16. QED
    BY <2>1, <2>8, <2>14, <2>15 DEF Written
<1>3. QED
  BY <1>1, <1>2

\* The opening quote, of a key or of a value.
LEMMA EnterWritten ==
  ASSUME IInv, Written, pc \notin {"string", "error"}, peek(i) = "quote", pc' = "string", i' = After(i),
         NEW isKey \in BOOLEAN, str' = [chars |-> << >>, isKey |-> isKey],
         UNCHANGED << s, stack, root >>,
         IF isKey THEN Settled(s, stack, i - 1) ELSE WaitsFor(s, stack, Len(stack), i - 1, i)
  PROVE  Written'
<1>1. /\ s \in Seq(Char) /\ Len(s) \in Nat /\ i \in 1 .. Len(s) + 1 /\ Len(stack) \in Nat
      /\ i - 1 \in 0 .. Len(s) /\ FramesWait(s, stack, i - 1) /\ Scan(s)[i - 1].mode = "plain"
  BY Before
<1>2. i \in 1 .. Len(s) /\ s[i] = "quote" /\ After(i) = i + 1 /\ i + 1 \in 1 .. Len(s) + 1
  BY <1>1, PeekIn
<1>t. PICK t \in Seq(Char) : t = s /\ t = s'
  BY <1>1
<1>3. PICK f : t = s /\ t = s' /\ f = stack /\ f = stack'
  BY <1>t
<1>4. PICK q \in 1 .. Len(t) : q = i /\ t[q] = "quote" /\ Scan(t)[q - 1].mode = "plain"
  BY <1>1, <1>2, <1>3
<1>5. Scan(t)[q].mode = "string" /\ InString(t, q) /\ ~InString(t, q - 1)
  BY <1>4, OneFurther DEF ModeAfter, InString
<1>6. i' - 1 = q /\ i' = q + 1 /\ q \in 1 .. i' - 1 /\ \A m \in q .. i' - 1 : m = q
  BY <1>1, <1>2, <1>3, <1>4
<1>7. PICK k \in 0 .. Len(t) : k = i - 1 /\ q \in k .. Len(t) /\ Still(t, k, q)
  BY <1>1, <1>2, <1>3, <1>4, <1>5, StillOne
<1>8. /\ FramesWait(t, f, q) /\ (isKey => Settled(t, f, q))
      /\ (~isKey => WaitsFor(t, f, Len(f), q, q))
  <2>1. Len(f) \in Nat /\ FramesWait(t, f, k)
    BY <1>1, <1>3, <1>7
  <2>2. (isKey => Settled(t, f, k)) /\ (~isKey => WaitsFor(t, f, Len(f), k, q))
    BY <1>3, <1>4, <1>7
  <2>3. QED
    BY <1>7, <2>1, <2>2, StillLater
<1>9. Read(t, q)[q] = << >>
  BY ReadIs
<1>10. str'.chars = << >> /\ (str'.isKey <=> isKey)
  <2>1. PICK b : b = isKey
    OBVIOUS
  <2>2. str'.chars = << >> /\ str'.isKey = b
    BY <2>1
  <2>3. QED
    BY <2>1, <2>2
<1>11. StringFrom(q)'
  BY <1>3, <1>4, <1>5, <1>6, <1>8, <1>9, <1>10 DEF StringFrom
<1>12. FramesWait(s', stack', i' - 1)
  BY <1>3, <1>6, <1>8
<1>13. QED
  BY <1>6, <1>11, <1>12 DEF Written

LEMMA KeyWritten == IInv /\ Written /\ Key => Written' \/ pc' = "error"
<1> SUFFICES ASSUME IInv, Written, Key PROVE Written' \/ pc' = "error"
  OBVIOUS
<1>1. CASE peek(i) # "quote"
  BY <1>1 DEF Key, Fail
<1>2. CASE peek(i) = "quote"
  <2>1. /\ pc = "key" /\ pc' = "string" /\ i' = After(i) /\ str' = [chars |-> << >>, isKey |-> TRUE]
        /\ UNCHANGED << s, stack, root >>
    BY <1>2 DEF Key
  <2>2. Settled(s, stack, i - 1)
    BY <2>1 DEF Written
  <2>3. QED
    BY <1>2, <2>1, <2>2, EnterWritten
<1>3. QED
  BY <1>1, <1>2

LEMMA BeginStringWritten == IInv /\ Written /\ BeginString => Written'
<1> SUFFICES ASSUME IInv, Written, BeginString PROVE Written'
  OBVIOUS
<1>1. /\ pc = "value" /\ peek(i) = "quote" /\ pc' = "string" /\ i' = After(i)
      /\ str' = [chars |-> << >>, isKey |-> FALSE] /\ UNCHANGED << s, stack, root >>
  BY DEF BeginString
<1>2. WaitsFor(s, stack, Len(stack), i - 1, i)
  BY <1>1 DEF Written
<1>3. QED
  BY <1>1, <1>2, EnterWritten

\* Where a string is being parsed.
LEMMA Inside ==
  ASSUME IInv, Written, pc = "string", i \in 1 .. Len(s)
  PROVE  \E q \in 1 .. i - 1 :
           /\ StringIn(s, q, i - 1) /\ str.chars = Read(s, q)[i - 1]
           /\ (str.isKey => Settled(s, stack, i - 1))
           /\ (~str.isKey => WaitsFor(s, stack, Len(stack), i - 1, q))
           /\ Scan(s)[i - 1].mode = "string" /\ ~Introduces(s, i - 1)
<1>1. PICK q \in 1 .. i - 1 : StringFrom(q)
  BY DEF Written
<1>2. s \in Seq(Char) /\ Len(s) \in Nat /\ Scan(s)[i - 1].mode = "string"
  BY Unfold
<1>3. ~Introduces(s, i - 1)
  BY <1>2 DEF Introduces
<1>4. QED
  BY <1>1, <1>2, <1>3 DEF StringFrom, StringIn

\* A character of a string; an escape takes the next one with it.
LEMMA PushWritten ==
  ASSUME IInv, Written, NoUnicode(s), pc = "string", peek(i) # "NUL", peek(i) # "quote",
         Push(IF peek(i) = "esc" THEN Unescape(peek(After(i))) ELSE peek(i),
              IF peek(i) = "esc" THEN After(After(i)) ELSE After(i))
  PROVE  Written'
<1>1. /\ s \in Seq(Char) /\ Len(s) \in Nat /\ i \in 1 .. Len(s) + 1 /\ Len(stack) \in Nat
      /\ i - 1 \in 0 .. Len(s) /\ FramesWait(s, stack, i - 1)
      /\ str = [chars |-> str.chars, isKey |-> str.isKey]
  BY Before, Unfold
<1>2. i \in 1 .. Len(s) /\ peek(i) = s[i] /\ After(i) = i + 1 /\ i + 1 \in 1 .. Len(s) + 1
  BY <1>1, PeekIn
<1>3. PICK c : c = IF peek(i) = "esc" THEN Unescape(peek(After(i))) ELSE peek(i)
  OBVIOUS
<1>4. /\ UNCHANGED << s, pc, stack, root >> /\ str' = [str EXCEPT !.chars = Append(@, c)]
      /\ i' = IF peek(i) = "esc" THEN After(After(i)) ELSE After(i)
  BY <1>3 DEF Push
<1>5. str'.chars = Append(str.chars, c) /\ str'.isKey = str.isKey
  <2>1. PICK a, b : str = [chars |-> a, isKey |-> b]
    BY <1>1
  <2>2. str' = [chars |-> Append(a, c), isKey |-> b]
    BY <1>4, <2>1
  <2>3. QED
    BY <2>1, <2>2
<1>t. PICK t \in Seq(Char) : t = s /\ t = s'
  BY <1>1, <1>4
<1>6. PICK f : t = s /\ t = s' /\ f = stack /\ f = stack'
  BY <1>t, <1>4
<1>7. PICK a \in 1 .. Len(t) : a = i
  BY <1>2, <1>6
<1>8. PICK q \in 1 .. i - 1 :
           /\ StringIn(s, q, i - 1) /\ str.chars = Read(s, q)[i - 1]
           /\ (str.isKey => Settled(s, stack, i - 1))
           /\ (~str.isKey => WaitsFor(s, stack, Len(stack), i - 1, q))
           /\ Scan(s)[i - 1].mode = "string" /\ ~Introduces(s, i - 1)
  BY <1>2, Inside
<1>9. q \in 1 .. Len(t) /\ a \in q + 1 .. Len(t) /\ q \in Nat /\ a \in Nat /\ a - 1 \in q .. Len(t)
  BY <1>1, <1>6, <1>7, <1>8
<1>10. Scan(t)[a].mode = IF t[a] = "esc" THEN "escape" ELSE "string"
  <2>1. Scan(t)[a].mode = ModeAfter(Scan(t)[a - 1].mode, t[a])
    BY OneFurther
  <2>2. t[a] # "quote" /\ Scan(t)[a - 1].mode = "string"
    BY <1>2, <1>6, <1>7, <1>8
  <2>3. QED
    BY <2>1, <2>2 DEF ModeAfter
<1>11. Read(t, q)[a] = IF t[a] = "esc" THEN Read(t, q)[a - 1] ELSE Append(Read(t, q)[a - 1], t[a])
  <2>1. Read(t, q)[a] = IF Introduces(t, a) THEN Read(t, q)[a - 1]
                        ELSE IF Introduces(t, a - 1) THEN Escaped(Read(t, q)[a - 1], t[a])
                        ELSE Append(Read(t, q)[a - 1], t[a])
    BY <1>9, ReadIs
  <2>2. Introduces(t, a) <=> t[a] = "esc"
    BY <1>10 DEF Introduces
  <2>3. ~Introduces(t, a - 1)
    BY <1>6, <1>7, <1>8
  <2>4. QED
    BY <2>1, <2>2, <2>3
<1>12. PICK l \in a .. Len(t) :
          /\ l = i' - 1 /\ \A m \in a .. l : InString(t, m)
          /\ Introduces(t, l) \/ Read(t, q)[l] = Append(Read(t, q)[a - 1], c)
  <2>1. CASE t[a] # "esc"
    <3>1. i' - 1 = a /\ c = t[a] /\ a \in a .. Len(t) /\ \A m \in a .. a : m = a
      BY <1>1, <1>2, <1>3, <1>4, <1>6, <1>7, <2>1
    <3>2. InString(t, a)
      BY <1>10, <2>1 DEF InString
    <3>3. Read(t, q)[a] = Append(Read(t, q)[a - 1], c)
      BY <1>11, <2>1, <3>1
    <3>4. QED
      BY <3>1, <3>2, <3>3
  <2>2. CASE t[a] = "esc" /\ a = Len(t)
    <3>1. i' - 1 = a /\ a \in a .. Len(t) /\ \A m \in a .. a : m = a
      BY <1>1, <1>2, <1>4, <1>6, <1>7, <2>2 DEF After
    <3>2. InString(t, a) /\ Introduces(t, a)
      BY <1>10, <2>2 DEF InString, Introduces
    <3>3. QED
      BY <3>1, <3>2
  <2>3. CASE t[a] = "esc" /\ a # Len(t)
    <3>1. PICK n \in 1 .. Len(t) : n = a + 1 /\ n - 1 = a
      <4>1. a + 1 \in 1 .. Len(t) /\ (a + 1) - 1 = a
        BY <1>1, <1>6, <1>9, <2>3
      <4>2. QED
        BY <4>1
    <3>2. i' - 1 = n /\ n \in a .. Len(t) /\ n \in q + 1 .. Len(t) /\ \A m \in a .. n : m = a \/ m = n
      <4>1. i \in Int /\ i # Len(s) /\ i + 1 \in 1 .. Len(s) + 1
        BY <1>1, <1>2, <1>6, <1>7, <2>3
      <4>2. i + 1 <= Len(s) /\ (i + 1) + 1 - 1 = i + 1
        BY <1>1, <4>1
      <4>3. After(i + 1) = (i + 1) + 1
        BY <4>2 DEF After
      <4>4. i' = (i + 1) + 1
        BY <1>2, <1>4, <1>6, <1>7, <2>3, <4>3
      <4>5. i' - 1 = n
        BY <1>7, <3>1, <4>2, <4>4
      <4>6. n \in a .. Len(t) /\ n \in q + 1 .. Len(t) /\ \A m \in a .. n : m = a \/ m = n
        BY <1>9, <3>1
      <4>7. QED
        BY <4>5, <4>6
    <3>3. c = Unescape(t[n])
      <4>1. peek(i + 1) = t[n]
        BY <1>1, <1>6, <1>7, <3>1 DEF peek
      <4>2. QED
        BY <1>2, <1>3, <1>6, <1>7, <2>3, <4>1
    <3>4. Scan(t)[a].mode = "escape"
      BY <1>10, <2>3
    <3>5. Scan(t)[n].mode = "string"
      <4>1. Scan(t)[n].mode = ModeAfter(Scan(t)[n - 1].mode, t[n])
        BY OneFurther
      <4>2. QED
        BY <3>1, <3>4, <4>1 DEF ModeAfter
    <3>6. InString(t, a) /\ Introduces(t, a) /\ InString(t, n) /\ ~Introduces(t, n)
      BY <3>4, <3>5 DEF InString, Introduces
    <3>7. Read(t, q)[n] = IF Introduces(t, n) THEN Read(t, q)[n - 1]
                          ELSE IF Introduces(t, n - 1) THEN Escaped(Read(t, q)[n - 1], t[n])
                          ELSE Append(Read(t, q)[n - 1], t[n])
      BY <1>9, <3>2, ReadIs
    <3>a. Escaped(Read(t, q)[a], t[n]) = Append(Read(t, q)[a], c)
      <4>1. t[n] # "u"
        BY <1>6, <3>1, <3>6 DEF NoUnicode
      <4>2. QED
        BY <3>3, <4>1 DEF Escaped, Unescape
    <3>8. Read(t, q)[n] = Append(Read(t, q)[a - 1], c)
      BY <1>11, <2>3, <3>1, <3>6, <3>7, <3>a
    <3>9. QED
      BY <3>2, <3>6, <3>8
  <2>4. QED
    BY <2>1, <2>2, <2>3
<1>13. PICK k \in 0 .. Len(t) : k = i - 1 /\ l \in k .. Len(t) /\ k + 1 = a
  BY <1>1, <1>6, <1>7, <1>12
<1>14. Still(t, k, l)
  BY <1>12, <1>13 DEF Still
<1>15. /\ FramesWait(t, f, l) /\ (str.isKey => Settled(t, f, l))
       /\ (~str.isKey => WaitsFor(t, f, Len(f), l, q))
  <2>1. Len(f) \in Nat /\ FramesWait(t, f, k)
    BY <1>1, <1>6, <1>13
  <2>2. (str.isKey => Settled(t, f, k)) /\ (~str.isKey => WaitsFor(t, f, Len(f), k, q))
    BY <1>6, <1>8, <1>13
  <2>3. QED
    BY <1>13, <1>14, <2>1, <2>2, StillLater
<1>16. \A m \in q .. l : InString(t, m)
  <2>1. \A m \in q .. l : m \in q .. i - 1 \/ m \in a .. l
    BY <1>1, <1>7, <1>9, <1>12
  <2>2. QED
    BY <1>6, <1>8, <1>12, <2>1 DEF StringIn
<1>17. q \in 1 .. i' - 1
  BY <1>9, <1>12
<1>18. StringFrom(q)'
  <2>1. t[q] = "quote" /\ ~InString(t, q - 1)
    BY <1>6, <1>8 DEF StringIn
  <2>2. Introduces(t, l) \/ str'.chars = Read(t, q)[l]
    BY <1>5, <1>6, <1>7, <1>8, <1>12
  <2>3. QED
    BY <1>5, <1>6, <1>12, <1>15, <1>16, <2>1, <2>2 DEF StringFrom
<1>19. FramesWait(s', stack', i' - 1)
  BY <1>6, <1>12, <1>15
<1>20. QED
  BY <1>4, <1>17, <1>18, <1>19 DEF Written

\* The closing quote.
LEMMA EndStringWritten ==
  ASSUME IInv, Written, pc = "string", peek(i) = "quote", EndString
  PROVE  Written'
<1>1. /\ s \in Seq(Char) /\ Len(s) \in Nat /\ i \in 1 .. Len(s) + 1 /\ Len(stack) \in Nat
      /\ i - 1 \in 0 .. Len(s) /\ FramesWait(s, stack, i - 1) /\ Framed(stack)
  BY Before
<1>2. i \in 1 .. Len(s) /\ peek(i) = s[i] /\ After(i) = i + 1 /\ i + 1 \in 1 .. Len(s) + 1
  BY <1>1, PeekIn
<1>t. PICK t \in Seq(Char) : t = s /\ t = s'
  BY <1>1 DEF EndString
<1>3. PICK f, x : t = s /\ t = s' /\ f = stack /\ x = str.chars
  BY <1>t
<1>4. PICK a \in 1 .. Len(t) : a = i
  BY <1>2, <1>3
<1>5. PICK q \in 1 .. i - 1 :
           /\ StringIn(s, q, i - 1) /\ str.chars = Read(s, q)[i - 1]
           /\ (str.isKey => Settled(s, stack, i - 1))
           /\ (~str.isKey => WaitsFor(s, stack, Len(stack), i - 1, q))
           /\ Scan(s)[i - 1].mode = "string" /\ ~Introduces(s, i - 1)
  BY <1>2, Inside
<1>6. q \in 1 .. Len(t) /\ a \in q + 1 .. Len(t) /\ q \in Nat /\ a \in Nat
  BY <1>1, <1>3, <1>4, <1>5
<1>7. Scan(t)[a].mode = "plain" /\ ~InString(t, a)
  <2>1. Scan(t)[a].mode = ModeAfter(Scan(t)[a - 1].mode, t[a])
    BY OneFurther
  <2>2. t[a] = "quote" /\ Scan(t)[a - 1].mode = "string"
    BY <1>2, <1>3, <1>4, <1>5
  <2>3. QED
    BY <2>1, <2>2 DEF ModeAfter, InString
<1>8. StringIn(t, q, a - 1) /\ x = Read(t, q)[a - 1]
  BY <1>3, <1>4, <1>5
<1>9. StringAt(t, q) = x /\ Reads(t, Value("string", x), q)
  BY <1>6, <1>7, <1>8, ReadsString
<1>10. PICK k \in 0 .. Len(t) : k = i - 1 /\ a \in k .. Len(t) /\ k + 1 = a
  BY <1>1, <1>3, <1>4
<1>11. Still(t, k, a)
  <2>1. \A c \in k + 1 .. a : c = a
    BY <1>6, <1>10
  <2>2. t[a] \notin Opens /\ t[a] # ":"
    BY <1>2, <1>3, <1>4 DEF Opens
  <2>3. QED
    BY <2>1, <2>2 DEF Still
<1>12. PICK b \in 1 .. Len(t) + 1 : b = i + 1 /\ b - 1 = a /\ b = a + 1
  BY <1>1, <1>2, <1>3, <1>4
<1>13. Len(f) \in Nat /\ FramesWait(t, f, k) /\ Framed(f)
  BY <1>1, <1>3, <1>10
<1>14. CASE str.isKey
  <2>1. /\ pc' = "colon" /\ i' = skip_ws(b)
        /\ stack' = [f EXCEPT ![Len(f)].key = x]
    BY <1>2, <1>3, <1>12, <1>14 DEF EndString
  <2>2. f # << >>
    BY <1>3, <1>14 DEF IInv, Calls, InObject
  <2>3. PICK N, g : N = Len(f) /\ g = stack'
    OBVIOUS
  <2>4. WithKey(g, f, N, x)
    BY <2>1, <2>3 DEF WithKey
  <2>5. /\ N \in Nat /\ N # 0 /\ Len(g) = N /\ Last(g).members = f[N].members /\ Last(g).key = x
        /\ \A n \in 1 .. N - 1 : g[n] = f[n]
    BY <1>13, <2>2, <2>3, <2>4, LastFilled
  <2>6. Settled(t, g, k)
    <3>1. Settled(t, f, k)
      BY <1>3, <1>5, <1>10, <1>14
    <3>2. QED
      BY <2>3, <2>5, <3>1 DEF Settled, Last
  <2>7. FramesWait(t, g, k)
    <3>1. N <= N
      BY <2>5
    <3>2. QED
      BY <1>13, <2>3, <2>5, <3>1, FramesUnder
  <2>8. PICK l \in k .. Len(t) :
          /\ l = i' - 1 /\ Still(t, k, l) /\ l \in a .. Len(t) /\ i' \in b .. Len(t) + 1
          /\ \A j \in b .. l : t[j] \in Blank
    <3>1. /\ skip_ws(b) - 1 \in b - 1 .. Len(t) /\ Still(t, b - 1, skip_ws(b) - 1)
          /\ skip_ws(b) \in b .. Len(t) + 1 /\ \A j \in b .. skip_ws(b) - 1 : t[j] \in Blank
      BY <1>1, <1>3, <1>12, StillOver, InkIs
    <3>2. PICK l \in a .. Len(t) : l = i' - 1 /\ Still(t, a, l)
      BY <1>12, <2>1, <3>1
    <3>3. k \in Int /\ a \in Int /\ l \in Int
      OBVIOUS
    <3>4. Still(t, k, l) /\ l \in k .. Len(t)
      BY <1>10, <1>11, <3>2, <3>3, StillOn
    <3>5. QED
      BY <2>1, <3>1, <3>2, <3>4
  <2>9. FramesWait(t, g, l) /\ Settled(t, g, l)
    BY <2>5, <2>6, <2>7, <2>8, StillLater
  <2>10. KeyAt(t, i') = x
    <3>1. i' \in a + 1 .. Len(t) + 1
      BY <1>12, <2>8
    <3>2. \A m \in a .. i' - 1 : ~InString(t, m)
      <4>1. \A j \in a + 1 .. l : Quiet(t[j])
        <5>1. \A c \in Blank : Quiet(c)
          BY DEF Blank, Quiet, Opens, Closes
        <5>2. QED
          BY <1>12, <2>8, <5>1
      <4>2. a \in 0 .. Len(t)
        BY <1>6
      <4>3. \A j \in a .. l : Scan(t)[j].mode = "plain"
        BY <1>7, <2>8, <4>1, <4>2, QuietRun
      <4>4. QED
        BY <2>8, <4>3 DEF InString
    <3>3. PICK c \in a + 1 .. Len(t) + 1 : c = i'
      BY <3>1
    <3>4. \A m \in a .. c - 1 : ~InString(t, m)
      BY <3>2, <3>3
    <3>5. KeyAt(t, c) = StringAt(t, q)
      BY <1>6, <1>8, <3>4, KeyAtIs
    <3>6. QED
      BY <1>9, <3>3, <3>5
  <2>11. QED
    BY <1>3, <2>1, <2>3, <2>5, <2>8, <2>9, <2>10 DEF Written
<1>15. CASE ~str.isKey
  <2>1. PICK v : v = Value("string", x)
    OBVIOUS
  <2>2. Return(v, f, b)
    BY <1>2, <1>3, <1>12, <1>15, <2>1 DEF EndString
  <2>3. WaitsFor(t, f, Len(f), k, q)
    BY <1>3, <1>5, <1>10, <1>15
  <2>4. FramesWait(t, f, a) /\ WaitsFor(t, f, Len(f), a, q)
    BY <1>10, <1>11, <1>13, <2>3, StillLater
  <2>5. QED
    BY <1>1, <1>3, <1>9, <1>12, <1>13, <2>1, <2>2, <2>4, ReturnWritten
<1>16. QED
  BY <1>14, <1>15

LEMMA StringCharWritten ==
  IInv /\ Written /\ NoUnicode(s) /\ StringChar => Written' \/ pc' = "error"
<1> SUFFICES ASSUME IInv, Written, NoUnicode(s), StringChar PROVE Written' \/ pc' = "error"
  OBVIOUS
<1>0. pc = "string"
  BY DEF StringChar
<1>1. CASE peek(i) = "NUL"
  BY <1>1 DEF StringChar, Fail
<1>2. CASE peek(i) = "quote"
  BY <1>0, <1>2, EndStringWritten DEF StringChar
<1>3. CASE peek(i) = "esc"
  <2>1. Push(Unescape(peek(After(i))), After(After(i)))
    BY <1>3 DEF StringChar
  <2>2. QED
    BY <1>0, <1>3, <2>1, PushWritten
<1>4. CASE peek(i) \notin {"NUL", "quote", "esc"}
  <2>1. Push(peek(i), After(i))
    BY <1>4 DEF StringChar
  <2>2. QED
    BY <1>0, <1>4, <2>1, PushWritten
<1>5. QED
  BY <1>1, <1>2, <1>3, <1>4

LEMMA EndDocumentWritten == IInv /\ Written /\ EndDocument => Written' \/ pc' = "error"
<1> SUFFICES ASSUME IInv, Written, EndDocument PROVE Written' \/ pc' = "error"
  OBVIOUS
<1>1. CASE i # Len(s) + 1
  BY <1>1 DEF EndDocument, Fail
<1>2. CASE i = Len(s) + 1
  <2>1. pc = "end" /\ pc' = "ok" /\ UNCHANGED << s, i, stack, str, root >>
    BY <1>2 DEF EndDocument
  <2>2. QED
    BY <2>1 DEF Written
<1>3. QED
  BY <1>1, <1>2

LEMMA InitWritten == Init => Written
<1> SUFFICES ASSUME Init PROVE Written
  OBVIOUS
<1>1. /\ s \in Texts /\ i = skip_ws(1) /\ pc = "value" /\ stack = << >> /\ s \in Seq(Char)
  BY ConfigAssumption DEF Init
<1>2. i = FirstInk(s, 1)
  <2>1. 1 \in 1 .. Len(s) + 1
    BY <1>1
  <2>2. QED
    BY <1>1, <2>1, InkIs
<1>3. Len(stack) = 0
  BY <1>1
<1>4. FramesWait(s, stack, i - 1)
  BY <1>3 DEF FramesWait
<1>5. WaitsFor(s, stack, Len(stack), i - 1, i)
  BY <1>2, <1>3 DEF WaitsFor
<1>6. QED
  BY <1>1, <1>4, <1>5 DEF Written

LEMMA ActionWritten ==
  IInv /\ Written /\ NoUnicode(s) /\ pc # "error" /\ Next => Written' \/ pc' = "error"
<1> SUFFICES ASSUME IInv, Written, NoUnicode(s), pc # "error", Next PROVE Written' \/ pc' = "error"
  OBVIOUS
<1>1. CASE OpenObject
  <2>1. PICK kind, open, close, next :
           Brackets(kind, open, close, next) /\ Open(kind, open, close, next)
    BY <1>1 DEF OpenObject, Brackets
  <2>2. QED
    BY <2>1, OpenWritten
<1>2. CASE OpenArray
  <2>1. PICK kind, open, close, next :
           Brackets(kind, open, close, next) /\ Open(kind, open, close, next)
    BY <1>2 DEF OpenArray, Brackets
  <2>2. QED
    BY <2>1, OpenWritten
<1>3. CASE BeginString
  BY <1>3, BeginStringWritten
<1>4. CASE Literal
  BY <1>4, LiteralWritten
<1>5. CASE Number
  BY <1>5, NumberWritten
<1>6. CASE Key
  BY <1>6, KeyWritten
<1>7. CASE Colon
  BY <1>7, ColonWritten
<1>8. CASE AfterMember
  <2>1. PICK at, kind, close, next :
           Loops(at, kind, close, next) /\ Follow(at, kind, close, next)
    BY <1>8 DEF AfterMember, Loops
  <2>2. QED
    BY <2>1, FollowWritten
<1>9. CASE AfterItem
  <2>1. PICK at, kind, close, next :
           Loops(at, kind, close, next) /\ Follow(at, kind, close, next)
    BY <1>9 DEF AfterItem, Loops
  <2>2. QED
    BY <2>1, FollowWritten
<1>10. CASE StringChar
  BY <1>10, StringCharWritten
<1>11. CASE EndDocument
  BY <1>11, EndDocumentWritten
<1>12. CASE Finished
  BY <1>12 DEF Finished, vars, Written, StringFrom
<1>13. QED
  BY <1>1, <1>2, <1>3, <1>4, <1>5, <1>6, <1>7, <1>8, <1>9, <1>10, <1>11, <1>12 DEF Next

LEMMA TextStays == Next => s' = s
  BY DEF Next, OpenObject, OpenArray, Open, BeginString, Literal, Number, Key, Colon, AfterMember,
         AfterItem, Follow, StringChar, Push, EndString, EndDocument, Finished, Fail, vars

LEMMA StepWInv == WInv /\ [Next]_vars => WInv'
<1> SUFFICES ASSUME WInv, [Next]_vars PROVE WInv'
  OBVIOUS
<1>1. IInv /\ IInv' /\ (pc # "error" /\ NoUnicode(s) => Written)
  BY StepIInv DEF WInv
<1>2. CASE pc # "error" /\ Next
  <2>1. NoUnicode(s') => NoUnicode(s)
    BY <1>2, TextStays
  <2>2. QED
    BY <1>1, <1>2, <2>1, ActionWritten DEF WInv
<1>3. CASE pc = "error" /\ Next
  <2>1. pc' = "error"
    BY <1>3 DEF Next, OpenObject, OpenArray, Open, BeginString, Literal, Number, Key, Colon,
             AfterMember, AfterItem, Follow, StringChar, EndDocument, Finished, vars
  <2>2. QED
    BY <1>1, <2>1 DEF WInv
<1>4. CASE UNCHANGED vars
  BY <1>1, <1>4 DEF vars, WInv, Written, StringFrom
<1>5. QED
  BY <1>2, <1>3, <1>4

LEMMA AlwaysWInv == Spec => []WInv
<1>1. Init => WInv
  BY InitIInv, InitWritten DEF WInv
<1>2. QED
  BY <1>1, StepWInv, PTL DEF Spec
-----------------------------------------------------------------------------
(***************************************************************************)
(* Whatever text is parsed, the cursor stays in it or just past its end,   *)
(* and every call on the stack is one of parse_object() or parse_array().  *)
(***************************************************************************)
THEOREM TypeCorrect == Spec => []TypeOK
<1>1. IInv => TypeOK
  BY DEF IInv
<1>2. QED
  BY <1>1, AlwaysIInv, PTL

(***************************************************************************)
(* For every text: if the parser accepts it, then every string in it is    *)
(* closed, and every bracket outside of strings pairs with one of its kind.*)
(***************************************************************************)
THEOREM AcceptsWholeTexts == Spec => []AcceptedIsBalanced
<1>1. IInv => AcceptedIsBalanced
  <2> SUFFICES ASSUME IInv, pc = "ok"
               PROVE  /\ ~InString(s, Len(s))
                      /\ \A k \in Opening(s) : \E m \in Closing(s) : Pairs(s, k, m)
                      /\ \A m \in Closing(s) : \E k \in Opening(s) : Pairs(s, k, m)
    BY DEF AcceptedIsBalanced
  <2>1. Len(s) \in Nat /\ i = Len(s) + 1 /\ stack = << >>
    BY TextType DEF IInv, Calls
  <2>2. PICK n \in Nat : n = Len(s) /\ n = i - 1
    BY <2>1
  <2>3. ~InString(s, n)
    BY <2>2 DEF IInv, StringsAgree
  <2>4. Tracks(s, n, << >>)
    <3>1. Kinds(stack) = << >>
      BY <2>1 DEF Kinds
    <3>2. QED
      BY <2>2, <3>1 DEF IInv
  <2>5. \A k \in Opening(s) \cup Closing(s) : k <= n
    BY <2>1, <2>2 DEF Opening, Closing
  <2>6. \A k : k \notin DOMAIN << >>
    OBVIOUS
  <2>7. QED
    BY <2>2, <2>3, <2>4, <2>5, <2>6 DEF Tracks
<1>2. QED
  BY <1>1, AlwaysIInv, PTL

(***************************************************************************)
(* For every text: each step consumes a part of it or ends the parse, so   *)
(* that no loop of the parser runs on past the end.                        *)
(***************************************************************************)
THEOREM NeverStandsStill == Spec => AlwaysAdvances
<1>1. IInv /\ [Next]_vars => [i' > i \/ pc' \in {"ok", "error"}]_vars
  BY StepIInv DEF Advances
<1>2. QED
  BY <1>1, AlwaysIInv, PTL DEF Spec, AlwaysAdvances

(***************************************************************************)
(* For every text that is accepted, if there is no \u in a string of it,   *)
(* and every path: what find() returns is what the text says there, the    *)
(* value of a number and the characters of a string included.              *)
(***************************************************************************)
THEOREM FindsWhatTextsSay == Spec => []FindsWhatIsWritten
<1>1. WInv => FindsWhatIsWritten
  <2> SUFFICES ASSUME WInv, pc = "ok", NoUnicode(s), NEW path \in Paths
               PROVE  LET at == Locate(s, FirstInk(s, 1), path)
                      IN  /\ find(root, path).t = KindAt(s, at)
                          /\ KindAt(s, at) = "string" => get("string", path, << >>) = StringAt(s, at)
                          /\ KindAt(s, at) = "number" => get("number", path, << >>) = NumberAt(s, at)
    BY DEF FindsWhatIsWritten
  <2>1. Reads(s, root, FirstInk(s, 1))
    BY DEF WInv, Written
  <2>2. path \in Rests
    BY RestsType
  <2>3. PICK at : at = Locate(s, FirstInk(s, 1), path)
    OBVIOUS
  <2>4. /\ find(root, path).t = KindAt(s, at)
        /\ KindAt(s, at) = "string" => find(root, path).v = StringAt(s, at)
        /\ KindAt(s, at) = "number" => find(root, path).v = NumberAt(s, at)
    BY <2>1, <2>2, <2>3 DEF Reads
  <2>5. QED
    BY <2>3, <2>4 DEF get
<1>2. QED
  BY <1>1, AlwaysWInv, PTL
=============================================================================

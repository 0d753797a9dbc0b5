-------------------------- MODULE FeedPipelineProofs --------------------------
(***************************************************************************)
(* The market-data path for every band, window, batch and queue size.      *)
(***************************************************************************)
EXTENDS FeedPipeline, BookViewProofs, SequenceTheorems

(* Prices and the window                                                   *)

LEMMA DivInWindow ==
  ASSUME NEW d \in Nat, NEW t \in Nat \ {0}, NEW n \in Nat, d < n * t
  PROVE  d \div t \in 0 .. n - 1
<1>1. d \div t \in Nat /\ t * (d \div t) <= d
  OBVIOUS
<1>2. ASSUME d \div t >= n PROVE FALSE
  <2>1. t * (d \div t) >= t * n
    BY <1>1, <1>2
  <2>2. QED
    BY <1>1, <2>1
<1>3. QED
  BY <1>1, <1>2

LEMMA NarrowFits ==
  ASSUME NEW x \in 0 .. NumTicks - 1 PROVE Narrow(x) = x
  BY WindowAssumption DEF Narrow

(***************************************************************************)
(* The band lies in the book's window, so every quoted price has a level.  *)
(***************************************************************************)
LEMMA PriceInWindow ==
  ASSUME NEW p \in Price PROVE to_index(p) \in Index
<1>1. p \in Int /\ Base \in Int /\ Tick \in Nat \ {0} /\ NumTicks \in Nat
  BY WindowAssumption
<1>2. p - Base \in Nat /\ p - Base < NumTicks * Tick
  BY <1>1, FeedAssumption, BandAssumption DEF QuotePrice, mid_lo, mid_hi
<1>3. (p - Base) \div Tick \in 0 .. NumTicks - 1
  BY <1>1, <1>2, DivInWindow
<1>4. Trunc(p - Base) = (p - Base) \div Tick
  BY <1>2 DEF Trunc
<1>5. QED
  BY <1>3, <1>4, NarrowFits DEF to_index, Index
LEMMA BandRange ==
  /\ mid_lo \in Int /\ mid_hi \in Int /\ mid_lo <= mid_hi /\ Tick \in Nat
  /\ \A m \in mid_lo .. mid_hi, spread \in {-Tick, Tick} :
       m - spread \in Price /\ m + spread \in Price
<1>1. Tick \in Nat /\ HalfBand * Tick \in Nat
  BY FeedAssumption, WindowAssumption
<1>2. mid_lo \in Int /\ mid_hi \in Int /\ mid_lo <= mid_hi
  BY <1>1, FeedAssumption DEF mid_lo, mid_hi
<1>3. Price = mid_lo - Tick .. mid_hi + Tick
  BY FeedAssumption DEF QuotePrice
<1>4. QED
  BY <1>1, <1>2, <1>3
-----------------------------------------------------------------------------
(* Types                                                                   *)

LEMMA MsgIsMessage ==
  ASSUME NEW type \in MsgType, NEW side \in {"B", "S"}, NEW price \in Price, NEW size \in QuoteSize
  PROVE  Msg(type, side, price, size) \in Message
  BY FeedAssumption, WindowAssumption DEF Msg, Message, Size

LEMMA BatchRange == batch \in 1 .. BatchCap
  BY FeedAssumption DEF batch

LEMMA LevelsType ==
  ASSUME NEW msgs \in Seq(Message) PROVE Levels(msgs) \subseteq {"B", "S"} \X Price
<1>1. \A k \in DOMAIN msgs : msgs[k] \in Message
  OBVIOUS
<1>2. QED
  BY <1>1 DEF Levels, Message

LEMMA Appending ==
  ASSUME NEW S, NEW s \in Seq(S), NEW e \in S
  PROVE  Append(s, e) \in Seq(S) /\ Len(Append(s, e)) = Len(s) + 1 /\ Len(s) \in Nat
  OBVIOUS

(***************************************************************************)
(* The constructor clamps the batch, so a flushed datagram never exceeds   *)
(* it; the socket and what was dropped keep their types.                   *)
(***************************************************************************)
LEMMA FlushType ==
  ASSUME TypeOK, NEW d \in Seq(Message), Flush(d)
  PROVE  /\ dgram' = << >>
         /\ socket' \in Seq(Seq(Message)) /\ Len(socket') <= SocketCap
         /\ tainted' \subseteq {"B", "S"} \X Price
<1> USE FeedAssumption
<1>1. CASE d = << >>
  BY <1>1 DEF Flush, TypeOK
<1>2. CASE d # << >> /\ Len(socket) < SocketCap
  <2>1. socket' = Append(socket, d) /\ tainted' = tainted /\ dgram' = << >>
    BY <1>2 DEF Flush, Send
  <2>2. socket \in Seq(Seq(Message)) /\ tainted \subseteq {"B", "S"} \X Price
    BY DEF TypeOK
  <2>3. QED
    BY <1>2, <2>1, <2>2, Appending
<1>3. CASE d # << >> /\ ~(Len(socket) < SocketCap)
  BY <1>3, LevelsType DEF Flush, Send, TypeOK
<1>4. QED
  BY <1>1, <1>2, <1>3

\* The book and what it has refused, with the types around it.
InWindow == TypeOK /\ TopOfBook /\ out_of_range = 0

LEMMA EmptyType == << >> \in Seq(Message) /\ Len(<< >>) = 0
  OBVIOUS

LEMMA EmptyLen ==
  ASSUME NEW s, s = << >> PROVE s \in Seq(Message) /\ Len(s) < BatchCap
  BY FeedAssumption

LEMMA BookAlone ==
  ASSUME InWindow, UNCHANGED bookVars
  PROVE  BookTypeOK' /\ TopOfBook' /\ out_of_range' = 0
  BY BookStepIInv DEF InWindow, TypeOK, BookIInv, bookVars

LEMMA InitInWindow == Init => InWindow
<1> SUFFICES ASSUME Init PROVE InWindow
  OBVIOUS
<1> USE FeedAssumption, WindowAssumption
<1>1. BookIInv /\ out_of_range = 0
  BY BookInitIInv DEF Init, BookInit
<1>2. mid_lo \in Int /\ mid_hi \in Int /\ mid \in mid_lo .. mid_hi
  BY DEF Init, mid_lo, mid_hi
<1>3. best_bid \in Price /\ best_ask \in Price
  BY DEF Init, mid_lo, mid_hi, QuotePrice
<1>4. toEmit \in Seq(Message)
  <2>1. Msg("add", "B", best_bid, bid_sz) \in Message /\ Msg("add", "S", best_ask, ask_sz) \in Message
    BY <1>3, MsgIsMessage DEF Init, MsgType
  <2>2. QED
    BY <2>1 DEF Init
<1>5. QED
  BY <1>1, <1>2, <1>3, <1>4, EmptyType DEF Init, InWindow, TypeOK, BookIInv

LEMMA StepInWindow == InWindow /\ [Next]_vars => InWindow'
<1> SUFFICES ASSUME InWindow, [Next]_vars PROVE InWindow'
  OBVIOUS
<1> USE FeedAssumption
<1>t. /\ TypeOK /\ dgram \in Seq(Message) /\ toEmit \in Seq(Message) /\ rx \in Seq(Message)
      /\ feed_q \in Seq(Message) /\ socket \in Seq(Seq(Message))
  BY DEF InWindow, TypeOK
<1>1. CASE ExchOpen
  <2>1. /\ dgram' \in Seq(Message) /\ Len(dgram') < BatchCap
        /\ socket' \in Seq(Seq(Message)) /\ Len(socket') <= SocketCap
        /\ tainted' \subseteq {"B", "S"} \X Price
    BY <1>t, <1>1, FlushType, EmptyLen DEF ExchOpen
  <2>2. QED
    BY <1>t, <1>1, <2>1, BookAlone DEF ExchOpen, quoteVars, InWindow, TypeOK
<1>2. CASE ExchStop
  <2>1. /\ dgram' \in Seq(Message) /\ Len(dgram') < BatchCap
        /\ socket' \in Seq(Seq(Message)) /\ Len(socket') <= SocketCap
        /\ tainted' \subseteq {"B", "S"} \X Price
    BY <1>t, <1>2, FlushType, EmptyLen DEF ExchStop
  <2>2. QED
    BY <1>t, <1>2, <2>1, BookAlone DEF ExchStop, quoteVars, InWindow, TypeOK
<1>3. CASE Emit
  <2> DEFINE d == Append(dgram, Head(toEmit))
  <2>1. Head(toEmit) \in Message /\ Tail(toEmit) \in Seq(Message)
    BY <1>t, <1>3, HeadTailProperties DEF Emit
  <2>2. d \in Seq(Message) /\ Len(d) \in Nat
    BY <1>t, <2>1
  <2>3. /\ dgram' \in Seq(Message) /\ Len(dgram') < BatchCap
        /\ socket' \in Seq(Seq(Message)) /\ Len(socket') <= SocketCap
        /\ tainted' \subseteq {"B", "S"} \X Price
    <3>1. CASE Len(d) >= batch
      <4>1. Flush(d)
        BY <1>3, <3>1 DEF Emit
      <4>2. QED
        BY <1>t, <2>2, <4>1, FlushType, EmptyLen
    <3>2. CASE ~(Len(d) >= batch)
      <4>1. dgram' = d /\ socket' = socket /\ tainted' = tainted
        BY <1>3, <3>2 DEF Emit
      <4> HIDE DEF d
      <4>2. QED
        BY <1>t, <2>2, <3>2, <4>1, BatchRange DEF TypeOK
    <3>3. QED
      BY <3>1, <3>2
  <2> HIDE DEF d
  <2>4. QED
    BY <1>t, <1>3, <2>1, <2>3, BookAlone DEF Emit, quoteVars, InWindow, TypeOK
<1>4. ASSUME NEW move \in -1 .. 1, NEW spread \in {-Tick, Tick}, NEW size \in QuoteSize,
             ExchStep(move, spread, size)
      PROVE  InWindow'
  <2>1. mid' \in mid_lo .. mid_hi /\ mid_lo \in Int /\ mid_hi \in Int /\ Tick \in Nat
    <3>1. mid_lo \in Int /\ mid_hi \in Int /\ mid_lo <= mid_hi /\ Tick \in Nat
      BY BandRange
    <3>2. mid' = Clamp(mid + move * Tick)
      BY <1>4 DEF ExchStep
    <3>3. mid + move * Tick \in Int
      BY <1>t, <3>1 DEF TypeOK
    <3>4. QED
      BY <3>1, <3>2, <3>3 DEF Clamp
  <2>2. mid' - spread \in Price /\ mid' + spread \in Price
    BY <2>1, BandRange
  <2>3. /\ best_bid' \in Price /\ best_ask' \in Price
        /\ bid_sz' \in QuoteSize /\ ask_sz' \in QuoteSize
    BY <1>t, <1>4, <2>2 DEF ExchStep, TypeOK
  <2>4. toEmit' \in Seq(Message)
    <3>1. ASSUME NEW side \in {"B", "S"}, NEW old \in Price, NEW oldSize \in QuoteSize, NEW new \in Price
          PROVE  Requote(side, old, oldSize, new, size) \in Seq(Message)
      <4>1. /\ Msg("delete", side, old, oldSize) \in Message
            /\ Msg("add", side, new, size) \in Message
        BY MsgIsMessage DEF MsgType
      <4>2. QED
        BY <4>1 DEF Requote
    <3>2. \/ toEmit' = Requote("B", best_bid, bid_sz, best_bid', size)
          \/ toEmit' = Requote("S", best_ask, ask_sz, best_ask', size)
      BY <1>4 DEF ExchStep
    <3>3. QED
      BY <1>t, <2>3, <3>1, <3>2 DEF TypeOK
  <2>5. QED
    BY <1>t, <1>4, <2>1, <2>3, <2>4, BookAlone DEF ExchStep, InWindow, TypeOK
<1>5. CASE FeedReceive
  <2> DEFINE d == Head(socket)
             n == IF Len(d) < MaxMsgs THEN Len(d) ELSE MaxMsgs
  <2>1. d \in Seq(Message) /\ Tail(socket) \in Seq(Seq(Message)) /\ Len(Tail(socket)) = Len(socket) - 1
    BY <1>t, <1>5, HeadTailProperties DEF FeedReceive
  <2>2. SubSeq(d, 1, n) \in Seq(Message)
    <3>1. n \in Int /\ \A i \in 1 .. n : d[i] \in Message
      BY <2>1
    <3> HIDE DEF d, n
    <3>2. QED
      BY <3>1, SubSeqProperties
  <2>3. rx' = SubSeq(d, 1, n) /\ socket' = Tail(socket)
    BY <1>5 DEF FeedReceive
  <2>4. Len(socket') <= SocketCap
    BY <1>t, <2>1, <2>3 DEF TypeOK
  <2> HIDE DEF d, n
  <2>5. QED
    BY <1>t, <1>5, <2>1, <2>2, <2>3, <2>4, BookAlone DEF FeedReceive, quoteVars, InWindow, TypeOK
<1>6. CASE FeedPush
  <2>1. Head(rx) \in Message /\ Tail(rx) \in Seq(Message)
    BY <1>t, <1>6, HeadTailProperties DEF FeedPush
  <2>2. feed_q' \in Seq(Message) /\ Len(feed_q') <= FeedQCap
    BY <1>t, <1>6, <2>1 DEF FeedPush
  <2>3. QED
    BY <1>t, <1>6, <2>1, <2>2, BookAlone DEF FeedPush, quoteVars, InWindow, TypeOK
<1>7. CASE FeedDrop
  <2>1. Head(rx) \in Message /\ Tail(rx) \in Seq(Message)
    BY <1>t, <1>7, HeadTailProperties DEF FeedDrop
  <2>2. Levels(<< Head(rx) >>) \subseteq {"B", "S"} \X Price
    <3>1. << Head(rx) >> \in Seq(Message)
      BY <2>1
    <3>2. QED
      BY <3>1, LevelsType
  <2>3. tainted' \subseteq {"B", "S"} \X Price
    BY <1>t, <1>7, <2>2 DEF FeedDrop, TypeOK
  <2>4. QED
    BY <1>t, <1>7, <2>1, <2>3, BookAlone DEF FeedDrop, quoteVars, InWindow, TypeOK
<1>8. CASE Consume
  <2> DEFINE m == Head(feed_q)
  <2>1. m \in Message /\ Tail(feed_q) \in Seq(Message) /\ Len(Tail(feed_q)) = Len(feed_q) - 1
    BY <1>t, <1>8, HeadTailProperties DEF Consume
  <2>2. apply(m) /\ feed_q' = Tail(feed_q)
    BY <1>8 DEF Consume
  <2> HIDE DEF m
  <2>3. m.size \in Size /\ m.price \in Price
    BY <2>1 DEF Message
  <2>4. BookIInv'
    BY <2>2, <2>3, ApplyIInv DEF InWindow, TypeOK, BookIInv
  <2>5. to_index(m.price) \in Index
    BY <2>3, PriceInWindow
  <2>6. out_of_range' = 0
    BY <2>2, <2>5 DEF apply, OutOfRange, Add, Reduce, Delete, Ignored, bookVars, InWindow
  <2>7. Len(feed_q') <= FeedQCap
    BY <1>t, <2>1, <2>2 DEF TypeOK
  <2>8. QED
    BY <1>t, <1>8, <2>1, <2>2, <2>4, <2>6, <2>7
    DEF Consume, quoteVars, InWindow, TypeOK, BookIInv
<1>9. CASE UNCHANGED vars
  BY <1>9, BookAlone DEF vars, quoteVars, InWindow, TypeOK
<1>10. CASE Terminated
  BY <1>10, <1>9 DEF Terminated
<1>11. QED
  BY <1>1, <1>2, <1>3, <1>4, <1>5, <1>6, <1>7, <1>8, <1>9, <1>10 DEF Next, FeedThread

LEMMA AlwaysInWindow == Spec => []InWindow
  BY InitInWindow, StepInWindow, PTL DEF Spec

(***************************************************************************)
(* Every buffer on the way holds messages and keeps its bound, whatever    *)
(* batch the configuration asks for.                                       *)
(***************************************************************************)
THEOREM TypeCorrect == Spec => []TypeOK
<1>1. InWindow => TypeOK
  BY DEF InWindow
<1>2. QED
  BY <1>1, AlwaysInWindow, PTL

(***************************************************************************)
(* A band inside the window keeps every quote inside it, crossed quotes at *)
(* the edges included, and the book refuses none of them.                  *)
(***************************************************************************)
THEOREM QuotesStayInWindow == Spec => []QuotesInWindow
<1>1. InWindow => QuotesInWindow
  BY PriceInWindow DEF InWindow, TypeOK, QuotesInWindow
<1>2. QED
  BY <1>1, AlwaysInWindow, PTL
-----------------------------------------------------------------------------
(* Chains: the adds and deletes under way about some levels of a side      *)

LEMMA GreatestNat ==
  ASSUME NEW N \in Nat, NEW T, T \subseteq 0 .. N, T # {}
  PROVE  \E x \in T : \A y \in T : y <= x
<1> DEFINE D == { N - y : y \in T }
<1>1. \A y \in T : N - y \in Nat
  OBVIOUS
<1>a. D \subseteq Nat /\ D # {}
  BY <1>1
<1>2. PICK d \in D : \A e \in D : d <= e
  <2> HIDE DEF D
  <2> QED BY <1>a, LeastNat
<1>3. PICK x \in T : d = N - x
  OBVIOUS
<1>4. \A y \in T : N - x <= N - y
  BY <1>2, <1>3
<1>5. QED
  BY <1>4

\* Every position but the last has a next one, and every one but the first a previous one.
LEMMA HasNext ==
  ASSUME NEW R, R \subseteq Nat, NEW j \in R, NEW k \in R, j < k
  PROVE  \E h \in R : Neighbours(R, j, h) /\ h <= k
<1> DEFINE T == { h \in R : j < h }
<1>1. T \subseteq Nat /\ T # {}
  OBVIOUS
<1>2. PICK h \in T : \A e \in T : h <= e
  <2> HIDE DEF T
  <2> QED BY <1>1, LeastNat
<1>3. QED
  BY <1>2 DEF Neighbours

LEMMA HasPrevious ==
  ASSUME NEW R, R \subseteq Nat, NEW j \in R, NEW k \in R, j < k
  PROVE  \E h \in R : Neighbours(R, h, k) /\ j <= h
<1> DEFINE T == { h \in R : h < k }
<1>0. k \in Nat /\ \A h \in R : h \in Nat
  OBVIOUS
<1>1. T \subseteq 0 .. k
  <2> SUFFICES ASSUME NEW h \in R, h < k PROVE h \in 0 .. k
    OBVIOUS
  <2> QED BY <1>0
<1>a. j \in T
  OBVIOUS
<1>2. PICK h \in T : \A e \in T : e <= h
  <2> HIDE DEF T
  <2> QED BY <1>0, <1>1, <1>a, GreatestNat
<1>3. QED
  BY <1>0, <1>2 DEF Neighbours

LEMMA HasFirst ==
  ASSUME NEW R, R \subseteq Nat, R # {} PROVE \E k \in R : First(R, k)
  BY LeastNat DEF First

LEMMA HasLast ==
  ASSUME NEW N \in Nat, NEW R, R \subseteq 0 .. N, R # {} PROVE \E k \in R : Last(R, k)
  BY GreatestNat DEF Last

\* phi maps the positions Q of G, in order, onto the positions R of F.
Places(phi, F, R, G, Q) ==
  /\ R \subseteq Nat /\ Q \subseteq Nat
  /\ \A k \in Q : phi[k] \in R /\ G[k] = F[phi[k]]
  /\ \A r \in R : \E k \in Q : phi[k] = r
  /\ \A j, k \in Q : j < k => phi[j] < phi[k]

(***************************************************************************)
(* A chain depends on the messages and their order, not on where they are. *)
(***************************************************************************)
LEMMA Transport ==
  ASSUME NEW F, NEW G, NEW R, NEW Q, NEW U, NEW lv, NEW lw, NEW level, NEW size, NEW phi,
         Places(phi, F, R, G, Q), \A l \in U : lw[l] = lv[l],
         Chain(F, R, U, lv, level, size)
  PROVE  Chain(G, Q, U, lw, level, size)
<1>p. /\ R \subseteq Nat /\ Q \subseteq Nat
      /\ \A k \in Q : phi[k] \in R /\ G[k] = F[phi[k]]
      /\ \A r \in R : \E k \in Q : phi[k] = r
      /\ \A j, k \in Q : j < k => phi[j] < phi[k]
  BY DEF Places
<1> USE <1>p
<1>1. \A j, k \in Q : phi[j] \in Nat /\ phi[k] \in Nat /\ (j <= k <=> phi[j] <= phi[k])
  <2> TAKE j, k \in Q
  <2>1. j \in Nat /\ k \in Nat /\ phi[j] \in Nat /\ phi[k] \in Nat
    OBVIOUS
  <2>2. j < k \/ j = k \/ k < j
    BY <2>1
  <2>3. QED
    BY <2>1, <2>2
<1>2. \A j, k \in Q : Neighbours(Q, j, k) => Neighbours(R, phi[j], phi[k])
  BY <1>1 DEF Neighbours
<1>3. ASSUME NEW k \in Q, First(Q, k) PROVE First(R, phi[k])
  <2>1. ASSUME NEW r \in R PROVE phi[k] <= r
    <3>1. PICK q \in Q : phi[q] = r
      OBVIOUS
    <3>2. k <= q
      BY <1>3 DEF First
    <3>3. QED
      BY <1>1, <3>1, <3>2
  <2>2. QED
    BY <2>1 DEF First
<1>4. ASSUME NEW k \in Q, Last(Q, k) PROVE Last(R, phi[k])
  <2>1. ASSUME NEW r \in R PROVE r <= phi[k]
    <3>1. PICK q \in Q : phi[q] = r
      OBVIOUS
    <3>2. q <= k
      BY <1>4 DEF Last
    <3>3. QED
      BY <1>1, <3>1, <3>2
  <2>2. QED
    BY <2>1 DEF Last
<1>c. Paired(F, R) /\ Expected(F, R, U, lv) /\ LeadsTo(F, R, U, level, size)
  BY DEF Chain
<1>5. Paired(G, Q)
  <2>1. ASSUME NEW k \in Q PROVE G[k].type = "delete" \/ (G[k].type = "add" /\ G[k].size # 0)
    <3>1. phi[k] \in R /\ G[k] = F[phi[k]]
      OBVIOUS
    <3>2. F[phi[k]].type = "delete" \/ (F[phi[k]].type = "add" /\ F[phi[k]].size # 0)
      BY <1>c, <3>1 DEF Paired
    <3>3. QED
      BY <3>1, <3>2
  <2>2. ASSUME NEW j \in Q, NEW k \in Q, Neighbours(Q, j, k),
               G[j].type = "add" \/ G[k].type = "delete"
        PROVE  G[j].type = "add" /\ G[k].type = "delete" /\ Lev(G[j]) = Lev(G[k])
    <3>1. Neighbours(R, phi[j], phi[k]) /\ phi[j] \in R /\ phi[k] \in R
      BY <1>2, <2>2
    <3>2. G[j] = F[phi[j]] /\ G[k] = F[phi[k]]
      OBVIOUS
    <3>3. F[phi[j]].type = "add" \/ F[phi[k]].type = "delete"
      BY <2>2, <3>2
    <3>4. /\ F[phi[j]].type = "add" /\ F[phi[k]].type = "delete"
          /\ Lev(F[phi[j]]) = Lev(F[phi[k]])
      BY <1>c, <3>1, <3>3 DEF Paired
    <3>5. QED
      BY <3>2, <3>4
  <2>3. QED
    BY <2>1, <2>2 DEF Paired
<1>6. Expected(G, Q, U, lw)
  <2> SUFFICES ASSUME NEW k \in Q, First(Q, k), NEW l \in U, lw[l] # 0
               PROVE  G[k].type = "delete" /\ l = Lev(G[k])
    BY DEF Expected
  <2>1. First(R, phi[k]) /\ phi[k] \in R /\ G[k] = F[phi[k]] /\ lv[l] # 0
    BY <1>3
  <2>2. F[phi[k]].type = "delete" /\ l = Lev(F[phi[k]])
    BY <1>c, <2>1 DEF Expected
  <2>3. QED
    BY <2>1, <2>2
<1>7. LeadsTo(G, Q, U, level, size)
  <2> SUFFICES ASSUME NEW k \in Q, Last(Q, k)
               PROVE  IF G[k].type = "add" THEN Lev(G[k]) = level /\ G[k].size = size
                                           ELSE level \notin U
    BY DEF LeadsTo
  <2>1. Last(R, phi[k]) /\ phi[k] \in R /\ G[k] = F[phi[k]]
    BY <1>4
  <2>2. IF F[phi[k]].type = "add" THEN Lev(F[phi[k]]) = level /\ F[phi[k]].size = size
                                  ELSE level \notin U
    BY <1>c, <2>1 DEF LeadsTo
  <2>3. QED
    BY <2>1, <2>2
<1>8. Shows(Q, U, lw, level, size)
  BY DEF Shows, Chain
<1>9. QED
  BY <1>5, <1>6, <1>7, <1>8 DEF Chain

(***************************************************************************)
(* Looking at fewer levels leaves a chain: an add and the delete that      *)
(* follows it are about the same level, so they go together.               *)
(***************************************************************************)
LEMMA Shrink ==
  ASSUME NEW F, NEW N \in Nat, NEW R, R \subseteq 0 .. N, NEW U, NEW V, V \subseteq U,
         NEW Q, NEW lv, NEW level, NEW size,
         \A k \in R : Lev(F[k]) \in U,
         \A k : k \in Q <=> k \in R /\ Lev(F[k]) \in V,
         Chain(F, R, U, lv, level, size)
  PROVE  Chain(F, Q, V, lv, level, size)
<1>0. R \subseteq Nat /\ Q \subseteq R /\ (\A k \in R : k \in Nat)
  OBVIOUS
<1>c. /\ Paired(F, R) /\ Expected(F, R, U, lv)
      /\ LeadsTo(F, R, U, level, size) /\ Shows(R, U, lv, level, size)
  BY DEF Chain
<1>1. ASSUME NEW j \in Q, NEW k \in R, j < k, F[j].type = "add"
      PROVE  \E h \in Q : Neighbours(R, j, h) /\ h <= k /\ F[h].type = "delete" /\ Lev(F[j]) = Lev(F[h])
  <2>1. PICK h \in R : Neighbours(R, j, h) /\ h <= k
    BY <1>0, <1>1, HasNext
  <2>2. F[h].type = "delete" /\ Lev(F[j]) = Lev(F[h])
    BY <1>0, <1>1, <1>c, <2>1 DEF Paired
  <2>3. QED
    BY <2>1, <2>2
<1>2. ASSUME NEW k \in Q, NEW j \in R, j < k, F[k].type = "delete"
      PROVE  \E h \in Q : Neighbours(R, h, k) /\ j <= h /\ F[h].type = "add" /\ Lev(F[h]) = Lev(F[k])
  <2>1. PICK h \in R : Neighbours(R, h, k) /\ j <= h
    BY <1>0, <1>2, HasPrevious
  <2>2. F[h].type = "add" /\ Lev(F[h]) = Lev(F[k])
    BY <1>0, <1>2, <1>c, <2>1 DEF Paired
  <2>3. QED
    BY <2>1, <2>2
<1>3. Paired(F, Q)
  <2>1. \A k \in Q : F[k].type = "delete" \/ (F[k].type = "add" /\ F[k].size # 0)
    BY <1>0, <1>c DEF Paired
  <2>2. ASSUME NEW j \in Q, NEW k \in Q, Neighbours(Q, j, k),
               F[j].type = "add" \/ F[k].type = "delete"
        PROVE  F[j].type = "add" /\ F[k].type = "delete" /\ Lev(F[j]) = Lev(F[k])
    <3>0. j \in R /\ k \in R /\ j < k /\ j \in Nat /\ k \in Nat
      BY <1>0, <2>2 DEF Neighbours
    <3>1. CASE F[j].type = "add"
      <4>1. PICK h \in Q : Neighbours(R, j, h) /\ h <= k /\ F[h].type = "delete" /\ Lev(F[j]) = Lev(F[h])
        BY <1>1, <3>0, <3>1
      <4>2. h = k
        BY <1>0, <2>2, <3>0, <4>1 DEF Neighbours
      <4>3. QED
        BY <3>1, <4>1, <4>2
    <3>2. CASE F[k].type = "delete"
      <4>1. PICK h \in Q : Neighbours(R, h, k) /\ j <= h /\ F[h].type = "add" /\ Lev(F[h]) = Lev(F[k])
        BY <1>2, <3>0, <3>2
      <4>a. h \in Nat /\ h < k /\ (h <= j \/ k <= h)
        BY <1>0, <2>2, <4>1 DEF Neighbours
      <4>2. h = j
        BY <3>0, <4>1, <4>a
      <4>3. QED
        BY <3>2, <4>1, <4>2
    <3>3. QED
      BY <2>2, <3>1, <3>2
  <2>3. QED
    BY <2>1, <2>2 DEF Paired
<1>4. ASSUME NEW l \in V, lv[l] # 0, R # {}
      PROVE  \E f \in Q : First(R, f) /\ F[f].type = "delete" /\ l = Lev(F[f])
  <2>1. PICK f \in R : First(R, f)
    BY <1>0, <1>4, HasFirst
  <2>2. F[f].type = "delete" /\ l = Lev(F[f])
    BY <1>4, <1>c, <2>1 DEF Expected
  <2>3. QED
    BY <1>4, <2>1, <2>2
<1>5. Expected(F, Q, V, lv)
  <2> SUFFICES ASSUME NEW k \in Q, First(Q, k), NEW l \in V, lv[l] # 0
               PROVE  F[k].type = "delete" /\ l = Lev(F[k])
    BY DEF Expected
  <2>1. PICK f \in Q : First(R, f) /\ F[f].type = "delete" /\ l = Lev(F[f])
    BY <1>0, <1>4
  <2>a. f \in Nat /\ k \in Nat /\ f <= k /\ k <= f
    BY <1>0, <2>1 DEF First
  <2>2. f = k
    BY <2>a
  <2>3. QED
    BY <2>1, <2>2
<1>6. ASSUME NEW z \in R, Last(R, z), z \notin Q PROVE level \notin V
  <2>1. CASE F[z].type = "add"
    BY <1>6, <1>c, <2>1 DEF LeadsTo
  <2>2. CASE F[z].type # "add"
    BY <1>6, <1>c, <2>2 DEF LeadsTo
  <2>3. QED
    BY <2>1, <2>2
<1>7. LeadsTo(F, Q, V, level, size)
  <2> SUFFICES ASSUME NEW k \in Q, Last(Q, k)
               PROVE  IF F[k].type = "add" THEN Lev(F[k]) = level /\ F[k].size = size
                                           ELSE level \notin V
    BY DEF LeadsTo
  <2>1. PICK z \in R : Last(R, z)
    BY <1>0, HasLast
  <2>2. CASE z = k
    BY <1>0, <1>c, <2>1, <2>2 DEF LeadsTo
  <2>3. CASE z # k
    <3>1. k < z /\ z \notin Q
      BY <1>0, <2>1, <2>3 DEF Last
    <3>2. F[k].type # "add"
      <4> SUFFICES ASSUME F[k].type = "add" PROVE FALSE
        OBVIOUS
      <4>1. PICK h \in Q : Neighbours(R, k, h)
        BY <1>1, <3>1
      <4>2. QED
        BY <1>0, <4>1 DEF Neighbours, Last
    <3>3. QED
      BY <1>6, <2>1, <3>1, <3>2
  <2>4. QED
    BY <2>2, <2>3
<1>8. Shows(Q, V, lv, level, size)
  <2> SUFFICES ASSUME Q = {}, NEW l \in V PROVE lv[l] = IF l = level THEN size ELSE 0
    BY DEF Shows
  <2>1. CASE R = {}
    BY <1>c, <2>1 DEF Shows
  <2>2. CASE R # {}
    <3>1. lv[l] = 0
      BY <1>4, <2>2
    <3>2. PICK z \in R : Last(R, z)
      BY <2>2, HasLast
    <3>3. level \notin V
      BY <1>6, <3>2
    <3>4. QED
      BY <3>1, <3>3
  <2>3. QED
    BY <2>1, <2>2
<1>9. QED
  BY <1>3, <1>5, <1>7, <1>8 DEF Chain

(***************************************************************************)
(* Applying the first message of a chain to the levels leaves the rest of  *)
(* the chain: a delete empties the one populated level, an add populates   *)
(* an empty side.                                                          *)
(***************************************************************************)
LEMMA ApplyFirst ==
  ASSUME NEW F, NEW R, R \subseteq Nat, NEW U, NEW Q, NEW r \in R, First(R, r),
         NEW lv, NEW lw, NEW level, NEW size,
         Lev(F[r]) \in U, F[r].size \in Size,
         \A k : k \in Q <=> k \in R /\ k # r,
         \A l \in U : l # Lev(F[r]) => lw[l] = lv[l],
         F[r].type = "delete" => lw[Lev(F[r])] = 0,
         F[r].type = "add" => lw[Lev(F[r])] = Accumulate(lv[Lev(F[r])], F[r].size),
         Chain(F, R, U, lv, level, size)
  PROVE  Chain(F, Q, U, lw, level, size)
<1>0. Q \subseteq R /\ r \in Nat /\ (\A k \in Q : k \in Nat /\ r < k) /\ (\A k \in R : k = r \/ k \in Q)
  <2>1. r \in Nat /\ \A k \in R : k \in Nat /\ r <= k
    BY DEF First
  <2>2. \A k \in Q : k \in R /\ k # r
    OBVIOUS
  <2>3. ASSUME NEW k \in Q PROVE k \in Nat /\ r < k
    <3>1. k \in Nat /\ r <= k /\ k # r
      BY <2>1, <2>2
    <3>2. QED
      BY <2>1, <3>1
  <2>4. \A k \in R : k = r \/ k \in Q
    OBVIOUS
  <2>5. QED
    BY <2>1, <2>2, <2>3, <2>4
<1>c. /\ Paired(F, R) /\ Expected(F, R, U, lv)
      /\ LeadsTo(F, R, U, level, size) /\ Shows(R, U, lv, level, size)
  BY DEF Chain
<1>1. F[r].type = "delete" \/ F[r].type = "add"
  BY <1>c DEF Paired
<1>2. ASSUME F[r].type = "delete" PROVE \A l \in U : lw[l] = 0
  BY <1>2, <1>c DEF Expected
<1>3. ASSUME F[r].type = "add"
      PROVE  /\ \A l \in U : l # Lev(F[r]) => lw[l] = 0
             /\ lw[Lev(F[r])] = F[r].size
  <2>1. \A l \in U : lv[l] = 0
    BY <1>3, <1>c DEF Expected
  <2>2. Accumulate(0, F[r].size) = F[r].size
    BY WindowAssumption DEF Accumulate, Size
  <2>3. QED
    BY <1>3, <2>1, <2>2
<1>4. Paired(F, Q)
  <2>1. \A k \in Q : F[k].type = "delete" \/ (F[k].type = "add" /\ F[k].size # 0)
    BY <1>0, <1>c DEF Paired
  <2>2. ASSUME NEW j \in Q, NEW k \in Q, Neighbours(Q, j, k) PROVE Neighbours(R, j, k)
    BY <1>0, <2>2 DEF Neighbours
  <2>3. QED
    BY <1>0, <1>c, <2>1, <2>2 DEF Paired
<1>5. Expected(F, Q, U, lw)
  <2> SUFFICES ASSUME NEW k \in Q, First(Q, k), NEW l \in U, lw[l] # 0
               PROVE  F[k].type = "delete" /\ l = Lev(F[k])
    BY DEF Expected
  <2>1. F[r].type = "add" /\ l = Lev(F[r])
    BY <1>1, <1>2, <1>3
  <2>2. Neighbours(R, r, k)
    BY <1>0 DEF Neighbours, First
  <2>3. F[k].type = "delete" /\ Lev(F[r]) = Lev(F[k])
    BY <1>0, <1>c, <2>1, <2>2 DEF Paired
  <2>4. QED
    BY <2>1, <2>3
<1>6. LeadsTo(F, Q, U, level, size)
  <2>1. ASSUME NEW k \in Q, Last(Q, k) PROVE Last(R, k)
    BY <1>0, <2>1 DEF Last
  <2>2. QED
    BY <1>0, <1>c, <2>1 DEF LeadsTo
<1>7. Shows(Q, U, lw, level, size)
  <2> SUFFICES ASSUME Q = {}, NEW l \in U PROVE lw[l] = IF l = level THEN size ELSE 0
    BY DEF Shows
  <2>1. Last(R, r)
    BY <1>0 DEF Last
  <2>2. CASE F[r].type = "add"
    <3>1. Lev(F[r]) = level /\ F[r].size = size
      BY <1>c, <2>1, <2>2 DEF LeadsTo
    <3>2. QED
      BY <1>3, <2>2, <3>1
  <2>3. CASE F[r].type = "delete"
    <3>1. level \notin U
      BY <1>c, <2>1, <2>3 DEF LeadsTo
    <3>2. QED
      BY <1>2, <2>3, <3>1
  <2>4. QED
    BY <1>1, <2>2, <2>3
<1>8. QED
  BY <1>4, <1>5, <1>6, <1>7 DEF Chain

(***************************************************************************)
(* A requote extends a chain: the delete of the quoted level follows the   *)
(* add that led to it, and the new add is what the chain now leads to.     *)
(***************************************************************************)
LEMMA Extend ==
  ASSUME NEW F, NEW N \in Nat, NEW R, R \subseteq 1 .. N, NEW Q, NEW U, NEW lv,
         NEW level, NEW size, NEW new, NEW newSize, newSize # 0,
         F[N + 1].type = "delete", Lev(F[N + 1]) = level,
         F[N + 2].type = "add", Lev(F[N + 2]) = new, F[N + 2].size = newSize,
         \A k \in R : Lev(F[k]) \in U,
         \A k : k \in Q <=> \/ k \in R
                            \/ k = N + 1 /\ level \in U
                            \/ k = N + 2 /\ new \in U,
         Chain(F, R, U, lv, level, size)
  PROVE  Chain(F, Q, U, lv, new, newSize)
<1>0. /\ R \subseteq Nat /\ R \subseteq 0 .. N /\ (\A k \in R : k \in Nat /\ k <= N)
      /\ (\A k \in Q : k \in Nat /\ k <= N + 2)
  <2>1. \A k \in R : k \in Nat /\ k <= N
    OBVIOUS
  <2>2. ASSUME NEW k \in Q PROVE k \in Nat /\ k <= N + 2
    <3>1. k \in R \/ k = N + 1 \/ k = N + 2
      OBVIOUS
    <3>2. CASE k \in R
      BY <2>1, <3>2
    <3>3. CASE k = N + 1 \/ k = N + 2
      BY <3>3
    <3>4. QED
      BY <3>1, <3>2, <3>3
  <2>3. \A k \in R : k \in 0 .. N
    BY <2>1
  <2>4. QED
    BY <2>1, <2>2, <2>3
<1>c. /\ Paired(F, R) /\ Expected(F, R, U, lv)
      /\ LeadsTo(F, R, U, level, size) /\ Shows(R, U, lv, level, size)
  BY DEF Chain
<1>t. F[N + 1].type # "add" /\ F[N + 2].type # "delete"
  OBVIOUS
<1>1. ASSUME NEW z \in R, Last(R, z)
      PROVE  IF level \in U THEN F[z].type = "add" /\ Lev(F[z]) = level ELSE F[z].type = "delete"
  <2>1. F[z].type = "delete" \/ F[z].type = "add"
    BY <1>c DEF Paired
  <2>2. IF F[z].type = "add" THEN Lev(F[z]) = level ELSE level \notin U
    BY <1>1, <1>c DEF LeadsTo
  <2>3. Lev(F[z]) \in U
    OBVIOUS
  <2>4. QED
    BY <2>1, <2>2, <2>3
<1>2. Paired(F, Q)
  <2>1. \A k \in Q : F[k].type = "delete" \/ (F[k].type = "add" /\ F[k].size # 0)
    BY <1>0, <1>c DEF Paired
  <2>2. ASSUME NEW j \in Q, NEW k \in Q, Neighbours(Q, j, k),
               F[j].type = "add" \/ F[k].type = "delete"
        PROVE  F[j].type = "add" /\ F[k].type = "delete" /\ Lev(F[j]) = Lev(F[k])
    <3>0. j \in Nat /\ k \in Nat /\ j < k /\ (\A h \in Q : h <= j \/ k <= h)
      BY <1>0, <2>2 DEF Neighbours
    <3>1. CASE k \in R
      <4>1. j \in R
        BY <1>0, <3>0, <3>1
      <4>2. Neighbours(R, j, k)
        BY <3>0, <3>1, <4>1 DEF Neighbours
      <4>3. QED
        BY <1>c, <2>2, <3>1, <4>1, <4>2 DEF Paired
    <3>2. CASE k = N + 1 /\ level \in U
      <4>1. j \in R
        BY <3>0, <3>2
      <4>2. Last(R, j)
        BY <1>0, <3>0, <3>2, <4>1 DEF Last
      <4>3. F[j].type = "add" /\ Lev(F[j]) = level
        BY <1>1, <3>2, <4>1, <4>2
      <4>4. QED
        BY <3>2, <4>3
    <3>3. CASE k = N + 2
      <4>1. F[j].type = "add"
        BY <1>t, <2>2, <3>3
      <4>2. j \in R
        BY <1>t, <3>0, <3>3, <4>1
      <4>3. level \notin U
        BY <1>0, <3>0, <3>3, <4>2
      <4>4. Last(R, j)
        BY <1>0, <3>0, <3>3, <4>2 DEF Last
      <4>5. F[j].type = "delete"
        BY <1>1, <4>2, <4>3, <4>4
      <4>6. QED
        BY <4>1, <4>5
    <3>4. QED
      BY <3>1, <3>2, <3>3
  <2>3. QED
    BY <2>1, <2>2 DEF Paired
<1>3. Expected(F, Q, U, lv)
  <2> SUFFICES ASSUME NEW k \in Q, First(Q, k), NEW l \in U, lv[l] # 0
               PROVE  F[k].type = "delete" /\ l = Lev(F[k])
    BY DEF Expected
  <2>0. \A h \in Q : k <= h
    BY DEF First
  <2>1. CASE R # {}
    <3>1. PICK f \in R : First(R, f)
      BY <1>0, <2>1, HasFirst
    <3>2. f \in Q /\ k <= f
      BY <2>0
    <3>3. k \in R
      BY <1>0, <3>2
    <3>4. First(R, k)
      BY <2>0, <3>3 DEF First
    <3>5. QED
      BY <1>c, <3>3, <3>4 DEF Expected
  <2>2. CASE R = {}
    <3>1. l = level
      BY <1>c, <2>2 DEF Shows
    <3>2. N + 1 \in Q
      BY <3>1
    <3>3. k = N + 1
      BY <1>0, <2>0, <2>2, <3>2
    <3>4. QED
      BY <3>1, <3>3
  <2>3. QED
    BY <2>1, <2>2
<1>4. LeadsTo(F, Q, U, new, newSize)
  <2> SUFFICES ASSUME NEW k \in Q, Last(Q, k)
               PROVE  IF F[k].type = "add" THEN Lev(F[k]) = new /\ F[k].size = newSize
                                           ELSE new \notin U
    BY DEF LeadsTo
  <2>0. \A h \in Q : h <= k
    BY DEF Last
  <2>1. CASE k = N + 2
    BY <2>1
  <2>2. CASE k # N + 2
    <3>1. new \notin U
      <4> SUFFICES ASSUME new \in U PROVE FALSE
        OBVIOUS
      <4>1. N + 2 \in Q
        OBVIOUS
      <4>2. QED
        BY <1>0, <2>0, <2>2, <4>1
    <3>2. F[k].type # "add"
      <4>1. CASE k = N + 1
        BY <1>t, <4>1
      <4>2. CASE k \in R
        <5>1. level \notin U
          BY <1>0, <2>0, <4>2
        <5>2. Last(R, k)
          BY <2>0, <4>2 DEF Last
        <5>3. QED
          BY <1>1, <4>2, <5>1, <5>2
      <4>3. QED
        BY <2>2, <4>1, <4>2
    <3>3. QED
      BY <3>1, <3>2
  <2>3. QED
    BY <2>1, <2>2
<1>5. Shows(Q, U, lv, new, newSize)
  <2> SUFFICES ASSUME Q = {}, NEW l \in U PROVE lv[l] = IF l = new THEN newSize ELSE 0
    BY DEF Shows
  <2>1. level \notin U /\ new \notin U /\ R = {}
    OBVIOUS
  <2>2. QED
    BY <1>c, <2>1 DEF Shows
<1>6. QED
  BY <1>2, <1>3, <1>4, <1>5 DEF Chain
-----------------------------------------------------------------------------
(* What happens to the messages under way                                  *)

(***************************************************************************)
(* The recursive definition of the flattened buffer has a solution.        *)
(***************************************************************************)
LEMMA FlatsExist ==
  ASSUME NEW q, NEW N \in Nat
  PROVE  \E f : f = [n \in 0 .. N |-> IF n = 0 THEN << >> ELSE f[n - 1] \o q[n]]
<1> DEFINE Bad == { k \in Nat : ~ \E f : f = [n \in 0 .. k |-> IF n = 0 THEN << >> ELSE f[n - 1] \o q[n]] }
<1>1. ASSUME Bad # {} PROVE FALSE
  <2>1. PICK k \in Bad : \A j \in Bad : k <= j
    <3>1. Bad \subseteq Nat
      OBVIOUS
    <3> HIDE DEF Bad
    <3> QED BY <1>1, <3>1, LeastNat
  <2>2. k # 0
    <3> DEFINE g == [n \in 0 .. 0 |-> << >>]
    <3>1. g = [n \in 0 .. 0 |-> IF n = 0 THEN << >> ELSE g[n - 1] \o q[n]]
      OBVIOUS
    <3> HIDE DEF g
    <3>2. 0 \notin Bad
      BY <3>1
    <3>3. QED
      BY <2>1, <3>2
  <2>3. k - 1 \in Nat /\ k - 1 \notin Bad
    <3>1. Bad \subseteq Nat
      OBVIOUS
    <3> HIDE DEF Bad
    <3> QED BY <2>1, <2>2, <3>1
  <2>4. PICK f : f = [n \in 0 .. k - 1 |-> IF n = 0 THEN << >> ELSE f[n - 1] \o q[n]]
    BY <2>3
  <2> DEFINE g == [n \in 0 .. k |-> IF n = k THEN f[k - 1] \o q[k] ELSE f[n]]
  <2>5. ASSUME NEW n \in 0 .. k PROVE g[n] = IF n = 0 THEN << >> ELSE g[n - 1] \o q[n]
    <3>1. k \in Nat \ {0}
      BY <2>2
    <3>2. CASE n = k
      BY <3>1, <3>2
    <3>3. CASE n # k
      BY <2>4, <3>1, <3>3
    <3>4. QED
      BY <3>2, <3>3
  <2>6. g = [n \in 0 .. k |-> g[n]]
    OBVIOUS
  <2> HIDE DEF g
  <2>7. g = [n \in 0 .. k |-> IF n = 0 THEN << >> ELSE g[n - 1] \o q[n]]
    BY <2>5, <2>6
  <2>8. QED
    BY <2>1, <2>7
<1>2. QED
  BY <1>1

LEMMA FlatIsFold ==
  ASSUME NEW q \in Seq(Seq(Message))
  PROVE  \E f \in [0 .. Len(q) -> Seq(Message)] :
           /\ f[0] = << >>
           /\ \A n \in 1 .. Len(q) : f[n] = f[n - 1] \o q[n]
           /\ Flat(q) = f[Len(q)]
<1> DEFINE N == Len(q)
           f == CHOOSE g : g = [n \in 0 .. N |-> IF n = 0 THEN << >> ELSE g[n - 1] \o q[n]]
<1>0. N \in Nat /\ \A n \in 1 .. N : q[n] \in Seq(Message)
  OBVIOUS
<1>1. f = [n \in 0 .. N |-> IF n = 0 THEN << >> ELSE f[n - 1] \o q[n]]
  BY <1>0, FlatsExist, Zenon
<1>2. Flat(q) = f[N]
  BY Zenon DEF Flat
<1> HIDE DEF f, N
<1>3. f[0] = << >> /\ \A n \in 1 .. N : f[n] = f[n - 1] \o q[n]
  <2>1. \A n \in 0 .. N : f[n] = IF n = 0 THEN << >> ELSE f[n - 1] \o q[n]
    BY <1>1, Zenon
  <2>2. 0 \in 0 .. N /\ \A n \in 1 .. N : n \in 0 .. N /\ n # 0
    BY <1>0
  <2>3. QED
    BY <2>1, <2>2, Zenon
<1> DEFINE Bad == { n \in 0 .. N : f[n] \notin Seq(Message) }
<1>4. ASSUME Bad # {} PROVE FALSE
  <2>0. Bad \subseteq Nat
    BY <1>0
  <2>1. PICK k \in Bad : \A j \in Bad : k <= j
    <3> HIDE DEF Bad
    <3> QED BY <1>4, <2>0, LeastNat
  <2>a. k \in 0 .. N /\ f[k] \notin Seq(Message)
    BY <2>1
  <2>b. k # 0
    <3>1. << >> \in Seq(Message)
      OBVIOUS
    <3>2. QED
      BY <1>3, <2>a, <3>1, Zenon
  <2>2. k \in 1 .. N /\ k - 1 \in 0 .. N
    BY <1>0, <2>a, <2>b
  <2>3. k - 1 \notin Bad
    <3> HIDE DEF Bad
    <3> QED BY <2>0, <2>1, <2>2
  <2>4. f[k - 1] \in Seq(Message) /\ q[k] \in Seq(Message) /\ f[k] = f[k - 1] \o q[k]
    BY <1>0, <1>3, <2>2, <2>3
  <2>5. f[k] \in Seq(Message)
    BY <2>4, ConcatProperties
  <2>6. QED
    BY <2>1, <2>5
<1>5. f \in [0 .. N -> Seq(Message)]
  BY <1>1, <1>4
<1>6. QED
  BY <1>2, <1>3, <1>5 DEF N

LEMMA FlatType ==
  ASSUME NEW q \in Seq(Seq(Message)) PROVE Flat(q) \in Seq(Message)
<1>1. PICK f \in [0 .. Len(q) -> Seq(Message)] : Flat(q) = f[Len(q)]
  BY FlatIsFold
<1>2. Len(q) \in 0 .. Len(q)
  OBVIOUS
<1>3. QED
  BY <1>1, <1>2

LEMMA FlatEmpty == Flat(<< >>) = << >>
<1>1. << >> \in Seq(Seq(Message)) /\ Len(<< >>) = 0
  OBVIOUS
<1>2. QED
  BY <1>1, FlatIsFold

LEMMA FlatAppend ==
  ASSUME NEW q \in Seq(Seq(Message)), NEW d \in Seq(Message)
  PROVE  Flat(Append(q, d)) = Flat(q) \o d
<1>0. PICK p \in Seq(Seq(Message)), N \in Nat :
        /\ p = Append(q, d) /\ N = Len(q) /\ Len(p) = N + 1
        /\ (\A n \in 1 .. N : p[n] = q[n]) /\ p[N + 1] = d
  <2>1. /\ Append(q, d) \in Seq(Seq(Message)) /\ Len(Append(q, d)) = Len(q) + 1
        /\ (\A n \in 1 .. Len(q) : Append(q, d)[n] = q[n]) /\ Append(q, d)[Len(q) + 1] = d
    BY AppendProperties
  <2>2. Len(q) \in Nat
    OBVIOUS
  <2>3. QED
    BY <2>1, <2>2, Zenon
<1>1. PICK f \in [0 .. N -> Seq(Message)] :
        f[0] = << >> /\ (\A n \in 1 .. N : f[n] = f[n - 1] \o q[n]) /\ Flat(q) = f[N]
  BY <1>0, FlatIsFold
<1>2. PICK g \in [0 .. N + 1 -> Seq(Message)] :
        g[0] = << >> /\ (\A n \in 1 .. N + 1 : g[n] = g[n - 1] \o p[n]) /\ Flat(p) = g[N + 1]
  BY <1>0, FlatIsFold
<1> DEFINE Bad == { n \in 0 .. N : g[n] # f[n] }
<1>3. ASSUME Bad # {} PROVE FALSE
  <2>0. Bad \subseteq Nat
    OBVIOUS
  <2>1. PICK k \in Bad : \A j \in Bad : k <= j
    <3> HIDE DEF Bad
    <3> QED BY <1>3, <2>0, LeastNat
  <2>2. k \in 1 .. N /\ k \in 1 .. N + 1 /\ k - 1 \in 0 .. N
    BY <1>1, <1>2, <2>1
  <2>3. k - 1 \notin Bad
    <3> HIDE DEF Bad
    <3> QED BY <2>0, <2>1, <2>2
  <2>4. g[k - 1] = f[k - 1] /\ p[k] = q[k]
    BY <1>0, <2>2, <2>3
  <2>5. g[k] = g[k - 1] \o p[k] /\ f[k] = f[k - 1] \o q[k]
    BY <1>1, <1>2, <2>2
  <2>6. g[k] = f[k]
    BY <2>4, <2>5
  <2>7. QED
    BY <2>1, <2>6
<1>4. g[N] = f[N]
  <2>1. N \in 0 .. N
    OBVIOUS
  <2>2. N \notin Bad
    BY <1>3, Zenon
  <2>3. QED
    BY <2>1, <2>2, Zenon
<1>5. g[N + 1] = g[N] \o p[N + 1]
  <2>1. N + 1 \in 1 .. N + 1 /\ (N + 1) - 1 = N
    OBVIOUS
  <2>2. g[N + 1] = g[(N + 1) - 1] \o p[N + 1]
    BY <1>2, <2>1, Zenon
  <2>3. QED
    BY <2>1, <2>2, Zenon
<1>6. QED
  BY <1>0, <1>1, <1>2, <1>4, <1>5

\* Concatenation, for the steps that use no more of it than associativity.
Join(a, b) == a \o b

LEMMA JoinAssociative ==
  ASSUME NEW a \in Seq(Message), NEW b \in Seq(Message), NEW c \in Seq(Message)
  PROVE  Join(Join(a, b), c) = Join(a, Join(b, c))
  BY ConcatAssociative DEF Join

LEMMA JoinType ==
  ASSUME NEW a \in Seq(Message), NEW b \in Seq(Message) PROVE Join(a, b) \in Seq(Message)
  BY ConcatProperties DEF Join

LEMMA JoinEmpty ==
  ASSUME NEW a \in Seq(Message) PROVE Join(a, << >>) = a /\ Join(<< >>, a) = a
  BY ConcatEmptySeq DEF Join

LEMMA FlatTail ==
  ASSUME NEW q \in Seq(Seq(Message)), q # << >>
  PROVE  Flat(q) = Head(q) \o Flat(Tail(q))
<1>0. PICK p \in Seq(Seq(Message)), N \in Nat, d \in Seq(Message) :
        /\ p = Tail(q) /\ N = Len(p) /\ Len(q) = N + 1 /\ d = Head(q)
        /\ q[1] = d /\ \A n \in 1 .. N : p[n] = q[n + 1]
  <2>1. Tail(q) \in Seq(Seq(Message)) /\ Head(q) \in Seq(Message) /\ Len(Tail(q)) = Len(q) - 1
    BY HeadTailProperties
  <2>2. Len(Tail(q)) \in Nat /\ Len(q) = Len(Tail(q)) + 1 /\ Head(q) = q[1]
    BY <2>1
  <2>3. \A n \in 1 .. Len(Tail(q)) : Tail(q)[n] = q[n + 1]
    BY HeadTailProperties
  <2>4. QED
    BY <2>1, <2>2, <2>3
<1>1. PICK f \in [0 .. N + 1 -> Seq(Message)] :
        f[0] = << >> /\ (\A n \in 1 .. N + 1 : f[n] = f[n - 1] \o q[n]) /\ Flat(q) = f[N + 1]
  BY <1>0, FlatIsFold
<1>2. PICK g \in [0 .. N -> Seq(Message)] :
        g[0] = << >> /\ (\A n \in 1 .. N : g[n] = g[n - 1] \o p[n]) /\ Flat(p) = g[N]
  BY <1>0, FlatIsFold
<1>b. f[1] = d /\ d \o g[0] = d
  <2>1. f[1] = f[0] \o q[1]
    <3>1. 1 \in 1 .. N + 1 /\ 1 - 1 = 0
      OBVIOUS
    <3>2. f[1] = f[1 - 1] \o q[1]
      BY <1>1, <3>1, Zenon
    <3>3. QED
      BY <3>1, <3>2, Zenon
  <2>2. << >> \o d = d /\ d \o << >> = d
    BY ConcatEmptySeq
  <2>3. QED
    BY <1>0, <1>1, <1>2, <2>1, <2>2
<1> DEFINE Bad == { n \in 0 .. N : f[n + 1] # d \o g[n] }
<1>3. ASSUME Bad # {} PROVE FALSE
  <2>0. Bad \subseteq Nat
    OBVIOUS
  <2>1. PICK k \in Bad : \A j \in Bad : k <= j
    <3> HIDE DEF Bad
    <3> QED BY <1>3, <2>0, LeastNat
  <2>2. k \in 1 .. N /\ k + 1 \in 1 .. N + 1 /\ k - 1 \in 0 .. N
    <3>1. k # 0
      <4>1. f[k + 1] # d \o g[k]
        BY <2>1, Zenon
      <4>2. 0 + 1 = 1
        OBVIOUS
      <4>3. QED
        BY <1>b, <4>1, <4>2, Zenon
    <3>2. QED
      BY <2>1, <3>1
  <2>3. k - 1 \notin Bad
    <3> HIDE DEF Bad
    <3> QED BY <2>0, <2>1, <2>2
  <2>4. f[k] = d \o g[k - 1] /\ p[k] = q[k + 1]
    <3>1. f[(k - 1) + 1] = d \o g[k - 1]
      BY <2>2, <2>3
    <3>2. (k - 1) + 1 = k
      BY <2>2
    <3>3. QED
      BY <1>0, <2>2, <3>1, <3>2
  <2>5. f[k + 1] = f[k] \o q[k + 1] /\ g[k] = g[k - 1] \o p[k]
    <3>1. f[k + 1] = f[(k + 1) - 1] \o q[k + 1]
      BY <1>1, <2>2
    <3>2. (k + 1) - 1 = k
      BY <2>2
    <3>3. QED
      BY <1>2, <2>2, <3>1, <3>2
  <2>6. (d \o g[k - 1]) \o p[k] = d \o (g[k - 1] \o p[k])
    <3>1. k - 1 \in 0 .. N /\ k \in 1 .. Len(p)
      BY <1>0, <2>2
    <3>2. g[k - 1] \in Seq(Message)
      BY <3>1, Zenon
    <3>3. p[k] \in Seq(Message)
      BY <3>1
    <3>4. Join(Join(d, g[k - 1]), p[k]) = Join(d, Join(g[k - 1], p[k]))
      BY <3>2, <3>3, JoinAssociative, Zenon
    <3>5. QED
      BY <3>4 DEF Join
  <2>7. f[k + 1] = d \o g[k]
    BY <2>4, <2>5, <2>6
  <2>8. QED
    BY <2>1, <2>7
<1>4. f[N + 1] = d \o g[N]
  <2>1. N \in 0 .. N
    OBVIOUS
  <2>2. N \notin Bad
    BY <1>3, Zenon
  <2>3. QED
    BY <2>1, <2>2, Zenon
<1>5. QED
  BY <1>0, <1>1, <1>2, <1>4

LEMMA MoveOne ==
  ASSUME NEW a \in Seq(Message), NEW r \in Seq(Message), r # << >>
  PROVE  /\ Join(Append(a, Head(r)), Tail(r)) = Join(a, r)
         /\ r = Join(<< Head(r) >>, Tail(r))
         /\ << Head(r) >> \in Seq(Message) /\ Tail(r) \in Seq(Message)
         /\ Append(a, Head(r)) \in Seq(Message)
<1>1. Head(r) \in Message /\ Tail(r) \in Seq(Message)
  BY HeadTailProperties
<1>2. << Head(r) >> \in Seq(Message)
  BY <1>1
<1>3. Append(a, Head(r)) = Join(a, << Head(r) >>) /\ Append(a, Head(r)) \in Seq(Message)
  BY <1>1, AppendIsConcat, AppendProperties DEF Join
<1>4. r = Join(<< Head(r) >>, Tail(r))
  BY <1>1 DEF Join
<1>5. Join(Join(a, << Head(r) >>), Tail(r)) = Join(a, Join(<< Head(r) >>, Tail(r)))
  BY <1>1, <1>2, JoinAssociative, Zenon
<1>6. QED
  BY <1>1, <1>2, <1>3, <1>4, <1>5, Zenon

\* The messages under way, in the order in which they reach the book.
Under(fq, r, q, d, e) == Join(fq, Join(r, Join(Flat(q), Join(d, e))))

LEMMA InFlightIs ==
  InFlight = Under(feed_q, rx, socket, dgram, toEmit)
  BY DEF InFlight, Under, Join

(***************************************************************************)
(* Flushing sends what is in the datagram on, or drops it as a whole.      *)
(***************************************************************************)
LEMMA FlushCarries ==
  ASSUME TypeOK, NEW d \in Seq(Message), NEW e \in Seq(Message), Flush(d)
  PROVE  \/ /\ tainted' = tainted
            /\ Join(Flat(socket'), Join(dgram', e)) = Join(Flat(socket), Join(d, e))
         \/ /\ tainted' = tainted \cup Levels(d)
            /\ Join(Flat(socket'), Join(dgram', e)) = Join(Flat(socket), e)
<1>0. socket \in Seq(Seq(Message)) /\ Flat(socket) \in Seq(Message)
  BY FlatType DEF TypeOK
<1>1. dgram' = << >> /\ Join(<< >>, e) = e
  BY JoinEmpty DEF Flush
<1>2. CASE d = << >>
  BY <1>1, <1>2 DEF Flush
<1>3. CASE d # << >> /\ Len(socket) < SocketCap
  <2>1. socket' = Append(socket, d) /\ tainted' = tainted
    BY <1>3 DEF Flush, Send
  <2>2. Flat(Append(socket, d)) = Join(Flat(socket), d)
    BY <1>0, FlatAppend DEF Join
  <2>3. Join(Join(Flat(socket), d), e) = Join(Flat(socket), Join(d, e))
    BY <1>0, JoinAssociative, Zenon
  <2>4. QED
    BY <1>1, <2>1, <2>2, <2>3, Zenon
<1>4. CASE d # << >> /\ ~(Len(socket) < SocketCap)
  BY <1>1, <1>4 DEF Flush, Send
<1>5. QED
  BY <1>2, <1>3, <1>4

LEMMA Regroup ==
  ASSUME NEW a \in Seq(Message), NEW b \in Seq(Message), NEW c \in Seq(Message),
         NEW x \in Seq(Message)
  PROVE  /\ Join(Join(a, Join(b, c)), x) = Join(a, Join(b, Join(c, x)))
         /\ Join(a, Join(b, c)) \in Seq(Message)
<1>1. Join(b, c) \in Seq(Message) /\ Join(a, Join(b, c)) \in Seq(Message)
  BY JoinType, Zenon
<1>2. Join(Join(a, Join(b, c)), x) = Join(a, Join(Join(b, c), x))
  BY <1>1, JoinAssociative
<1>3. Join(Join(b, c), x) = Join(b, Join(c, x))
  BY JoinAssociative, Zenon
<1>4. QED
  BY <1>1, <1>2, <1>3, Zenon

LEMMA BuffersType ==
  ASSUME TypeOK
  PROVE  /\ feed_q \in Seq(Message) /\ rx \in Seq(Message) /\ dgram \in Seq(Message)
         /\ toEmit \in Seq(Message) /\ socket \in Seq(Seq(Message)) /\ Flat(socket) \in Seq(Message)
         /\ Join(dgram, toEmit) \in Seq(Message)
         /\ Join(Flat(socket), Join(dgram, toEmit)) \in Seq(Message)
         /\ Join(rx, Join(Flat(socket), Join(dgram, toEmit))) \in Seq(Message)
         /\ InFlight \in Seq(Message)
<1>1. /\ feed_q \in Seq(Message) /\ rx \in Seq(Message) /\ dgram \in Seq(Message)
      /\ toEmit \in Seq(Message) /\ socket \in Seq(Seq(Message))
  BY DEF TypeOK
<1>2. Flat(socket) \in Seq(Message)
  BY <1>1, FlatType
<1>3. Join(dgram, toEmit) \in Seq(Message)
  BY <1>1, JoinType
<1>4. Join(Flat(socket), Join(dgram, toEmit)) \in Seq(Message)
  BY <1>2, <1>3, JoinType, Zenon
<1>5. Join(rx, Join(Flat(socket), Join(dgram, toEmit))) \in Seq(Message)
  BY <1>1, <1>4, JoinType, Zenon
<1>6. InFlight \in Seq(Message)
  BY <1>1, <1>5, JoinType, InFlightIs, Zenon DEF Under
<1>7. QED
  BY <1>1, <1>2, <1>3, <1>4, <1>5, <1>6

\* A step carries the messages on: it loses a run of them, perhaps none, and
\* taints the levels these were about.
Carries(A, B, C) ==
  /\ InFlight = Join(A, Join(B, C)) /\ InFlight' = Join(A, C)
  /\ tainted' = tainted \cup Levels(B)

LEMMA LosesNothing ==
  ASSUME TypeOK, InFlight' = InFlight, tainted' = tainted
  PROVE  \E A, B, C \in Seq(Message) : Carries(A, B, C)
<1>1. << >> \in Seq(Message) /\ Levels(<< >>) = {}
  BY DEF Levels
<1>2. InFlight \in Seq(Message)
  BY BuffersType
<1>3. Join(<< >>, << >>) = << >> /\ Join(InFlight, << >>) = InFlight
  BY <1>1, <1>2, JoinEmpty, Zenon
<1>4. Carries(InFlight, << >>, << >>)
  BY <1>1, <1>3 DEF Carries
<1>5. QED
  BY <1>1, <1>2, <1>4, Zenon

LEMMA FlushStep ==
  ASSUME TypeOK, NEW d \in Seq(Message), NEW e \in Seq(Message), Flush(d),
         toEmit' = e, feed_q' = feed_q, rx' = rx, Join(d, e) = Join(dgram, toEmit)
  PROVE  \E A, B, C \in Seq(Message) : Carries(A, B, C)
<1>0. /\ feed_q \in Seq(Message) /\ rx \in Seq(Message) /\ Flat(socket) \in Seq(Message)
      /\ Join(d, e) \in Seq(Message)
  BY BuffersType
<1>1. InFlight = Join(feed_q, Join(rx, Join(Flat(socket), Join(d, e))))
  BY InFlightIs, Zenon DEF Under
<1>2. InFlight' = Join(feed_q, Join(rx, Join(Flat(socket'), Join(dgram', e))))
  BY DEF InFlight, Join
<1>3. CASE /\ tainted' = tainted
           /\ Join(Flat(socket'), Join(dgram', e)) = Join(Flat(socket), Join(d, e))
  <2>1. InFlight' = InFlight
    BY <1>1, <1>2, <1>3, Zenon
  <2>2. QED
    BY <1>3, <2>1, LosesNothing
<1>4. CASE /\ tainted' = tainted \cup Levels(d)
           /\ Join(Flat(socket'), Join(dgram', e)) = Join(Flat(socket), e)
  <2> DEFINE A == Join(feed_q, Join(rx, Flat(socket)))
  <2>1. A \in Seq(Message) /\ InFlight = Join(A, Join(d, e))
    <3>1. PICK y \in Seq(Message) : y = Join(d, e)
      BY <1>0, Zenon
    <3>2. Join(A, y) = Join(feed_q, Join(rx, Join(Flat(socket), y)))
      BY <1>0, Regroup
    <3>3. A \in Seq(Message)
      BY <1>0, Regroup
    <3>4. QED
      BY <1>1, <3>1, <3>2, <3>3, Zenon
  <2>2. InFlight' = Join(A, e)
    <3>1. Join(A, e) = Join(feed_q, Join(rx, Join(Flat(socket), e)))
      BY <1>0, Regroup
    <3>2. QED
      BY <1>2, <1>4, <3>1, Zenon
  <2> HIDE DEF A
  <2>3. Carries(A, d, e)
    BY <1>4, <2>1, <2>2 DEF Carries
  <2>4. QED
    BY <2>1, <2>3, Zenon
<1>5. QED
  BY <1>3, <1>4, FlushCarries

LEMMA FlushAll ==
  ASSUME TypeOK, toEmit = << >>, Flush(dgram), toEmit' = toEmit, feed_q' = feed_q, rx' = rx
  PROVE  \E A, B, C \in Seq(Message) : Carries(A, B, C)
<1>1. dgram \in Seq(Message) /\ toEmit \in Seq(Message)
  BY BuffersType
<1>2. QED
  BY <1>1, FlushStep

(***************************************************************************)
(* Packing, sending, receiving and enqueueing keep the messages in their   *)
(* order; a drop takes out a whole datagram or one message.                *)
(***************************************************************************)
LEMMA CarriedOn ==
  ASSUME TypeOK, DatagramsFit, ExchOpen \/ Emit \/ ExchStop \/ FeedThread
  PROVE  \E A, B, C \in Seq(Message) : Carries(A, B, C)
<1>t. /\ feed_q \in Seq(Message) /\ rx \in Seq(Message) /\ dgram \in Seq(Message)
      /\ toEmit \in Seq(Message) /\ socket \in Seq(Seq(Message)) /\ Flat(socket) \in Seq(Message)
      /\ Join(dgram, toEmit) \in Seq(Message)
      /\ Join(Flat(socket), Join(dgram, toEmit)) \in Seq(Message)
  BY BuffersType
<1>i. /\ InFlight = Join(feed_q, Join(rx, Join(Flat(socket), Join(dgram, toEmit))))
      /\ InFlight' = Join(feed_q', Join(rx', Join(Flat(socket'), Join(dgram', toEmit'))))
  BY DEF InFlight, Join
<1>1. CASE ExchOpen
  BY <1>1, FlushAll DEF ExchOpen
<1>2. CASE ExchStop
  BY <1>2, FlushAll DEF ExchStop
<1>3. CASE Emit
  <2>1. /\ Join(Append(dgram, Head(toEmit)), Tail(toEmit)) = Join(dgram, toEmit)
        /\ Append(dgram, Head(toEmit)) \in Seq(Message) /\ Tail(toEmit) \in Seq(Message)
    BY <1>t, <1>3, MoveOne DEF Emit
  <2>2. toEmit' = Tail(toEmit) /\ feed_q' = feed_q /\ rx' = rx
    BY <1>3 DEF Emit
  <2>3. CASE Len(Append(dgram, Head(toEmit))) >= batch
    <3>1. Flush(Append(dgram, Head(toEmit)))
      BY <1>3, <2>3 DEF Emit
    <3>2. QED
      BY <2>1, <2>2, <3>1, FlushStep
  <2>4. CASE ~(Len(Append(dgram, Head(toEmit))) >= batch)
    <3>1. dgram' = Append(dgram, Head(toEmit)) /\ socket' = socket /\ tainted' = tainted
      BY <1>3, <2>4 DEF Emit
    <3>2. InFlight' = InFlight
      BY <1>i, <2>1, <2>2, <3>1, Zenon
    <3>3. QED
      BY <3>1, <3>2, LosesNothing
  <2>5. QED
    BY <2>3, <2>4
<1>4. CASE FeedReceive
  <2>1. /\ rx = << >> /\ socket # << >> /\ socket' = Tail(socket)
        /\ feed_q' = feed_q /\ dgram' = dgram /\ toEmit' = toEmit /\ tainted' = tainted
    BY <1>4 DEF FeedReceive
  <2>2. Head(socket) \in Seq(Message) /\ Len(Head(socket)) <= MaxMsgs /\ Tail(socket) \in Seq(Seq(Message))
    <3>1. Head(socket) = socket[1] /\ 1 \in DOMAIN socket
      BY <1>t, <2>1
    <3>2. QED
      BY <1>t, <2>1, <3>1, HeadTailProperties DEF DatagramsFit
  <2>3. rx' = Head(socket)
    <3>1. PICK d \in Seq(Message) : d = Head(socket)
      BY <2>2
    <3>2. rx' = SubSeq(d, 1, IF Len(d) < MaxMsgs THEN Len(d) ELSE MaxMsgs)
      BY <1>4, <3>1 DEF FeedReceive
    <3>3. (IF Len(d) < MaxMsgs THEN Len(d) ELSE MaxMsgs) = Len(d)
      BY <2>2, <3>1, FeedAssumption
    <3>4. SubSeq(d, 1, Len(d)) = d
      OBVIOUS
    <3>5. QED
      BY <3>1, <3>2, <3>3, <3>4, Zenon
  <2>4. Flat(socket) = Join(Head(socket), Flat(Tail(socket))) /\ Flat(Tail(socket)) \in Seq(Message)
    BY <1>t, <2>1, <2>2, FlatTail, FlatType DEF Join
  <2>5. Join(Join(Head(socket), Flat(Tail(socket))), Join(dgram, toEmit))
          = Join(Head(socket), Join(Flat(Tail(socket)), Join(dgram, toEmit)))
    BY <1>t, <2>2, <2>4, JoinAssociative
  <2>6. Join(rx, Join(Flat(socket), Join(dgram, toEmit))) = Join(Flat(socket), Join(dgram, toEmit))
    BY <1>t, <2>1, JoinEmpty, Zenon
  <2>7. InFlight' = InFlight
    <3>1. InFlight = Join(feed_q, Join(Flat(socket), Join(dgram, toEmit)))
      BY <1>i, <2>6, Zenon
    <3>2. InFlight' = Join(feed_q, Join(Head(socket), Join(Flat(Tail(socket)), Join(dgram, toEmit))))
      BY <1>i, <2>1, <2>3, Zenon
    <3>3. QED
      BY <2>4, <2>5, <3>1, <3>2, Zenon
  <2>8. QED
    BY <2>1, <2>7, LosesNothing
<1>5. CASE FeedPush
  <2> DEFINE X == Join(Flat(socket), Join(dgram, toEmit))
  <2>1. /\ rx # << >> /\ feed_q' = Append(feed_q, Head(rx)) /\ rx' = Tail(rx) /\ tainted' = tainted
        /\ socket' = socket /\ dgram' = dgram /\ toEmit' = toEmit
    BY <1>5 DEF FeedPush
  <2>2. /\ Join(Append(feed_q, Head(rx)), Tail(rx)) = Join(feed_q, rx)
        /\ Append(feed_q, Head(rx)) \in Seq(Message) /\ Tail(rx) \in Seq(Message)
    BY <1>t, <2>1, MoveOne
  <2>4. InFlight = Join(feed_q, Join(rx, X)) /\ InFlight' = Join(Append(feed_q, Head(rx)), Join(Tail(rx), X))
    BY <1>i, <2>1, Zenon
  <2>x. X \in Seq(Message)
    BY <1>t
  <2> HIDE DEF X
  <2>3. /\ Join(Join(Append(feed_q, Head(rx)), Tail(rx)), X) = Join(Append(feed_q, Head(rx)), Join(Tail(rx), X))
        /\ Join(Join(feed_q, rx), X) = Join(feed_q, Join(rx, X))
    <3>1. PICK f, r \in Seq(Message) : f = Append(feed_q, Head(rx)) /\ r = Tail(rx)
      BY <2>2, Zenon
    <3>2. Join(Join(f, r), X) = Join(f, Join(r, X)) /\ Join(Join(feed_q, rx), X) = Join(feed_q, Join(rx, X))
      BY <1>t, <2>x, JoinAssociative
    <3>3. QED
      BY <3>1, <3>2, Zenon
  <2>5. InFlight' = InFlight
    BY <2>2, <2>3, <2>4, Zenon
  <2>6. QED
    BY <2>1, <2>5, LosesNothing
<1>6. CASE FeedDrop
  <2> DEFINE X == Join(Flat(socket), Join(dgram, toEmit))
  <2>1. /\ rx # << >> /\ feed_q' = feed_q /\ rx' = Tail(rx) /\ tainted' = tainted \cup Levels(<< Head(rx) >>)
        /\ socket' = socket /\ dgram' = dgram /\ toEmit' = toEmit
    BY <1>6 DEF FeedDrop
  <2>2. /\ rx = Join(<< Head(rx) >>, Tail(rx))
        /\ << Head(rx) >> \in Seq(Message) /\ Tail(rx) \in Seq(Message)
    BY <1>t, <2>1, MoveOne
  <2>x. X \in Seq(Message)
    BY <1>t
  <2>3. Join(Join(<< Head(rx) >>, Tail(rx)), X) = Join(<< Head(rx) >>, Join(Tail(rx), X))
    <3> HIDE DEF X
    <3>1. PICK h, r \in Seq(Message) : h = << Head(rx) >> /\ r = Tail(rx)
      BY <2>2, Zenon
    <3>2. Join(Join(h, r), X) = Join(h, Join(r, X))
      BY <2>x, JoinAssociative
    <3>3. QED
      BY <3>1, <3>2, Zenon
  <2>4. Join(Tail(rx), X) \in Seq(Message)
    BY <1>t, <2>2, JoinType, Zenon
  <2>5. InFlight = Join(feed_q, Join(rx, X)) /\ InFlight' = Join(feed_q, Join(Tail(rx), X))
    BY <1>i, <2>1, Zenon
  <2> HIDE DEF X
  <2>6. InFlight = Join(feed_q, Join(<< Head(rx) >>, Join(Tail(rx), X)))
    <3>1. Join(rx, X) = Join(<< Head(rx) >>, Join(Tail(rx), X))
      BY <2>2, <2>3, Zenon
    <3>2. QED
      BY <2>5, <3>1, Zenon
  <2>7. Carries(feed_q, << Head(rx) >>, Join(Tail(rx), X))
    BY <2>1, <2>5, <2>6, Zenon DEF Carries
  <2>8. QED
    BY <1>t, <2>2, <2>4, <2>7, Zenon
<1>7. QED
  BY <1>1, <1>2, <1>3, <1>4, <1>5, <1>6 DEF FeedThread
-----------------------------------------------------------------------------
(* Chains over the messages under way                                      *)

LEMMA JoinAt ==
  ASSUME NEW a \in Seq(Message), NEW b \in Seq(Message)
  PROVE  /\ Len(a) \in Nat /\ Len(b) \in Nat
         /\ DOMAIN a = 1 .. Len(a) /\ DOMAIN b = 1 .. Len(b)
         /\ DOMAIN Join(a, b) = 1 .. Len(a) + Len(b)
         /\ Len(Join(a, b)) = Len(a) + Len(b)
         /\ \A k \in 1 .. Len(a) : Join(a, b)[k] = a[k]
         /\ \A k \in 1 .. Len(b) : Join(a, b)[Len(a) + k] = b[k]
<1>1. Len(a) \in Nat /\ Len(b) \in Nat /\ DOMAIN a = 1 .. Len(a) /\ DOMAIN b = 1 .. Len(b)
  OBVIOUS
<1>2. /\ a \o b \in Seq(Message) /\ Len(a \o b) = Len(a) + Len(b)
      /\ \A i \in 1 .. Len(a) + Len(b) : (a \o b)[i] = IF i <= Len(a) THEN a[i] ELSE b[i - Len(a)]
  BY ConcatProperties
<1>3. \A k \in 1 .. Len(a) : (a \o b)[k] = a[k]
  BY <1>1, <1>2
<1>4. ASSUME NEW k \in 1 .. Len(b) PROVE (a \o b)[Len(a) + k] = b[k]
  <2>1. Len(a) + k \in 1 .. Len(a) + Len(b) /\ ~(Len(a) + k <= Len(a)) /\ (Len(a) + k) - Len(a) = k
    BY <1>1
  <2>2. QED
    BY <1>2, <2>1, Zenon
<1>5. DOMAIN (a \o b) = 1 .. Len(a) + Len(b)
  BY <1>2
<1>6. QED
  BY <1>1, <1>2, <1>3, <1>4, <1>5 DEF Join

\* Where the messages of three joined runs are.
LEMMA ThreeRuns ==
  ASSUME NEW A \in Seq(Message), NEW B \in Seq(Message), NEW C \in Seq(Message)
  PROVE  /\ DOMAIN Join(A, Join(B, C)) = 1 .. Len(A) + Len(B) + Len(C)
         /\ \A k \in 1 .. Len(A) : Join(A, Join(B, C))[k] = A[k]
         /\ \A k \in 1 .. Len(B) : Join(A, Join(B, C))[Len(A) + k] = B[k]
         /\ \A k \in 1 .. Len(C) : Join(A, Join(B, C))[Len(A) + Len(B) + k] = C[k]
<1>1. PICK G \in Seq(Message) : G = Join(B, C)
  BY JoinType
<1>2. PICK F, a, b, c : F = Join(A, G) /\ a = Len(A) /\ b = Len(B) /\ c = Len(C)
  OBVIOUS
<1>3. /\ a \in Nat /\ b \in Nat /\ c \in Nat /\ Len(G) = b + c
      /\ \A k \in 1 .. b : G[k] = B[k]
      /\ \A k \in 1 .. c : G[b + k] = C[k]
  <2>1. /\ Len(A) \in Nat /\ Len(B) \in Nat /\ Len(C) \in Nat /\ Len(Join(B, C)) = Len(B) + Len(C)
        /\ \A k \in 1 .. Len(B) : Join(B, C)[k] = B[k]
        /\ \A k \in 1 .. Len(C) : Join(B, C)[Len(B) + k] = C[k]
    BY JoinAt
  <2>2. QED
    BY <1>1, <1>2, <2>1, Zenon
<1>4. /\ DOMAIN F = 1 .. a + (b + c)
      /\ \A k \in 1 .. a : F[k] = A[k]
      /\ \A k \in 1 .. b + c : F[a + k] = G[k]
  <2>1. /\ DOMAIN Join(A, G) = 1 .. Len(A) + Len(G)
        /\ \A k \in 1 .. Len(A) : Join(A, G)[k] = A[k]
        /\ \A k \in 1 .. Len(G) : Join(A, G)[Len(A) + k] = G[k]
    BY JoinAt
  <2>2. F = Join(A, G) /\ Len(A) = a /\ Len(G) = b + c
    BY <1>2, <1>3
  <2>3. QED
    BY <2>1, <2>2, Zenon
<1>5. a + (b + c) = a + b + c
  BY <1>3
<1>6. \A k \in 1 .. b : F[a + k] = B[k]
  BY <1>3, <1>4
<1>7. ASSUME NEW k \in 1 .. c PROVE F[a + b + k] = C[k]
  <2>1. b + k \in 1 .. b + c /\ a + (b + k) = a + b + k
    BY <1>3
  <2>2. QED
    BY <1>3, <1>4, <2>1, Zenon
<1>8. DOMAIN F = 1 .. a + b + c
  BY <1>4, <1>5, Zenon
<1>9. F = Join(A, Join(B, C))
  BY <1>1, <1>2, Zenon
<1>10. QED
  BY <1>2, <1>4, <1>6, <1>7, <1>8, <1>9, Zenon

(***************************************************************************)
(* Losing a run of messages leaves a chain over the levels that none of    *)
(* them was about.                                                         *)
(***************************************************************************)
LEMMA LoseRun ==
  ASSUME NEW A \in Seq(Message), NEW B \in Seq(Message), NEW C \in Seq(Message),
         NEW s, NEW U, NEW V, V \subseteq U, NEW lv, NEW level, NEW size,
         \A k \in DOMAIN B : B[k].side = s => Lev(B[k]) \notin V,
         Chain(Join(A, Join(B, C)), About(Join(A, Join(B, C)), s, U), U, lv, level, size)
  PROVE  Chain(Join(A, C), About(Join(A, C), s, V), V, lv, level, size)
<1>0. PICK F, a, b, c : F = Join(A, Join(B, C)) /\ a = Len(A) /\ b = Len(B) /\ c = Len(C)
  OBVIOUS
<1>1. /\ F = Join(A, Join(B, C)) /\ a = Len(A) /\ b = Len(B) /\ c = Len(C)
      /\ a \in Nat /\ b \in Nat /\ c \in Nat
      /\ DOMAIN F = 1 .. a + b + c
      /\ \A k \in 1 .. a : F[k] = A[k]
      /\ \A k \in 1 .. b : F[a + k] = B[k]
      /\ \A k \in 1 .. c : F[a + b + k] = C[k]
  <2>1. a \in Nat /\ b \in Nat /\ c \in Nat
    BY <1>0
  <2>2. /\ DOMAIN Join(A, Join(B, C)) = 1 .. Len(A) + Len(B) + Len(C)
        /\ \A k \in 1 .. Len(A) : Join(A, Join(B, C))[k] = A[k]
        /\ \A k \in 1 .. Len(B) : Join(A, Join(B, C))[Len(A) + k] = B[k]
        /\ \A k \in 1 .. Len(C) : Join(A, Join(B, C))[Len(A) + Len(B) + k] = C[k]
    BY ThreeRuns
  <2>3. QED
    BY <1>0, <2>1, <2>2, Zenon
<1>2. PICK G :
        /\ G = Join(A, C) /\ DOMAIN G = 1 .. a + c
        /\ \A k \in 1 .. a : G[k] = A[k]
        /\ \A k \in 1 .. c : G[a + k] = C[k]
  BY <1>1, JoinAt
<1>3. PICK R, Q, T :
        R = About(F, s, U) /\ T = About(F, s, V) /\ Q = About(G, s, V)
  OBVIOUS
<1>4. Chain(F, T, V, lv, level, size)
  <2>1. Chain(F, R, U, lv, level, size)
    BY <1>1, <1>3
  <2>2. R \subseteq 0 .. a + b + c /\ a + b + c \in Nat
    BY <1>1, <1>3 DEF About
  <2>3. \A k \in R : Lev(F[k]) \in U
    BY <1>3 DEF About
  <2>4. \A k : k \in T <=> k \in R /\ Lev(F[k]) \in V
    BY <1>3 DEF About
  <2>5. QED
    BY <2>1, <2>2, <2>3, <2>4, Shrink
<1>5. PICK phi : phi = [k \in Nat |-> IF k <= a THEN k ELSE k + b]
  OBVIOUS
<1>6. \A k \in 1 .. a + c : phi[k] \in 1 .. a + b + c /\ G[k] = F[phi[k]]
  <2> TAKE k \in 1 .. a + c
  <2>0. k \in Nat
    BY <1>1
  <2>1. CASE k <= a
    BY <1>1, <1>2, <1>5, <2>0, <2>1
  <2>2. CASE ~(k <= a)
    <3>0. k - a \in 1 .. c
      BY <1>1, <2>0, <2>2
    <3>1. PICK n \in 1 .. c : n = k - a
      BY <3>0
    <3>2. k = a + n /\ phi[k] = a + b + n
      <4>1. phi[k] = k + b
        BY <1>5, <2>0, <2>2, Zenon
      <4>2. a \in Nat /\ b \in Nat /\ n \in Int
        BY <1>1
      <4>3. QED
        BY <2>0, <3>1, <4>1, <4>2
    <3>3. G[a + n] = F[a + b + n]
      BY <1>1, <1>2
    <3>4. a + b + n \in 1 .. a + b + c
      BY <1>1
    <3>5. QED
      BY <3>2, <3>3, <3>4, Zenon
  <2>3. QED
    BY <2>1, <2>2
<1>7. \A k \in Q : phi[k] \in T /\ G[k] = F[phi[k]]
  <2> TAKE k \in Q
  <2>1. k \in 1 .. a + c /\ G[k].side = s /\ Lev(G[k]) \in V
    BY <1>2, <1>3 DEF About
  <2>2. phi[k] \in DOMAIN F /\ G[k] = F[phi[k]]
    BY <1>1, <1>6, <2>1
  <2>3. QED
    BY <1>3, <2>1, <2>2, Zenon DEF About
<1>8. \A r \in T : \E k \in Q : phi[k] = r
  <2> TAKE r \in T
  <2>1. r \in 1 .. a + b + c /\ r \in Nat /\ F[r].side = s /\ Lev(F[r]) \in V
    BY <1>1, <1>3 DEF About
  <2>2. ASSUME NEW k \in 1 .. a + c, phi[k] = r PROVE k \in Q
    <3>1. k \in DOMAIN G /\ G[k] = F[r]
      BY <1>2, <1>6, <2>2
    <3>2. QED
      BY <1>3, <2>1, <3>1, Zenon DEF About
  <2>3. CASE r <= a
    <3>1. r \in 1 .. a + c /\ phi[r] = r
      BY <1>1, <1>5, <2>1, <2>3
    <3>2. QED
      BY <2>2, <3>1
  <2>4. CASE a < r /\ r <= a + b
    <3>1. PICK n \in 1 .. b : r = a + n
      <4>1. r - a \in 1 .. b /\ r = a + (r - a)
        BY <1>1, <2>1, <2>4
      <4>2. QED
        BY <4>1
    <3>2. F[r] = B[n] /\ n \in DOMAIN B
      BY <1>1, <3>1
    <3>3. QED
      BY <2>1, <3>2
  <2>5. CASE a + b < r
    <3>1. r - b \in 1 .. a + c /\ phi[r - b] = r
      BY <1>1, <1>5, <2>1, <2>5
    <3>2. QED
      BY <2>2, <3>1
  <2>6. QED
    BY <1>1, <2>1, <2>3, <2>4, <2>5
<1>9. T \subseteq Nat /\ Q \subseteq Nat
  BY <1>1, <1>2, <1>3 DEF About
<1>10. ASSUME NEW j \in Q, NEW k \in Q, j < k PROVE phi[j] < phi[k]
  <2>1. j \in Nat /\ k \in Nat
    BY <1>9
  <2>2. QED
    BY <1>1, <1>5, <1>10, <2>1
<1>11. Places(phi, F, T, G, Q)
  BY <1>7, <1>8, <1>9, <1>10 DEF Places
<1>12. Chain(G, Q, V, lv, level, size)
  BY <1>4, <1>11, Transport
<1>13. QED
  BY <1>2, <1>3, <1>12

(***************************************************************************)
(* Consuming the first message leaves a chain: either it is about one of   *)
(* the levels and does what the chain expects, or it leaves them alone.    *)
(***************************************************************************)
LEMMA TakeFirst ==
  ASSUME NEW m \in Message, NEW G \in Seq(Message), NEW s, NEW U,
         NEW lv, NEW lw, NEW level, NEW size,
         \A l \in U : m.side # s \/ l # Lev(m) => lw[l] = lv[l],
         m.side = s /\ m.type = "delete" => lw[Lev(m)] = 0,
         m.side = s /\ m.type = "add" /\ m.size # 0 => lw[Lev(m)] = Accumulate(lv[Lev(m)], m.size),
         Chain(Join(<< m >>, G), About(Join(<< m >>, G), s, U), U, lv, level, size)
  PROVE  Chain(G, About(G, s, U), U, lw, level, size)
<1>1. PICK F, N :
        /\ F = Join(<< m >>, G) /\ N \in Nat /\ DOMAIN G = 1 .. N /\ DOMAIN F = 1 .. 1 + N
        /\ F[1] = m /\ \A k \in 1 .. N : F[1 + k] = G[k]
  <2>1. << m >> \in Seq(Message) /\ Len(<< m >>) = 1 /\ << m >>[1] = m /\ 1 \in 1 .. 1
    OBVIOUS
  <2>2. /\ Len(G) \in Nat /\ DOMAIN G = 1 .. Len(G)
        /\ DOMAIN Join(<< m >>, G) = 1 .. Len(<< m >>) + Len(G)
        /\ \A k \in 1 .. Len(<< m >>) : Join(<< m >>, G)[k] = << m >>[k]
        /\ \A k \in 1 .. Len(G) : Join(<< m >>, G)[Len(<< m >>) + k] = G[k]
    BY <2>1, JoinAt
  <2>3. PICK F, N : F = Join(<< m >>, G) /\ N = Len(G)
    OBVIOUS
  <2>4. /\ N \in Nat /\ DOMAIN G = 1 .. N /\ DOMAIN F = 1 .. 1 + N
        /\ \A k \in 1 .. 1 : F[k] = << m >>[k]
        /\ \A k \in 1 .. N : F[1 + k] = G[k]
    BY <2>1, <2>2, <2>3, Zenon
  <2>5. F[1] = m
    BY <2>1, <2>4, Zenon
  <2>6. QED
    BY <2>3, <2>4, <2>5, Zenon
<1>2. PICK R, T, Q :
        R = About(F, s, U) /\ T = { k \in R : k # 1 } /\ Q = About(G, s, U)
  OBVIOUS
<1>3. Chain(F, R, U, lv, level, size)
  BY <1>1, <1>2
<1>4. /\ R \subseteq Nat /\ T \subseteq Nat /\ Q \subseteq Nat
      /\ \A k \in R : 1 <= k
  BY <1>1, <1>2 DEF About
<1>5. Chain(F, T, U, lw, level, size)
  <2>1. CASE 1 \in R
    <3>1. First(R, 1)
      BY <1>4, <2>1 DEF First
    <3>2. m.side = s /\ Lev(m) \in U
      BY <1>1, <1>2, <2>1 DEF About
    <3>3. m.type = "delete" \/ (m.type = "add" /\ m.size # 0)
      BY <1>1, <1>3, <2>1 DEF Chain, Paired
    <3>4. m.size \in Size
      BY DEF Message
    <3>5. \A k : k \in T <=> k \in R /\ k # 1
      BY <1>2
    <3>6. PICK r : r = 1
      OBVIOUS
    <3>7. F[r] = m /\ r \in R /\ First(R, r) /\ \A k : k \in T <=> k \in R /\ k # r
      BY <1>1, <2>1, <3>1, <3>5, <3>6, Zenon
    <3>8. /\ \A l \in U : l # Lev(F[r]) => lw[l] = lv[l]
          /\ Lev(F[r]) \in U /\ F[r].size \in Size
          /\ F[r].type = "delete" => lw[Lev(F[r])] = 0
          /\ F[r].type = "add" => lw[Lev(F[r])] = Accumulate(lv[Lev(F[r])], F[r].size)
      <4>1. /\ \A l \in U : l # Lev(m) => lw[l] = lv[l]
            /\ m.type = "delete" => lw[Lev(m)] = 0
            /\ m.type = "add" => lw[Lev(m)] = Accumulate(lv[Lev(m)], m.size)
        BY <3>2, <3>3
      <4>2. QED
        BY <3>2, <3>4, <3>7, <4>1, Zenon
    <3>9. QED
      BY <1>3, <1>4, <3>7, <3>8, ApplyFirst
  <2>2. CASE 1 \notin R
    <3>1. T = R
      BY <1>2, <2>2
    <3>2. m.side # s \/ Lev(m) \notin U
      BY <1>1, <1>2, <2>2 DEF About
    <3>3. \A l \in U : lw[l] = lv[l]
      BY <3>2
    <3>4. PICK phi : phi = [k \in Nat |-> k]
      OBVIOUS
    <3>5. Places(phi, F, R, F, R)
      BY <1>4, <3>4 DEF Places
    <3>6. QED
      BY <1>3, <3>1, <3>3, <3>5, Transport
  <2>3. QED
    BY <2>1, <2>2
<1>6. PICK phi : phi = [k \in Nat |-> 1 + k]
  OBVIOUS
<1>7. Places(phi, F, T, G, Q)
  <2>1. \A k \in Q : phi[k] \in T /\ G[k] = F[phi[k]]
    <3> TAKE k \in Q
    <3>1. k \in 1 .. N /\ k \in Nat /\ G[k].side = s /\ Lev(G[k]) \in U
      BY <1>1, <1>2 DEF About
    <3>2. phi[k] = 1 + k /\ F[1 + k] = G[k] /\ 1 + k \in 1 .. 1 + N /\ 1 + k # 1
      <4>1. phi[k] = 1 + k
        BY <1>6, <3>1, Zenon
      <4>2. F[1 + k] = G[k]
        BY <1>1, <3>1, Zenon
      <4>3. 1 + k \in 1 .. 1 + N /\ 1 + k # 1
        BY <1>1, <3>1
      <4>4. QED
        BY <4>1, <4>2, <4>3
    <3>a. PICK r : r = 1 + k
      OBVIOUS
    <3>b. r \in DOMAIN F /\ F[r].side = s /\ Lev(F[r]) \in U
      BY <1>1, <3>1, <3>2, <3>a, Zenon
    <3>3. 1 + k \in R
      BY <1>2, <3>a, <3>b DEF About
    <3>4. 1 + k \in T
      BY <1>2, <3>2, <3>3
    <3>5. QED
      BY <3>2, <3>4, Zenon
  <2>2. \A r \in T : \E k \in Q : phi[k] = r
    <3> TAKE r \in T
    <3>1. r \in 1 .. 1 + N /\ r # 1 /\ F[r].side = s /\ Lev(F[r]) \in U
      BY <1>1, <1>2 DEF About
    <3>2. PICK k \in 1 .. N : r = 1 + k
      <4>1. r - 1 \in 1 .. N /\ r = 1 + (r - 1)
        BY <1>1, <3>1
      <4>2. QED
        BY <4>1
    <3>3. F[r] = G[k]
      BY <1>1, <3>2
    <3>4. k \in Q
      BY <1>1, <1>2, <3>1, <3>3, Zenon DEF About
    <3>5. phi[k] = r
      BY <1>4, <1>6, <3>2, <3>4
    <3>6. QED
      BY <3>4, <3>5
  <2>3. ASSUME NEW j \in Q, NEW k \in Q, j < k PROVE phi[j] < phi[k]
    <3>1. j \in Nat /\ k \in Nat
      BY <1>4
    <3>2. QED
      BY <1>6, <2>3, <3>1
  <2>4. QED
    BY <1>4, <2>1, <2>2, <2>3 DEF Places
<1>8. Chain(G, Q, U, lw, level, size)
  BY <1>5, <1>7, Transport
<1>9. QED
  BY <1>2, <1>8

(***************************************************************************)
(* A requote of one side extends its chain and leaves the other's alone.   *)
(***************************************************************************)
LEMMA AddRequote ==
  ASSUME NEW F \in Seq(Message), NEW m1 \in Message, NEW m2 \in Message, NEW s, NEW U, NEW lv,
         NEW level, NEW size, NEW new, NEW newSize,
         \/ /\ m1.side # s /\ m2.side # s /\ new = level /\ newSize = size
         \/ /\ m1.side = s /\ m1.type = "delete" /\ Lev(m1) = level
            /\ m2.side = s /\ m2.type = "add" /\ Lev(m2) = new
            /\ m2.size = newSize /\ newSize # 0,
         Chain(F, About(F, s, U), U, lv, level, size)
  PROVE  Chain(Join(F, << m1, m2 >>), About(Join(F, << m1, m2 >>), s, U), U, lv, new, newSize)
<1>1. PICK G, N :
        /\ G = Join(F, << m1, m2 >>) /\ N \in Nat /\ DOMAIN F = 1 .. N /\ DOMAIN G = 1 .. N + 2
        /\ (\A k \in 1 .. N : G[k] = F[k]) /\ G[N + 1] = m1 /\ G[N + 2] = m2
  <2>1. /\ << m1, m2 >> \in Seq(Message) /\ Len(<< m1, m2 >>) = 2
        /\ << m1, m2 >>[1] = m1 /\ << m1, m2 >>[2] = m2 /\ 1 \in 1 .. 2 /\ 2 \in 1 .. 2
    OBVIOUS
  <2>2. PICK e \in Seq(Message) : e = << m1, m2 >>
    BY <2>1
  <2>3. /\ Len(F) \in Nat /\ DOMAIN F = 1 .. Len(F)
        /\ DOMAIN Join(F, e) = 1 .. Len(F) + Len(e)
        /\ \A k \in 1 .. Len(F) : Join(F, e)[k] = F[k]
        /\ \A k \in 1 .. Len(e) : Join(F, e)[Len(F) + k] = e[k]
    BY JoinAt
  <2>4. Len(e) = 2 /\ e[1] = m1 /\ e[2] = m2
    BY <2>1, <2>2, Zenon
  <2>5. PICK G, N : G = Join(F, << m1, m2 >>) /\ G = Join(F, e) /\ N = Len(F)
    BY <2>2, Zenon
  <2>6. /\ N \in Nat /\ DOMAIN F = 1 .. N /\ DOMAIN G = 1 .. N + 2
        /\ \A k \in 1 .. N : G[k] = F[k]
        /\ \A k \in 1 .. 2 : G[N + k] = e[k]
    BY <2>3, <2>4, <2>5, Zenon
  <2>7. G[N + 1] = m1 /\ G[N + 2] = m2
    BY <2>1, <2>4, <2>6, Zenon
  <2>8. QED
    BY <2>5, <2>6, <2>7, Zenon
<1>2. PICK R, Q : R = About(F, s, U) /\ Q = About(G, s, U)
  OBVIOUS
<1>3. R \subseteq 1 .. N /\ R \subseteq Nat /\ (\A k \in R : k \in 1 .. N /\ F[k] = G[k] /\ Lev(F[k]) \in U)
  BY <1>1, <1>2 DEF About
<1>4. Chain(G, R, U, lv, level, size)
  <2>1. PICK phi : phi = [k \in Nat |-> k]
    OBVIOUS
  <2>2. Places(phi, F, R, G, R)
    <3>1. \A k \in R : phi[k] = k
      BY <1>3, <2>1
    <3>2. \A k \in R : phi[k] \in R /\ G[k] = F[phi[k]]
      BY <1>3, <3>1, Zenon
    <3>3. \A j, k \in R : j < k => phi[j] < phi[k]
      BY <3>1
    <3>4. QED
      BY <1>3, <3>1, <3>2, <3>3, Zenon DEF Places
  <2>3. QED
    BY <1>2, <2>2, Transport
<1>5. ASSUME NEW k
      PROVE  k \in Q <=> \/ k \in R
                         \/ k = N + 1 /\ m1.side = s /\ Lev(m1) \in U
                         \/ k = N + 2 /\ m2.side = s /\ Lev(m2) \in U
  <2>0. N + 1 \in 1 .. N + 2 /\ N + 2 \in 1 .. N + 2 /\ N + 1 \notin 1 .. N /\ N + 2 \notin 1 .. N
    BY <1>1
  <2>1. k \in 1 .. N + 2 <=> k \in 1 .. N \/ k = N + 1 \/ k = N + 2
    BY <1>1
  <2>2. CASE k \in 1 .. N
    <3>1. k # N + 1 /\ k # N + 2 /\ k \in DOMAIN F /\ k \in DOMAIN G /\ G[k] = F[k]
      BY <1>1, <2>0, <2>1, <2>2, Zenon
    <3>2. QED
      BY <1>2, <3>1 DEF About
  <2>3. CASE k = N + 1
    <3>1. k \in DOMAIN G /\ G[k] = m1 /\ k \notin R /\ k # N + 2
      BY <1>1, <1>3, <2>0, <2>3
    <3>2. QED
      BY <1>2, <2>3, <3>1 DEF About
  <2>4. CASE k = N + 2
    <3>1. k \in DOMAIN G /\ G[k] = m2 /\ k \notin R /\ k # N + 1
      BY <1>1, <1>3, <2>0, <2>4
    <3>2. QED
      BY <1>2, <2>4, <3>1 DEF About
  <2>5. CASE k \notin 1 .. N + 2
    <3>1. k \notin 1 .. N /\ k # N + 1 /\ k # N + 2
      BY <2>1, <2>5
    <3>2. k \notin R /\ k \notin Q
      BY <1>1, <1>2, <2>5, <3>1 DEF About
    <3>3. QED
      BY <3>1, <3>2
  <2>6. QED
    BY <2>1, <2>2, <2>3, <2>4, <2>5
<1>6. CASE m1.side # s /\ m2.side # s /\ new = level /\ newSize = size
  <2>1. \A k : k \in Q <=> k \in R
    BY <1>5, <1>6
  <2>2. Q = R
    BY <2>1
  <2>3. QED
    BY <1>1, <1>2, <1>4, <1>6, <2>2, Zenon
<1>7. CASE /\ m1.side = s /\ m1.type = "delete" /\ Lev(m1) = level
           /\ m2.side = s /\ m2.type = "add" /\ Lev(m2) = new
           /\ m2.size = newSize /\ newSize # 0
  <2>1. \A k : k \in Q <=> \/ k \in R
                           \/ k = N + 1 /\ level \in U
                           \/ k = N + 2 /\ new \in U
    BY <1>5, <1>7
  <2>2. /\ G[N + 1].type = "delete" /\ Lev(G[N + 1]) = level
        /\ G[N + 2].type = "add" /\ Lev(G[N + 2]) = new /\ G[N + 2].size = newSize
    BY <1>1, <1>7, Zenon
  <2>3. \A k \in R : Lev(G[k]) \in U
    BY <1>3, Zenon
  <2>4. Chain(G, Q, U, lv, new, newSize)
    BY <1>1, <1>3, <1>4, <1>7, <2>1, <2>2, <2>3, Extend
  <2>5. QED
    BY <1>1, <1>2, <2>4, Zenon
<1>8. QED
  BY <1>6, <1>7

(***************************************************************************)
(* A message changes no more than the level it is about, on its own side.  *)
(***************************************************************************)
LEMMA ApplyLocal ==
  ASSUME BookTypeOK, NEW m \in Message, Lev(m) \in Index, apply(m), NEW s \in {"B", "S"}
  PROVE  /\ \A l \in Index : m.side # s \/ l # Lev(m) => SideLevels(s)'[l] = SideLevels(s)[l]
         /\ m.side = s /\ m.type = "delete" => SideLevels(s)'[Lev(m)] = 0
         /\ m.side = s /\ m.type = "add" /\ m.size # 0 =>
              SideLevels(s)'[Lev(m)] = Accumulate(SideLevels(s)[Lev(m)], m.size)
<1>0. m.side \in {"B", "S"} /\ m.type \in MsgType
  BY DEF Message
<1>1. PICK i : i = Lev(m) /\ i \in Index /\ i = to_index(m.price)
  BY DEF Lev
<1>2. PICK b, a : /\ b = bid' /\ a = ask'
                  /\ bid \in [Index -> Size] /\ ask \in [Index -> Size]
  BY DEF BookTypeOK
<1>3. \E v : SetLevel(m.side = "B", i, v)
      \/ UNCHANGED << bid, ask >>
  BY <1>1 DEF apply, OutOfRange, Add, Reduce, Delete, Ignored, bookVars
<1>4. m.type = "delete" => SetLevel(m.side = "B", i, 0)
  BY <1>0, <1>1 DEF apply, OutOfRange, Add, Reduce, Delete, Ignored
<1>5. m.type = "add" /\ m.size # 0 =>
        SetLevel(m.side = "B", i, Accumulate(LevelAt(m.side = "B", i), m.size))
  BY <1>0, <1>1 DEF apply, OutOfRange, Add, Reduce, Delete, Ignored
<1>6. ASSUME NEW v, SetLevel(m.side = "B", i, v)
      PROVE  /\ \A l \in Index : m.side # s \/ l # i => SideLevels(s)'[l] = SideLevels(s)[l]
             /\ m.side = s => SideLevels(s)'[i] = v
  BY <1>0, <1>1, <1>2, <1>6 DEF SetLevel, SideLevels
<1>7. \A l \in Index : m.side # s \/ l # i => SideLevels(s)'[l] = SideLevels(s)[l]
  BY <1>3, <1>6 DEF SideLevels
<1>8. m.side = s /\ m.type = "delete" => SideLevels(s)'[i] = 0
  BY <1>4, <1>6
<1>9. m.side = s /\ m.type = "add" /\ m.size # 0 =>
        SideLevels(s)'[i] = Accumulate(SideLevels(s)[i], m.size)
  <2>1. m.side = s => LevelAt(m.side = "B", i) = SideLevels(s)[i]
    BY <1>0 DEF LevelAt, SideLevels
  <2>2. QED
    BY <1>5, <1>6, <2>1
<1>10. QED
  BY <1>1, <1>7, <1>8, <1>9, Zenon
-----------------------------------------------------------------------------
(* The inductive invariant                                                 *)

\* The levels of a side that no message of T was about.
Spared(T, s) == Index \ {to_index(l[2]) : l \in {t \in T : t[1] = s}}

LEMMA SoundIsSpared == \A s : Sound(s) = Spared(tainted, s)
  BY DEF Sound, Spared

LEMMA SparedAfter ==
  ASSUME NEW T, NEW B \in Seq(Message), NEW s
  PROVE  /\ Spared(T \cup Levels(B), s) \subseteq Spared(T, s)
         /\ \A k \in DOMAIN B : B[k].side = s => Lev(B[k]) \notin Spared(T \cup Levels(B), s)
<1>1. Spared(T \cup Levels(B), s) \subseteq Spared(T, s)
  BY DEF Spared
<1>2. ASSUME NEW k \in DOMAIN B, B[k].side = s
      PROVE  Lev(B[k]) \notin Spared(T \cup Levels(B), s)
  <2>1. << s, B[k].price >> \in T \cup Levels(B)
    BY <1>2 DEF Levels
  <2>2. PICK l \in {t \in T \cup Levels(B) : t[1] = s} : to_index(l[2]) = to_index(B[k].price)
    BY <2>1
  <2>3. QED
    BY <2>2 DEF Lev, Spared
<1>3. QED
  BY <1>1, <1>2

LEMMA InitChained == Init => Chained
<1> SUFFICES ASSUME Init, NEW s \in {"B", "S"}
             PROVE  Chain(InFlight, About(InFlight, s, Sound(s)), Sound(s),
                          SideLevels(s), QuotedLevel(s), QuotedSize(s))
  BY DEF Chained
<1>t. InWindow
  BY InitInWindow
<1>1. /\ toEmit \in Seq(Message) /\ InFlight = toEmit
      /\ toEmit = << Msg("add", "B", best_bid, bid_sz), Msg("add", "S", best_ask, ask_sz) >>
  <2>1. toEmit \in Seq(Message)
    BY <1>t DEF InWindow, TypeOK
  <2>2. InFlight = Under(<< >>, << >>, << >>, << >>, toEmit)
    BY InFlightIs DEF Init
  <2>3. << >> \in Seq(Message) /\ Join(<< >>, toEmit) = toEmit
    BY <2>1, JoinEmpty
  <2>4. InFlight = toEmit
    BY <2>2, <2>3, FlatEmpty, Zenon DEF Under
  <2>5. QED
    BY <2>1, <2>4 DEF Init
<1>2. PICK F, m1, m2 :
        /\ F = InFlight /\ m1 = Msg("add", "B", best_bid, bid_sz)
        /\ m2 = Msg("add", "S", best_ask, ask_sz) /\ F = << m1, m2 >>
  BY <1>1
<1>3. /\ DOMAIN F = 1 .. 2 /\ F[1] = m1 /\ F[2] = m2
      /\ m1.side = "B" /\ m2.side = "S" /\ m1.type = "add" /\ m2.type = "add"
      /\ Lev(m1) = QuotedLevel("B") /\ m1.size = QuotedSize("B")
      /\ Lev(m2) = QuotedLevel("S") /\ m2.size = QuotedSize("S")
  BY <1>2 DEF Msg, Lev, QuotedLevel, QuotedSize
<1>4. QuotedSize(s) # 0
  BY <1>t, FeedAssumption DEF InWindow, TypeOK, QuotedSize
<1>5. QuotedLevel(s) \in Sound(s)
  <2>1. QuotedLevel(s) \in Index
    BY <1>t, PriceInWindow DEF InWindow, TypeOK, QuotedLevel
  <2>2. Sound(s) = Index
    BY DEF Init, Sound
  <2>3. QED
    BY <2>1, <2>2
<1>6. PICK i : /\ i = (IF s = "B" THEN 1 ELSE 2)
  OBVIOUS
<1>7. PICK R, U : R = About(F, s, U) /\ U = Sound(s)
  OBVIOUS
<1>8. /\ F[i].type = "add" /\ F[i].size = QuotedSize(s) /\ Lev(F[i]) = QuotedLevel(s)
      /\ i \in 1 .. 2 /\ F[i].side = s
  BY <1>3, <1>6
<1>9. R = {i}
  <2>1. \A k \in 1 .. 2 : F[k].side = s <=> k = i
    BY <1>3, <1>6
  <2>2. i \in R
    BY <1>3, <1>5, <1>7, <1>8 DEF About
  <2>3. \A k \in R : k = i
    BY <1>3, <1>7, <2>1 DEF About
  <2>4. QED
    BY <2>2, <2>3
<1>10. \A l \in U : SideLevels(s)[l] = 0
  BY <1>7 DEF Init, BookInit, SideLevels, Sound
<1>11. Chain(F, R, U, SideLevels(s), QuotedLevel(s), QuotedSize(s))
  <2>1. Paired(F, R)
    <3>1. ~ (i < i)
      BY <1>8
    <3>2. QED
      BY <1>4, <1>8, <1>9, <3>1 DEF Paired, Neighbours
  <2>2. Expected(F, R, U, SideLevels(s))
    BY <1>10 DEF Expected
  <2>3. LeadsTo(F, R, U, QuotedLevel(s), QuotedSize(s))
    BY <1>8, <1>9 DEF LeadsTo
  <2>4. Shows(R, U, SideLevels(s), QuotedLevel(s), QuotedSize(s))
    BY <1>9 DEF Shows
  <2>5. QED
    BY <2>1, <2>2, <2>3, <2>4 DEF Chain
<1>12. QED
  BY <1>2, <1>7, <1>11, Zenon

LEMMA CarriedChained ==
  ASSUME IInv, ExchOpen \/ Emit \/ ExchStop \/ FeedThread
  PROVE  Chained'
<1> SUFFICES ASSUME NEW s \in {"B", "S"}
             PROVE  Chain(InFlight, About(InFlight, s, Sound(s)), Sound(s),
                          SideLevels(s), QuotedLevel(s), QuotedSize(s))'
  BY DEF Chained
<1>1. PICK A, B, C \in Seq(Message) : Carries(A, B, C)
  BY CarriedOn DEF IInv
<1>2. UNCHANGED << bid, ask, best_bid, best_ask, bid_sz, ask_sz >>
  BY DEF ExchOpen, Emit, ExchStop, FeedThread, FeedReceive, FeedPush, FeedDrop, quoteVars, bookVars
<1>3. PICK U, V, lv, level, size :
        /\ U = Sound(s) /\ V = Sound(s)' /\ lv = SideLevels(s)
        /\ level = QuotedLevel(s) /\ size = QuotedSize(s)
  OBVIOUS
<1>4. lv = SideLevels(s)' /\ level = QuotedLevel(s)' /\ size = QuotedSize(s)'
  BY <1>2, <1>3 DEF SideLevels, QuotedLevel, QuotedSize
<1>5. V \subseteq U /\ \A k \in DOMAIN B : B[k].side = s => Lev(B[k]) \notin V
  <2>1. U = Spared(tainted, s)
    BY <1>3, SoundIsSpared
  <2>2. V = Spared(tainted \cup Levels(B), s)
    <3>1. V = Spared(tainted', s)
      BY <1>3 DEF Sound, Spared
    <3>2. QED
      BY <1>1, <3>1 DEF Carries
  <2>3. PICK T : T = tainted
    OBVIOUS
  <2>4. QED
    BY <2>1, <2>2, <2>3, SparedAfter
<1>6. PICK F, G : F = InFlight /\ G = InFlight' /\ F = Join(A, Join(B, C)) /\ G = Join(A, C)
  BY <1>1 DEF Carries
<1>7. Chain(F, About(F, s, U), U, lv, level, size)
  BY <1>3, <1>6 DEF IInv, Chained
<1>8. Chain(G, About(G, s, V), V, lv, level, size)
  BY <1>5, <1>6, <1>7, LoseRun
<1>9. QED
  BY <1>3, <1>4, <1>6, <1>8

LEMMA ConsumeChained ==
  ASSUME IInv, Consume
  PROVE  Chained'
<1> SUFFICES ASSUME NEW s \in {"B", "S"}
             PROVE  Chain(InFlight, About(InFlight, s, Sound(s)), Sound(s),
                          SideLevels(s), QuotedLevel(s), QuotedSize(s))'
  BY DEF Chained
<1>t. TypeOK /\ BookTypeOK /\ Chained
  BY DEF IInv, TypeOK
<1>b. /\ feed_q \in Seq(Message)
      /\ Join(rx, Join(Flat(socket), Join(dgram, toEmit))) \in Seq(Message)
  BY <1>t, BuffersType
<1>1. PICK X \in Seq(Message) :
        X = Join(rx, Join(Flat(socket), Join(dgram, toEmit)))
  BY <1>b, Zenon
<1>2. /\ feed_q # << >> /\ feed_q' = Tail(feed_q) /\ apply(Head(feed_q))
      /\ UNCHANGED << rx, socket, dgram, toEmit, tainted, best_bid, best_ask, bid_sz, ask_sz >>
  BY DEF Consume, quoteVars
<1>3. InFlight = Join(feed_q, X) /\ InFlight' = Join(Tail(feed_q), X)
  <2>1. InFlight = Join(feed_q, X)
    BY <1>1, InFlightIs, Zenon DEF Under
  <2>2. InFlight' = Join(feed_q', Join(rx', Join(Flat(socket'), Join(dgram', toEmit'))))
    BY DEF InFlight, Join
  <2>3. QED
    BY <1>1, <1>2, <2>1, <2>2, Zenon
<1>4. PICK m \in Message, q \in Seq(Message) : m = Head(feed_q) /\ q = Tail(feed_q)
  BY <1>b, <1>2, HeadTailProperties
<1>5. PICK h \in Seq(Message) : h = << m >> /\ feed_q = Join(h, q)
  BY <1>b, <1>2, <1>4, MoveOne
<1>6. PICK G \in Seq(Message) : G = Join(q, X)
  BY JoinType
<1>7. InFlight' = G /\ InFlight = Join(<< m >>, G)
  <2>1. Join(Join(h, q), X) = Join(h, Join(q, X))
    BY JoinAssociative
  <2>2. QED
    BY <1>3, <1>4, <1>5, <1>6, <2>1, Zenon
<1>8. PICK U, lv, lw, level, size :
        /\ U = Sound(s) /\ lv = SideLevels(s) /\ lw = SideLevels(s)'
        /\ level = QuotedLevel(s) /\ size = QuotedSize(s)
  OBVIOUS
<1>9. U = Sound(s)' /\ level = QuotedLevel(s)' /\ size = QuotedSize(s)' /\ U \subseteq Index
  BY <1>2, <1>8 DEF Sound, QuotedLevel, QuotedSize
<1>10. apply(m) /\ Lev(m) \in Index
  BY <1>2, <1>4, PriceInWindow DEF Lev, Message
<1>11. /\ \A l \in Index : m.side # s \/ l # Lev(m) => lw[l] = lv[l]
       /\ m.side = s /\ m.type = "delete" => lw[Lev(m)] = 0
       /\ m.side = s /\ m.type = "add" /\ m.size # 0 =>
            lw[Lev(m)] = Accumulate(lv[Lev(m)], m.size)
  <2>1. /\ \A l \in Index : m.side # s \/ l # Lev(m) => SideLevels(s)'[l] = SideLevels(s)[l]
        /\ m.side = s /\ m.type = "delete" => SideLevels(s)'[Lev(m)] = 0
        /\ m.side = s /\ m.type = "add" /\ m.size # 0 =>
             SideLevels(s)'[Lev(m)] = Accumulate(SideLevels(s)[Lev(m)], m.size)
    BY <1>t, <1>10, ApplyLocal
  <2>2. QED
    BY <1>8, <2>1, Zenon
<1>12. \A l \in U : m.side # s \/ l # Lev(m) => lw[l] = lv[l]
  BY <1>9, <1>11
<1>13. Chain(Join(<< m >>, G), About(Join(<< m >>, G), s, U), U, lv, level, size)
  <2>1. Chain(InFlight, About(InFlight, s, U), U, lv, level, size)
    BY <1>t, <1>8 DEF Chained
  <2>2. QED
    BY <1>7, <2>1, Zenon
<1>14. Chain(G, About(G, s, U), U, lw, level, size)
  BY <1>11, <1>12, <1>13, TakeFirst
<1>15. QED
  BY <1>7, <1>8, <1>9, <1>14

LEMMA RequoteChained ==
  ASSUME IInv, NEW move \in -1 .. 1, NEW spread \in {-Tick, Tick}, NEW size \in QuoteSize,
         ExchStep(move, spread, size)
  PROVE  Chained'
<1> SUFFICES ASSUME NEW s \in {"B", "S"}
             PROVE  Chain(InFlight, About(InFlight, s, Sound(s)), Sound(s),
                          SideLevels(s), QuotedLevel(s), QuotedSize(s))'
  BY DEF Chained
<1>t. TypeOK /\ TypeOK' /\ Chained
  <2>1. InWindow'
    BY StepInWindow DEF IInv, InWindow, Next
  <2>2. QED
    BY <2>1 DEF IInv, InWindow
<1>b. /\ feed_q \in Seq(Message) /\ rx \in Seq(Message) /\ dgram \in Seq(Message)
      /\ Flat(socket) \in Seq(Message) /\ InFlight \in Seq(Message)
  BY <1>t, BuffersType
<1>1. /\ toEmit = << >> /\ UNCHANGED << feed_q, rx, socket, dgram, tainted, bid, ask >>
  BY DEF ExchStep, bookVars
<1>p. PICK r, old, oldSize, new :
        /\ r \in {"B", "S"} /\ old \in Price /\ oldSize \in QuoteSize /\ new \in Price
        /\ toEmit' = Requote(r, old, oldSize, new, size)
        /\ QuotedLevel(r) = to_index(old)
        /\ QuotedLevel(r)' = to_index(new) /\ QuotedSize(r)' = size
        /\ \A o \in {"B", "S"} : o # r =>
             QuotedLevel(o)' = QuotedLevel(o) /\ QuotedSize(o)' = QuotedSize(o)
  <2>1. /\ best_bid \in Price /\ best_ask \in Price /\ best_bid' \in Price /\ best_ask' \in Price
        /\ bid_sz \in QuoteSize /\ ask_sz \in QuoteSize
    BY <1>t DEF TypeOK
  <2>2. CASE /\ toEmit' = Requote("B", best_bid, bid_sz, best_bid', size) /\ bid_sz' = size
             /\ UNCHANGED << best_ask, ask_sz >>
    BY <2>1, <2>2 DEF QuotedLevel, QuotedSize
  <2>3. CASE /\ toEmit' = Requote("S", best_ask, ask_sz, best_ask', size) /\ ask_sz' = size
             /\ UNCHANGED << best_bid, bid_sz >>
    BY <2>1, <2>3 DEF QuotedLevel, QuotedSize
  <2>4. QED
    BY <2>2, <2>3 DEF ExchStep
<1>2. PICK m1 \in Message, m2 \in Message :
        /\ m1 = Msg("delete", r, old, oldSize) /\ m2 = Msg("add", r, new, size)
        /\ toEmit' = << m1, m2 >>
  BY <1>p, MsgIsMessage DEF MsgType, Requote
<1>3. PICK e \in Seq(Message) : e = << m1, m2 >>
  <2>1. toEmit' \in Seq(Message)
    BY <1>t DEF TypeOK
  <2>2. QED
    BY <1>2, <2>1
<1>4. InFlight' = Join(InFlight, e)
  <2>1. InFlight = Join(feed_q, Join(rx, Join(Flat(socket), dgram)))
    <3>1. Join(dgram, << >>) = dgram
      BY <1>b, JoinEmpty
    <3>2. InFlight = Join(feed_q, Join(rx, Join(Flat(socket), Join(dgram, toEmit))))
      BY InFlightIs, Zenon DEF Under
    <3>3. QED
      BY <1>1, <3>1, <3>2, Zenon
  <2>2. InFlight' = Join(feed_q', Join(rx', Join(Flat(socket'), Join(dgram', toEmit'))))
    BY DEF InFlight, Join
  <2>3. InFlight' = Join(feed_q, Join(rx, Join(Flat(socket), Join(dgram, e))))
    BY <1>1, <1>2, <1>3, <2>2, Zenon
  <2>4. PICK a, b, c, d \in Seq(Message) : a = feed_q /\ b = rx /\ c = Flat(socket) /\ d = dgram
    BY <1>b, Zenon
  <2>5. PICK g \in Seq(Message) : g = Join(c, d)
    BY JoinType
  <2>6. Join(Join(a, Join(b, g)), e) = Join(a, Join(b, Join(g, e)))
    BY Regroup
  <2>7. Join(Join(c, d), e) = Join(c, Join(d, e))
    BY JoinAssociative
  <2>8. QED
    BY <2>1, <2>3, <2>4, <2>5, <2>6, <2>7, Zenon
<1>5. PICK F \in Seq(Message) : F = InFlight
  BY <1>b, Zenon
<1>6. PICK U, lv, level, sz, lnew, snew :
        /\ U = Sound(s) /\ lv = SideLevels(s) /\ level = QuotedLevel(s) /\ sz = QuotedSize(s)
        /\ lnew = QuotedLevel(s)' /\ snew = QuotedSize(s)'
  OBVIOUS
<1>7. U = Sound(s)' /\ lv = SideLevels(s)'
  BY <1>1, <1>6 DEF Sound, SideLevels
<1>8. \/ m1.side # s /\ m2.side # s /\ lnew = level /\ snew = sz
      \/ /\ m1.side = s /\ m1.type = "delete" /\ Lev(m1) = level
         /\ m2.side = s /\ m2.type = "add" /\ Lev(m2) = lnew
         /\ m2.size = snew /\ snew # 0
  <2>1. /\ m1.side = r /\ m2.side = r /\ m1.type = "delete" /\ m2.type = "add"
        /\ Lev(m1) = to_index(old) /\ Lev(m2) = to_index(new) /\ m2.size = size
    BY <1>2 DEF Msg, Lev
  <2>2. size # 0
    BY FeedAssumption
  <2>3. CASE s = r
    BY <1>p, <1>6, <2>1, <2>2, <2>3, Zenon
  <2>4. CASE s # r
    BY <1>p, <1>6, <2>1, <2>4, Zenon
  <2>5. QED
    BY <2>3, <2>4
<1>9. Chain(F, About(F, s, U), U, lv, level, sz)
  BY <1>t, <1>5, <1>6 DEF Chained
<1>10. Chain(Join(F, << m1, m2 >>), About(Join(F, << m1, m2 >>), s, U), U, lv, lnew, snew)
  BY <1>8, <1>9, AddRequote
<1>11. QED
  BY <1>3, <1>4, <1>5, <1>6, <1>7, <1>10, Zenon

(***************************************************************************)
(* A datagram never outgrows the receive buffer, and a stopped exchange    *)
(* has nothing left to send.                                               *)
(***************************************************************************)
LEMMA SentFits ==
  ASSUME TypeOK, DatagramsFit, NEW d \in Seq(Message), Len(d) <= MaxMsgs, Flush(d)
  PROVE  DatagramsFit'
<1>1. socket \in Seq(Seq(Message))
  BY DEF TypeOK
<1>2. CASE socket' = socket
  BY <1>2 DEF DatagramsFit
<1>3. CASE socket' = Append(socket, d)
  <2>1. /\ Len(Append(socket, d)) = Len(socket) + 1
        /\ \A n \in 1 .. Len(socket) : Append(socket, d)[n] = socket[n]
        /\ Append(socket, d)[Len(socket) + 1] = d
        /\ Append(socket, d) \in Seq(Seq(Message))
    BY <1>1, AppendProperties
  <2> SUFFICES ASSUME NEW n \in DOMAIN socket' PROVE Len(socket'[n]) <= MaxMsgs
    BY DEF DatagramsFit
  <2>2. n \in 1 .. Len(socket) \/ n = Len(socket) + 1
    BY <1>1, <1>3, <2>1
  <2>3. CASE n \in 1 .. Len(socket)
    <3>1. socket'[n] = socket[n] /\ n \in DOMAIN socket
      BY <1>1, <1>3, <2>1, <2>3
    <3>2. QED
      BY <3>1 DEF DatagramsFit
  <2>4. CASE n = Len(socket) + 1
    <3>1. socket'[n] = d
      BY <1>3, <2>1, <2>4, Zenon
    <3>2. QED
      BY <3>1
  <2>5. QED
    BY <2>2, <2>3, <2>4
<1>4. QED
  BY <1>2, <1>3 DEF Flush, Send

LEMMA StepFits ==
  ASSUME IInv, [Next]_vars
  PROVE  DatagramsFit' /\ StoppedIsFlushed'
<1>t. /\ TypeOK /\ DatagramsFit /\ StoppedIsFlushed
      /\ dgram \in Seq(Message) /\ toEmit \in Seq(Message) /\ socket \in Seq(Seq(Message))
      /\ Len(dgram) < BatchCap
  BY DEF IInv, TypeOK
<1>f. BatchCap <= MaxMsgs /\ BatchCap \in Nat /\ MaxMsgs \in Nat
  BY FeedAssumption
<1>g. Len(dgram) <= MaxMsgs
  BY <1>t, <1>f
<1>1. CASE ExchOpen
  <2>1. DatagramsFit'
    BY <1>t, <1>g, <1>1, SentFits DEF ExchOpen
  <2>2. QED
    BY <1>1, <2>1 DEF ExchOpen, StoppedIsFlushed
<1>2. CASE ExchStop
  <2>1. DatagramsFit'
    BY <1>t, <1>g, <1>2, SentFits DEF ExchStop
  <2>2. QED
    BY <1>2, <2>1 DEF ExchStop, Flush, StoppedIsFlushed
<1>3. CASE Emit
  <2>1. StoppedIsFlushed'
    BY <1>t, <1>3 DEF Emit, StoppedIsFlushed
  <2>2. PICK d \in Seq(Message) : d = Append(dgram, Head(toEmit)) /\ Len(d) <= MaxMsgs
    <3>1. Head(toEmit) \in Message
      BY <1>t, <1>3, HeadTailProperties DEF Emit
    <3>2. /\ Append(dgram, Head(toEmit)) \in Seq(Message)
          /\ Len(Append(dgram, Head(toEmit))) = Len(dgram) + 1
      BY <1>t, <3>1, AppendProperties
    <3>3. PICK d \in Seq(Message) : d = Append(dgram, Head(toEmit)) /\ Len(d) = Len(dgram) + 1
      BY <3>2, Zenon
    <3>4. Len(dgram) \in Nat
      BY <1>t
    <3>5. Len(d) <= MaxMsgs
      BY <1>t, <1>f, <3>3, <3>4
    <3>6. QED
      BY <3>3, <3>5
  <2>3. Flush(d) \/ socket' = socket
    BY <1>3, <2>2 DEF Emit
  <2>4. DatagramsFit'
    BY <1>t, <2>2, <2>3, SentFits DEF DatagramsFit
  <2>5. QED
    BY <2>1, <2>4
<1>4. ASSUME NEW move \in -1 .. 1, NEW spread \in {-Tick, Tick}, NEW size \in QuoteSize,
             ExchStep(move, spread, size)
      PROVE  DatagramsFit' /\ StoppedIsFlushed'
  BY <1>t, <1>4 DEF ExchStep, DatagramsFit, StoppedIsFlushed
<1>5. CASE FeedReceive
  <2>1. StoppedIsFlushed'
    BY <1>t, <1>5 DEF FeedReceive, StoppedIsFlushed
  <2>2. /\ Tail(socket) \in Seq(Seq(Message)) /\ Len(Tail(socket)) = Len(socket) - 1
        /\ \A n \in 1 .. Len(Tail(socket)) : Tail(socket)[n] = socket[n + 1]
    BY <1>t, <1>5, HeadTailProperties DEF FeedReceive
  <2>3. ASSUME NEW n \in DOMAIN Tail(socket) PROVE Len(Tail(socket)[n]) <= MaxMsgs
    <3>1. n \in 1 .. Len(Tail(socket)) /\ n + 1 \in DOMAIN socket
      BY <1>t, <2>2
    <3>2. Tail(socket)[n] = socket[n + 1]
      BY <2>2, <3>1
    <3>3. QED
      BY <1>t, <3>1, <3>2 DEF DatagramsFit
  <2>4. socket' = Tail(socket)
    BY <1>5 DEF FeedReceive
  <2>5. QED
    BY <2>1, <2>3, <2>4 DEF DatagramsFit
<1>6. CASE FeedPush \/ FeedDrop \/ Consume
  BY <1>t, <1>6 DEF FeedPush, FeedDrop, Consume, DatagramsFit, StoppedIsFlushed
<1>7. CASE UNCHANGED vars
  BY <1>t, <1>7 DEF vars, DatagramsFit, StoppedIsFlushed
<1>8. CASE Terminated
  BY <1>8, <1>7 DEF Terminated
<1>9. QED
  BY <1>1, <1>2, <1>3, <1>4, <1>5, <1>6, <1>7, <1>8 DEF Next, FeedThread

LEMMA InitIInv == Init => IInv
<1> SUFFICES ASSUME Init PROVE IInv
  OBVIOUS
<1>1. InWindow /\ Chained
  BY InitInWindow, InitChained
<1>2. DatagramsFit /\ StoppedIsFlushed
  BY DEF Init, DatagramsFit, StoppedIsFlushed
<1>3. QED
  BY <1>1, <1>2 DEF IInv, InWindow

LEMMA StepIInv == IInv /\ [Next]_vars => IInv'
<1> SUFFICES ASSUME IInv, [Next]_vars PROVE IInv'
  OBVIOUS
<1>1. InWindow'
  BY StepInWindow DEF IInv, InWindow
<1>2. DatagramsFit' /\ StoppedIsFlushed'
  BY StepFits
<1>3. Chained'
  <2>1. CASE ExchOpen \/ Emit \/ ExchStop \/ FeedThread
    BY <2>1, CarriedChained
  <2>2. CASE Consume
    BY <2>2, ConsumeChained
  <2>3. ASSUME NEW move \in -1 .. 1, NEW spread \in {-Tick, Tick}, NEW size \in QuoteSize,
               ExchStep(move, spread, size)
        PROVE  Chained'
    BY <2>3, RequoteChained
  <2>4. CASE UNCHANGED vars
    BY <2>4 DEF IInv, Chained, vars, quoteVars, bookVars, InFlight, Sound, SideLevels,
                QuotedLevel, QuotedSize
  <2>5. CASE Terminated
    BY <2>4, <2>5 DEF Terminated
  <2>6. QED
    BY <2>1, <2>2, <2>3, <2>4, <2>5 DEF Next
<1>4. QED
  BY <1>1, <1>2, <1>3 DEF IInv, InWindow

LEMMA AlwaysIInv == Spec => []IInv
  BY InitIInv, StepIInv, PTL DEF Spec

(***************************************************************************)
(* While messages are under way, batched, queued or dropped in any way, a  *)
(* side of the book shows at most one level, apart from levels that        *)
(* dropped messages were about: every delete of the exchange's step()      *)
(* reaches the book before the add that replaces it.                       *)
(***************************************************************************)
THEOREM OneLevelAtATime == Spec => []OneLevelPerSide
<1>1. ASSUME IInv, NEW s \in {"B", "S"}, NEW i \in Sound(s), NEW j \in Sound(s),
             SideLevels(s)[i] # 0, SideLevels(s)[j] # 0
      PROVE  i = j
  <2>1. PICK F, R, U, lv, level, size :
          /\ F = InFlight /\ U = Sound(s) /\ R = About(F, s, U) /\ lv = SideLevels(s)
          /\ level = QuotedLevel(s) /\ size = QuotedSize(s)
    OBVIOUS
  <2>2. Chain(F, R, U, lv, level, size)
    BY <1>1, <2>1 DEF IInv, Chained
  <2>3. i \in U /\ j \in U /\ lv[i] # 0 /\ lv[j] # 0
    BY <1>1, <2>1
  <2>4. CASE R = {}
    BY <2>2, <2>3, <2>4 DEF Chain, Shows
  <2>5. CASE R # {}
    <3>1. F \in Seq(Message)
      BY <1>1, <2>1, BuffersType DEF IInv
    <3>2. R \subseteq Nat
      BY <2>1, <3>1 DEF About
    <3>3. PICK k \in R : First(R, k)
      BY <2>5, <3>2, HasFirst
    <3>4. QED
      BY <2>2, <2>3, <3>3 DEF Chain, Expected
  <2>6. QED
    BY <2>4, <2>5
<1>2. IInv => OneLevelPerSide
  BY <1>1 DEF OneLevelPerSide, SideLevels
<1>3. QED
  BY <1>2, AlwaysIInv, PTL

(***************************************************************************)
(* A book that has consumed everything is the exchange's quote and nothing *)
(* else, apart from the levels that dropped messages were about: damage    *)
(* from a full buffer or queue stays, but does not spread.                 *)
(***************************************************************************)
THEOREM BookCatchesUp == Spec => []CoherentWhenDrained
<1>1. ASSUME IInv, Drained PROVE InFlight = << >>
  <2>1. /\ toEmit = << >> /\ socket = << >> /\ rx = << >> /\ feed_q = << >> /\ dgram = << >>
    BY <1>1 DEF Drained, IInv, StoppedIsFlushed
  <2>2. InFlight = Under(<< >>, << >>, << >>, << >>, << >>)
    BY <2>1, InFlightIs, Zenon
  <2>3. Join(<< >>, << >>) = << >>
    <3>1. << >> \in Seq(Message)
      OBVIOUS
    <3>2. QED
      BY <3>1, JoinEmpty, Zenon
  <2>4. QED
    BY <2>2, <2>3, FlatEmpty, Zenon DEF Under
<1>2. ASSUME IInv, Drained, NEW s \in {"B", "S"}, NEW i \in Sound(s)
      PROVE  SideLevels(s)[i] = IF i = QuotedLevel(s) THEN QuotedSize(s) ELSE 0
  <2>1. PICK F, R, U, lv, level, size :
          /\ F = InFlight /\ U = Sound(s) /\ R = About(F, s, U) /\ lv = SideLevels(s)
          /\ level = QuotedLevel(s) /\ size = QuotedSize(s)
    OBVIOUS
  <2>2. Chain(F, R, U, lv, level, size)
    BY <1>2, <2>1 DEF IInv, Chained
  <2>3. F = << >> /\ DOMAIN << >> = {}
    BY <1>1, <1>2, <2>1
  <2>4. R = {}
    BY <2>1, <2>3 DEF About
  <2>5. lv[i] = IF i = level THEN size ELSE 0
    BY <1>2, <2>1, <2>2, <2>4 DEF Chain, Shows
  <2>6. QED
    BY <2>1, <2>5
<1>3. IInv => CoherentWhenDrained
  <2> SUFFICES ASSUME IInv, Drained
               PROVE  /\ \A i \in Sound("B") : bid[i] = Only(best_bid, bid_sz)[i]
                      /\ \A i \in Sound("S") : ask[i] = Only(best_ask, ask_sz)[i]
    BY DEF CoherentWhenDrained
  <2>1. Sound("B") \subseteq Index /\ Sound("S") \subseteq Index
    BY DEF Sound
  <2>2. \A i \in Sound("B") : bid[i] = IF i = to_index(best_bid) THEN bid_sz ELSE 0
    BY <1>2 DEF SideLevels, QuotedLevel, QuotedSize
  <2>3. \A i \in Sound("S") : ask[i] = IF i = to_index(best_ask) THEN ask_sz ELSE 0
    BY <1>2 DEF SideLevels, QuotedLevel, QuotedSize
  <2>4. QED
    BY <2>1, <2>2, <2>3 DEF Only
<1>4. QED
  BY <1>3, AlwaysIInv, PTL
=============================================================================

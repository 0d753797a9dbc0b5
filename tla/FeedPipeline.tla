----------------------------- MODULE FeedPipeline -----------------------------
(***************************************************************************)
(* The market-data path: the simulated exchange's random walk              *)
(* (sim_exchange.hpp) packs its messages into datagrams, the feed handler  *)
(* (feed_handler.hpp) unpacks them into the feed queue, and the strategy   *)
(* applies them to its BookView.  Two processes and two threads, joined by *)
(* a socket buffer and an SPSC queue that both may overflow.               *)
(***************************************************************************)
EXTENDS BookView, Sequences

CONSTANTS Mid0,          \* Config::base_price, the starting mid
          HalfBand,      \* the walk's band in ticks (1500 in the code)
          QuoteSize,     \* sizes a quote may have
          InitSize,      \* bid_sz_ and ask_sz_ at the start
          ConfigBatch,   \* Config::batch, messages per datagram asked for
          BatchCap,      \* what the constructor clamps it to (40 in the code)
          MaxMsgs,       \* kMaxMsgsPerDatagram, what the receive buffer holds (64)
          SocketCap,     \* datagrams the receive buffer holds
          FeedQCap,      \* capacity of the feed queue
          MaxSteps       \* bound: steps of the exchange

mid_lo == Mid0 - HalfBand * Tick
mid_hi == Mid0 + HalfBand * Tick

\* What the walk can quote: one tick to either side of the mid, also crossed.
QuotePrice == mid_lo - Tick .. mid_hi + Tick

ASSUME FeedAssumption ==
  /\ HalfBand \in Nat /\ ConfigBatch \in Int
  /\ BatchCap \in Nat \ {0} /\ MaxMsgs \in Nat /\ BatchCap <= MaxMsgs
  /\ SocketCap \in Nat \ {0} /\ FeedQCap \in Nat /\ FeedQCap >= 2
  /\ QuoteSize \subseteq 1 .. MaxLevelSize /\ InitSize \in QuoteSize
  /\ Mid0 \in Int /\ MaxSteps \in Nat
  /\ Price = QuotePrice

\* The book's base "must sit BELOW the lowest price the feed will quote"
\* (engine.hpp), and the band is chosen "so quotes stay in the book window".
ASSUME BandAssumption ==
  Base <= mid_lo - Tick /\ mid_hi + Tick < Base + NumTicks * Tick

VARIABLES exchPc,              \* "start", "run" or "done"
          mid, best_bid, best_ask, bid_sz, ask_sz,  \* the exchange's quote
          toEmit,              \* messages the running step has yet to emit
          steps,               \* steps taken, for MaxSteps
          dgram,               \* the datagram being filled
          socket,              \* the feed handler's receive buffer
          rx,                  \* what the feed handler has left to enqueue
          feed_q,
          tainted              \* history: the levels that dropped messages were about

quoteVars == << mid, best_bid, best_ask, bid_sz, ask_sz >>
vars == << exchPc, toEmit, steps, quoteVars, dgram, socket, rx, feed_q, tainted, bookVars >>

Msg(type, side, price, size) ==
  [type |-> type, side |-> side, price |-> price, size |-> size]

TypeOK ==
  /\ exchPc \in {"start", "run", "done"}
  /\ mid \in mid_lo .. mid_hi
  /\ best_bid \in Price /\ best_ask \in Price
  /\ bid_sz \in QuoteSize /\ ask_sz \in QuoteSize
  /\ toEmit \in Seq(Message) /\ steps \in 0 .. MaxSteps
  /\ dgram \in Seq(Message) /\ Len(dgram) < BatchCap
  /\ socket \in Seq(Seq(Message)) /\ Len(socket) <= SocketCap
  /\ rx \in Seq(Message) /\ feed_q \in Seq(Message) /\ Len(feed_q) <= FeedQCap
  /\ tainted \subseteq {"B", "S"} \X Price
  /\ BookTypeOK

Init ==
  /\ exchPc = "start"
  /\ mid = Mid0 /\ best_bid = Mid0 - Tick /\ best_ask = Mid0 + Tick
  /\ bid_sz = InitSize /\ ask_sz = InitSize
  /\ toEmit = << Msg("add", "B", best_bid, bid_sz), Msg("add", "S", best_ask, ask_sz) >>
  /\ steps = 0
  /\ dgram = << >> /\ socket = << >> /\ rx = << >> /\ feed_q = << >>
  /\ tainted = {}
  /\ BookInit
-----------------------------------------------------------------------------
(* The exchange                                                            *)

\* Mutant: the configured batch is taken as it is.
batch_Unclamped == ConfigBatch
batch == IF ConfigBatch < 1 THEN 1 ELSE IF ConfigBatch > BatchCap THEN BatchCap ELSE ConfigBatch

Levels(msgs) == {<< msgs[k].side, msgs[k].price >> : k \in DOMAIN msgs}

\* send_to(): a datagram that finds the receive buffer full is dropped.
Send(d) ==
  IF Len(socket) < SocketCap
  THEN socket' = Append(socket, d) /\ UNCHANGED tainted
  ELSE tainted' = tainted \cup Levels(d) /\ UNCHANGED socket

\* Mutant: what is in the datagram is not sent.
Flush_Nothing(d) == dgram' = d /\ UNCHANGED << socket, tainted >>
Flush(d) ==
  /\ dgram' = << >>
  /\ IF d = << >> THEN UNCHANGED << socket, tainted >> ELSE Send(d)

\* emit(): the message joins the datagram, which is sent once it is full.
Emit ==
  /\ toEmit # << >>
  /\ toEmit' = Tail(toEmit)
  /\ LET d == Append(dgram, Head(toEmit))
     IN  IF Len(d) >= batch THEN Flush(d) ELSE dgram' = d /\ UNCHANGED << socket, tainted >>
  /\ UNCHANGED << exchPc, steps, quoteVars, rx, feed_q, bookVars >>

\* run(): after the first quote is emitted, it is flushed.
ExchOpen ==
  /\ exchPc = "start" /\ toEmit = << >> /\ exchPc' = "run"
  /\ Flush(dgram)
  /\ UNCHANGED << toEmit, steps, quoteVars, rx, feed_q, bookVars >>

\* Mutant: the walk is not held at the upper edge.
Clamp_Open(m) == IF m < mid_lo THEN mid_lo ELSE m
Clamp(m) == IF m < mid_lo THEN mid_lo ELSE IF m > mid_hi THEN mid_hi ELSE m

\* Mutant: the new level is announced before the old one is deleted.
Requote_AddFirst(side, old, oldSize, new, size) ==
  << Msg("add", side, new, size), Msg("delete", side, old, oldSize) >>
Requote(side, old, oldSize, new, size) ==
  << Msg("delete", side, old, oldSize), Msg("add", side, new, size) >>

\* step(): move the mid, then replace one side's quote, sometimes crossed.
ExchStep(move, spread, size) ==
  /\ exchPc = "run" /\ toEmit = << >>
  /\ steps < MaxSteps /\ steps' = steps + 1
  /\ mid' = Clamp(mid + move * Tick)
  /\ \/ /\ best_bid' = mid' - spread /\ bid_sz' = size
        /\ toEmit' = Requote("B", best_bid, bid_sz, best_bid', size)
        /\ UNCHANGED << best_ask, ask_sz >>
     \/ /\ best_ask' = mid' + spread /\ ask_sz' = size
        /\ toEmit' = Requote("S", best_ask, ask_sz, best_ask', size)
        /\ UNCHANGED << best_bid, bid_sz >>
  /\ UNCHANGED << exchPc, dgram, socket, tainted, rx, feed_q, bookVars >>

\* The loop ends: the last, partly filled datagram is flushed.
ExchStop ==
  /\ exchPc = "run" /\ toEmit = << >> /\ exchPc' = "done"
  /\ Flush(dgram)
  /\ UNCHANGED << toEmit, steps, quoteVars, rx, feed_q, bookVars >>
-----------------------------------------------------------------------------
(* The feed handler                                                        *)

\* poll_once(): take one datagram, as far as the buffer holds it; FeedReader
\* then walks its whole messages.
FeedReceive ==
  /\ rx = << >> /\ socket # << >>
  /\ LET d == Head(socket)
     IN  rx' = SubSeq(d, 1, IF Len(d) < MaxMsgs THEN Len(d) ELSE MaxMsgs)
  /\ socket' = Tail(socket)
  /\ UNCHANGED << exchPc, toEmit, steps, quoteVars, dgram, feed_q, tainted, bookVars >>

FeedPush ==
  /\ rx # << >> /\ Len(feed_q) < FeedQCap
  /\ feed_q' = Append(feed_q, Head(rx))
  /\ rx' = Tail(rx)
  /\ UNCHANGED << exchPc, toEmit, steps, quoteVars, dgram, socket, tainted, bookVars >>

\* Mutant: the spin is not bounded, so a full queue is waited out.
FeedDrop_Never == FALSE /\ UNCHANGED vars
\* push_with_backpressure(): the queue stayed full for the whole spin budget.
FeedDrop ==
  /\ rx # << >> /\ Len(feed_q) = FeedQCap
  /\ rx' = Tail(rx)
  /\ tainted' = tainted \cup Levels(<< Head(rx) >>)
  /\ UNCHANGED << exchPc, toEmit, steps, quoteVars, dgram, socket, feed_q, bookVars >>

FeedThread == FeedReceive \/ FeedPush \/ FeedDrop
-----------------------------------------------------------------------------
\* The strategy's on_md(): one event is popped and applied to the book.
Consume ==
  /\ feed_q # << >>
  /\ apply(Head(feed_q))
  /\ feed_q' = Tail(feed_q)
  /\ UNCHANGED << exchPc, toEmit, steps, quoteVars, dgram, socket, rx, tainted >>

Drained ==
  /\ toEmit = << >> /\ socket = << >> /\ rx = << >> /\ feed_q = << >>
  /\ exchPc = "done" \/ (exchPc = "run" /\ dgram = << >>)
Terminated == exchPc = "done" /\ Drained /\ UNCHANGED vars

Next ==
  \/ ExchOpen \/ Emit \/ ExchStop
  \/ \E move \in -1 .. 1, spread \in {-Tick, Tick}, size \in QuoteSize :
       ExchStep(move, spread, size)
  \/ FeedThread \/ Consume \/ Terminated

Spec == Init /\ [][Next]_vars

\* The feed thread keeps polling; nothing is assumed of the strategy.
FairSpec == Spec /\ WF_vars(FeedThread)
-----------------------------------------------------------------------------
(* Properties                                                              *)

Only(level, size) ==
  [i \in Index |-> IF i = to_index(level) THEN size ELSE 0]
\* The levels of a side that no dropped message was about.
Sound(side) == Index \ {to_index(l[2]) : l \in {t \in tainted : t[1] = side}}

(***************************************************************************)
(* "... a Delete of the old level then an Add of the new (so a level book  *)
(* stays coherent)" (sim_exchange.hpp:6-8): a book that has consumed       *)
(* everything is the exchange's quote and nothing else, apart from the     *)
(* levels that dropped messages were about.  There is no gap check and no  *)
(* recovery, so the damage stays, but it does not spread.                  *)
(***************************************************************************)
CoherentWhenDrained ==
  Drained => /\ \A i \in Sound("B") : bid[i] = Only(best_bid, bid_sz)[i]
             /\ \A i \in Sound("S") : ask[i] = Only(best_ask, ask_sz)[i]

(***************************************************************************)
(* Also while messages are under way, at most one level per side is        *)
(* populated, whatever the batching and the queues did, apart from levels  *)
(* that dropped messages were about.                                       *)
(***************************************************************************)
OneLevelPerSide ==
  /\ \A i, j \in Sound("B") : bid[i] # 0 /\ bid[j] # 0 => i = j
  /\ \A i, j \in Sound("S") : ask[i] # 0 /\ ask[j] # 0 => i = j

(***************************************************************************)
(* The band keeps every quote inside the book's window ("so quotes stay in *)
(* the book window"), crossed quotes at the edges of the band included.    *)
(***************************************************************************)
QuotesInWindow ==
  /\ to_index(best_bid) \in Index
  /\ to_index(best_ask) \in Index
  /\ out_of_range = 0

(***************************************************************************)
(* A strategy that has stopped consuming cannot hang the feed thread: every*)
(* datagram it has begun is finished.                                      *)
(***************************************************************************)
FeedNeverWedged == (rx # << >>) ~> (rx = << >>)
-----------------------------------------------------------------------------
(* Inductive strengthening: the messages under way, in the order in which  *)
(* they will reach the book.                                               *)

Flat(q) ==
  LET Upto[n \in 0 .. Len(q)] == IF n = 0 THEN << >> ELSE Upto[n - 1] \o q[n]
  IN  Upto[Len(q)]
InFlight == feed_q \o (rx \o (Flat(socket) \o (dgram \o toEmit)))

Lev(m) == to_index(m.price)
SideLevels(s) == IF s = "B" THEN bid ELSE ask
QuotedLevel(s) == to_index(IF s = "B" THEN best_bid ELSE best_ask)
QuotedSize(s) == IF s = "B" THEN bid_sz ELSE ask_sz

\* The messages of a sequence that are about one of the levels U of a side.
About(F, s, U) == { k \in DOMAIN F : F[k].side = s /\ Lev(F[k]) \in U }

First(R, k) == k \in R /\ \A j \in R : k <= j
Last(R, k) == k \in R /\ \A j \in R : j <= k
Neighbours(R, j, k) == j \in R /\ k \in R /\ j < k /\ \A h \in R : h <= j \/ k <= h

\* Adds and deletes of a side come in pairs: an add is followed by the delete of
\* the same level.
Paired(F, R) ==
  /\ \A k \in R : F[k].type = "delete" \/ (F[k].type = "add" /\ F[k].size # 0)
  /\ \A j, k \in R :
       Neighbours(R, j, k) /\ (F[j].type = "add" \/ F[k].type = "delete") =>
         F[j].type = "add" /\ F[k].type = "delete" /\ Lev(F[j]) = Lev(F[k])

\* The next message finds the book ready for it: a delete the one level it is
\* about, an add an empty side.
Expected(F, R, U, lv) ==
  \A k \in R : First(R, k) =>
    \A l \in U : lv[l] # 0 => F[k].type = "delete" /\ l = Lev(F[k])

\* The last message leads to the quote, unless that is at an unsound level.
LeadsTo(F, R, U, level, size) ==
  \A k \in R : Last(R, k) =>
    IF F[k].type = "add" THEN Lev(F[k]) = level /\ F[k].size = size ELSE level \notin U

\* With nothing under way the side shows the quote.
Shows(R, U, lv, level, size) ==
  R = {} => \A l \in U : lv[l] = IF l = level THEN size ELSE 0

Chain(F, R, U, lv, level, size) ==
  /\ Paired(F, R) /\ Expected(F, R, U, lv)
  /\ LeadsTo(F, R, U, level, size) /\ Shows(R, U, lv, level, size)

\* Both sides' messages under way are chains.
Chained ==
  \A s \in {"B", "S"} :
    Chain(InFlight, About(InFlight, s, Sound(s)), Sound(s),
          SideLevels(s), QuotedLevel(s), QuotedSize(s))

\* What has been sent fits the receive buffer; a stopped exchange has sent all.
DatagramsFit == \A n \in DOMAIN socket : Len(socket[n]) <= MaxMsgs
StoppedIsFlushed == exchPc = "done" => dgram = << >> /\ toEmit = << >>

IInv ==
  /\ TypeOK /\ TopOfBook /\ out_of_range = 0
  /\ DatagramsFit /\ StoppedIsFlushed /\ Chained
=============================================================================

# A TLA+ verification of the trading pipeline

The repository is a small trading pipeline in C++20: an ITCH-like feed arrives
over UDP, a flat-array book is maintained, an imbalance strategy decides, a risk
gate and an order gateway send orders, and a simulated exchange fills them. Three
engine threads are joined by lock-free queues. This directory holds TLA+ models
of its parts, TLC configurations that check them on small instances, and proofs,
checked by TLAPS, of the results that hold for every instance.

Run `tlc -config X.cfg M` for module `M` and configuration `X`, and
`tlapm MProofs.tla` for the proofs. `PROJECT.json` lists runs, mutants, the lines
each definition models, findings, hazards and theorems.

## Inventory

| Part | State | Operations | Interacts with |
|---|---|---|---|
| SPSC queue (`spsc_queue.hpp`) | two atomic positions, a private cached copy of each, slots | `push`, `pop` | joins every pair of threads |
| Book (`book_view.hpp`) | size per tick and side, cached best indices | `apply` | owned by the strategy; also used by the replay tool |
| Strategy and runner (`strategy.hpp`) | position, in-flight latch, last order id | `on_md`, `on_fill`, `poll_once`, `run` | pops feed and fill queues, pushes orders |
| Risk gate (`risk_gate.hpp`) | position, GCRA arrival time | `check`, `on_fill` | called by the gateway; reads the shared kill flag |
| Order gateway (`order_gateway.hpp`) | direct-mapped in-flight table | `poll_once`, `drain_fills`, `handle_fill`, `run` | pops orders, sends and receives UDP, pushes fills |
| Engine (`engine.hpp`) | queues, running flag, kill flag, threads | `start`, `stop`, `trip_kill_switch` | owns the three stages |
| Feed handler (`feed_handler.hpp`) | receive buffer | `poll_once`, `push_with_backpressure` | UDP to feed queue |
| Exchange simulator (`sim_exchange.hpp`) | mid, quote, datagram being filled | `run`, `step`, `emit`, `flush`, `service_orders` | UDP in both directions |
| ITCH 5.0 decoder (`itch50.hpp`, `itch50_replay.cpp`) | live orders, pending delta, statistics | `apply`, `take_pending`, the replay loop | feeds a book |
| Histogram (`histogram.hpp`) | counts, total, sum, extremes | `record`, `percentile`, `add`, `reset` | one per stage, merged in reports |
| Wait policy and affinity (`wait_policy.hpp`, `affinity.hpp`) | spin budget, outcome of the pin request | `idle`, `reset`, `pin_current_thread` | called by the three `run()` loops |
| Configuration (`config.hpp`) | cursor, values under construction | `parse`, `find`, the typed getters | read once before `start()` |
| Codecs, sockets, clock, reports, programs | see `PROJECT.json` | | |

What is hard: two threads on one ring without locks, positions that wrap, loads
that return old values; a latch in one thread that waits for a datagram handled
by another; UDP that loses, repeats and reorders orders and fills; a shutdown of
threads that spin on each other's queues, and a restart on what they left behind;
busy-polling threads that may have to share a core; a book maintained by deltas that
batching splits over datagrams; integer edges (window borders, saturation, token
debt, bucket edges). Each is a row of `hazards`, at its line.

## Modules

| Module | Models | Notes |
|---|---|---|
| `BoundedFifo` | what the queue promises | abstract specification |
| `SpscQueue`, `MCSpscQueue` | `push()` and `pop()`, one step per access | refines `BoundedFifo` |
| `BookView`, `MCBookView` | `apply()`, one disjunct per case | extended by two modules below |
| `RiskGate` | `check()`, one disjunct per return, with the clock | instantiated by `OrderGateway` |
| `EngineShared`, `Strategy`, `OrderGateway`, `Engine`, `MCEngine` | the order path: two threads, two queues, exchange, UDP, kill, stop, restart | composition |
| `FeedPipeline` | the market-data path: exchange, datagrams, socket, feed thread, queue, book | composition with `BookView` |
| `Itch50Replay` | decoder and replay loop | composition with `BookView` |
| `StageThreads`, `MCStageThreads` | three `run()` loops, pinning, the wait policy, on one or two cores | the composition seen by the scheduler |
| `Config`, `MCConfig` | the JSON parser and path access | checked against a description of the text that uses no parser |
| `Histogram` | bucketing and its queries | pure index arithmetic against sorted samples |
| `SpscQueueProofs`, `BookViewProofs`, `EngineProofs`, `FeedPipelineProofs`, `Itch50ReplayProofs`, `StageThreadsProofs`, `ConfigProofs` | | theorems about the module without `Proofs` |
| `ArithmeticProofs` | | theorems about `RiskGate` and `Histogram`, the two parts whose correctness is arithmetic |

How state and actions correspond to the code:

* **SpscQueue.** Variables carry the fields' names. `PushBegin` is the test on the
  cached position, `PushRefresh` the acquire load and second test, `PushWrite` the
  slot store, `PushPublish` the release store; `pop()` likewise. Positions are
  numbers modulo `PosMod` (2^64 in the build). A refresh may return *any* value
  the other position has had since the last look, which is all that C++ coherence
  guarantees. Accesses to a slot need no weaker model: `NoSlotRace` shows there is
  no race, so release/acquire makes them sequentially consistent.
* **BookView.** `to_index` keeps both conversions of the code: division truncates
  toward zero, the cast to `int` keeps the low bits. The loops of
  `on_level_emptied()` are the levels at which they stop.
* **RiskGate.** `now` is the time stamp counter. `acceptLog` is a history variable.
* **Engine.** `stratPc` and `gwPc` say where each thread is in `poll_once()`;
  the queues are the FIFOs that `SpscQueue` implements. The kill flag is stored and
  loaded relaxed, so there are two of it: `kill` is the flag, `kill_seen` what the
  gateway's load returns, and `KillVisible` lets the store arrive at any later time.
  It is read by `GwReject`/`GwAccept` and the order leaves in `GwSend`, a step later.
  `running` is read as it is: an old value is one more iteration of a loop, which the
  thread could have made before. A wire is a *set* of datagrams: any order of arrival,
  and with the faults `loseOrder`, `loseFill`, `dupOrder`, `dupFill` lost or repeated
  ones. Orders that the exchange has had are in `served`; they may arrive again, and it
  fills each copy (`ExchangeAgain`), and so may their fills (`FillAgain`). `surplus` is
  what was filled for copies. A market-data event is the touch it leads to. The rate limiter's verdict
  is a free choice from the third order on (its tolerance always admits two).
  The batch limits of 16 and 32 exceed the number of orders in a run. `Restart` is
  a second `start()`: new threads on the queues, the latch, the table, the kill
  flag and the datagrams that the first run left.
* **FeedPipeline.** The generator's draws are free choices; a requote is emitted
  one message at a time and `Flush` sends a full, or the last, datagram. A full
  socket buffer drops a datagram, a full queue a message after the bounded spin.
  `batch` is the constructor's clamp and `FeedReceive` keeps what fits the receive
  buffer. The history variable `tainted` holds the side and price of every dropped
  message.
* **StageThreads.** `ready` and `onCore` are the scheduler: a free core takes the
  thread that has waited longest among those that may run there, `yield()` puts the
  caller at the end, and a thread may be preempted at any step. `Pin` has every
  outcome of `pin_current_thread()`; the rest of a loop iteration is one step: the
  poll, and `reset()` or `idle()` by its result. `order` is where the one
  outstanding order is, which is all that `OneOutstanding` of `Engine` leaves of
  the order path. `idlePolls` is a history variable.
* **Config.** Each step is a parse function's next decision; `stack` is the C++
  call stack. A text is a sequence of character classes. `std::map::emplace` keeps
  the first of equal keys. `get()` and `peek()` answer NUL past the end. `Scan`,
  `Locate` and what is between them describe a text without the parser: the value of a
  number (`NumberAt`) and what an escape stands for (`Escaped`) have definitions of their
  own there. The digits are one character, so numbers differ in their sign and length.
* **Itch50Replay.** One action per message type; `delta` and `pending` are the
  deltas the replay loop holds between `apply()` and `take_pending()`. The
  exchange does not announce a live reference again. The file may start
  mid-stream and refer to orders that came before it. `silent` and `tainted` are
  history variables: the live orders recorded with no delta, and the levels at which
  there was ever one. Message bytes and framing are abstracted to
  fields and the decoder's verdict on the length.
* **Histogram.** `Octave` is what the leading-bit count finds, the first octave beyond
  the value; shifts are products with `Pow2`. `percentile`'s running sum is `UpTo`.
  `samples` is a history variable. `record_n` is called with a positive count.
  Percentiles are whole numbers, so that the rank is rounded exactly. The range leaves
  room in 64 bits (the last branch of `buckets_needed()` is never taken; by default
  the range is a second).

Definitions named `X_Something` are mutants of `X`: the same definition with a
plausible bug, used to see that a property notices it, never part of a
specification.

## Runs

| Run | Question | States |
|---|---|---|
| `spsc` | no slot race, conservative caches, FIFO refinement, published values are consumed, across position wraps | 50,562 |
| `book` | the cached touch is the true touch | 13,122 |
| `risk` | the rate bound over every window, and that the limiter is exact | 350,476 |
| `engine` | one outstanding order, agreeing positions, the strategy's band, the kill switch once it is visible, the exchange's true position apart from repeated orders; `stop()` returns; only a refusal or a loss leaves the latch set, also across a restart | 113,550 |
| `itch50` | the level book equals the order book, after a late start too apart from the levels of unknown replaced orders, and never shows too much | 1,197,786 |
| `feed` | the book is the exchange's quote apart from levels that dropped messages were about; quotes stay in the window; the feed thread cannot be wedged | 583,093 |
| `stages` | an idle stage does not keep others off a shared core; on one core every stage gets its turn without preemption; `stop()` returns, also where threads that only spin share a core | 205,071 |
| `config` | what is accepted is whole, what is found is what is written, every text is finished | 105,452 |
| `histogram` | percentile error and exact extremes | 48,400 |

Three runs are expected to fail; each is a disagreement between the code and what
the repository says of it:

* `book_fold`: a price less than one tick below the window is folded onto level 0
  (truncating division), though the README says such prices are dropped.
* `engine_latched`: an order the risk gate refuses never gets an answer, so the
  strategy's latch stays set and order flow ends. `LatchReleased` (run `engine`) says
  that a refusal or a loss is the only way to get there.
* `itch50_mid`: a Replace of an unknown order is recorded without a delta; its
  later cancel takes shares of announced orders off the book. `BookMatchesOrders` (run
  `itch50`) says that the damage stays at that level.

Five more have no run of their own. What a passing run checks there is the weaker
statement that the code keeps, *not* what the repository says:

* The kill switch. `risk_gate.hpp:8` says "when set, nothing gets out". The code reads
  the flag, by a relaxed load, in `check()` and sends afterwards: an order that has passed
  its check still gets out, and so does every order whose check does not see the store
  yet. `KillStopsFlow` only says that once the gateway's loads return the flag, at most
  one order leaves, the one that had passed its check.
* Repeated orders. `service_orders()` (`sim_exchange.hpp:149-166`) fills every datagram,
  a repeated order once more, and the gateway passes over the second fill as a duplicate.
  The position at the exchange then leaves the "absolute net-position bound"
  (`risk_gate.hpp:43`), and the gate's is no longer "in sync with reality"
  (`risk_gate.hpp:100`), for good. `TruePositionWithinLimit` only says that what was
  filled for copies is all that the exchange's position is off the limit by.
* Unicode escapes. `config.hpp:239` says that `\u` escapes "pass through unchanged"; they
  lose their backslash. `FindsWhatIsWritten` leaves texts with such an escape out.
* The token bucket. `burst` + 1 orders pass back-to-back where the comment on the field
  promises `burst`; `RateBound` states the bound that holds, for which tolerance and
  interval add up.
* Pinning. Two stages pinned to one core each "got the core it asked for" and both spin
  on it; `NoIdleHogging` and `EveryStageRuns` are claimed for set-ups that leave room
  (`LeavesRoom`), `StopReturns` for all.

### Bounds and why they are enough

* Queue: capacity 4 with positions modulo 8, so that every fill level occurs at
  every phase of the wrap; two values tell reorderings apart.
* Book: four levels (the least the code accepts), sizes up to saturation at 2,
  whole-tick prices from one below to one above the window.
* Risk gate: interval 2, burst 2, eight clock ticks, six accepts: idle times,
  full debt and recovery all occur. `MaxFilled` exceeds the limit, so positions
  beyond it occur too.
* Engine: three orders (`MaxOrders`) over an in-flight table of two entries, so ids
  collide in the table; queues of two, which three orders would overfill; one
  restart. The position limit is above the order size, so the band is the
  strategy's own doing. One order or fill may be repeated (`MaxCopies`), at any time after the
  exchange had the order: while a later order is at the gate, in the table or in its
  slot, or after it. The theorems hold for any number of copies.
* Feed: three steps (`MaxSteps`) in datagrams of three messages, five being asked
  for and the receiver's buffer holding four, so a requote is
  split over two datagrams and the last one is partly filled; a socket of one
  datagram and a queue of two messages overflow; a band of one tick, so the walk
  is held at both edges.
* ITCH 5.0: three references, prices off the tick, on another level
  and outside the window; zero-share orders; no level can saturate.
* Stages: one core (pin requests that are absent, for a missing core, for a core
  outside `cpu_set_t`, on a platform without the call; or everybody yielding) and
  two cores of which one is dedicated to the feed handler or the strategy; a spin
  budget of 2, so that both branches of `idle()` occur in a row; a queue of two.
  To these come stages that all spin for good, by policy or because they are
  pinned to the same core, on one core and on two.
* Config: three documents (nesting, a repeated key with two numbers, escapes, an empty
  object, white space) and every text one edit or one truncation away from them, and a short one
  with every two edits.
* Histogram: four octaves of two buckets, values at the edges of every octave and
  beyond the range, three samples, percentiles that round to every rank.

### Fairness

* `SpscQueue`: the consumer polls forever (`run()` loops), a started `push()`
  finishes (it has no wait), and a store becomes visible to repeated loads in
  finite time. Nothing makes a producer push.
* `Engine`: each thread keeps taking steps (neither blocks on a lock), the
  exchange serves its socket, a fill that stays on the wire is received in the
  end (strong fairness per order, as other fills or an empty-looking receive may
  come first), and the gateway leaves `drain_fills()`, whose loop is bounded by
  32 datagrams in the code. No fairness on market data, on `Stop` or on faults.
* `StageThreads`: a free core is given to a waiting thread, and a thread that gets a
  core again and again takes a step. Preemption is possible but never assumed, so
  `EveryStageRuns` rests on the wait policy alone. It is claimed for one core: on
  two cores an always busy feed thread and an always busy strategy leave the gateway
  to the scheduler.
* `FeedPipeline`: the feed thread keeps polling; nothing is assumed of the
  strategy, whose failure to consume is the case under test.

## Proofs

All theorems hold for every value of the constants that satisfies the named
assumptions of the module. Each proof has the same outline: an invariant `IInv`,
defined next to the properties it explains, holds initially (`InitIInv`) and is kept
by every action (`StepIInv`, one lemma per action where that is long), and the
theorems follow from it. Every `IInv` was checked by TLC on the run's instance before
it was proved.

* **SpscQueueProofs** (`TypeCorrect`, `Conservative`, `RaceFree`, `RingIsFifo`).
  `NoSlotRace` is not inductive: it needs that each side's cache is conservative
  (`CachesConservative`) and that a side past its test has room or an item
  (`PushHasRoom`, `PopHasItem`). Two positions less than `Capacity` apart occupy
  different slots, also across the wrap, because `Capacity` divides `PosMod`
  (`SlotsDiffer`, from `RemaindersDiffer` and `MultipleVanishes`). `RingIsFifo` is
  the refinement of `BoundedFifo`: `PushPublish` is its push, `PopRead` its pop and
  every other step is invisible. It also needs `Staged`, that the slot about to be
  published holds the argument of `push()`.
* **BookViewProofs** (`BookTypeCorrect`, `TouchIsExact`). `BookTypeOK` and
  `TopOfBook` together are inductive. That each walk of `on_level_emptied()` stops at
  a level that exists (`WalkDownStops`, `WalkUpStops`) rests on the least-number
  principle (`LeastNat`), taken from the library's theorem on well-founded minima.
* **ArithmeticProofs**, risk gate (`TypeCorrect`, `RateIsBounded`, `LimiterIsExact`).
  The invariant says what the number `tat_` means: the maximum, over the accepted
  orders, of an order's time plus one interval for it and for each accepted since
  (`TatIsMax`, with the log in order, `LogOrdered`). The bound is the upper half of
  it, exactness needs that the maximum is attained.
* **ArithmeticProofs**, histogram (`HistTypeCorrect`, `PercentileIsBound`,
  `ExtremesAreExact`). The facts about buckets come first: a value's octave is where
  its leading bit puts it (`OctaveIs`), an index is read back without loss
  (`IndexUnique`), and a value's index is at most `i` exactly if the value is at most
  where bucket `i` ends (`BucketEnds`): the buckets partition the values in order,
  across the octaves' edges too, and the end of a value's bucket is within the relative
  error (`BucketError`). The invariant `HistIInv` then says that the buckets are the
  samples counted up to where each ends (`CountsAreSamples`), which `record_n` keeps
  by `BucketEnds` and `add` because sums add (`UpToAdds`); that the sum stays below
  the count times the range (`Bounded`); and that the extreme fields are those of a
  recorded value or the initial ones (`ExtremesSeen`). The first bucket that reaches
  the rank is the bucket of the exact sample (`FirstReached`). `UpTo` and `Pow2` are
  recursive functions; what they satisfy is proved from the library's theorem on
  well-founded minima (`AllNats`).
* **EngineProofs** (`TypeCorrect`, `OneOrderAtATime`, `BothCountAlike`,
  `PositionInBand`, `ExchangeWithinLimit`, `KillLetsOneThrough`). The outstanding order is in one place
  (`InOnePlace`): on its way to the gate, entered in the table, or returning to the
  strategy; whatever is under way is that order, except that fills on the wire may be
  old ones (`OnlyLatest`), and it is filled for the first time once (`SentOnce`). The three positions
  are then each at most one fill ahead of the next (`GateAhead`, `ExchangeAhead`), by the
  same order, the exchange's being counted without copies (`FirstFills`): a copy changes
  the exchange's position and `surplus` alike, and its fill is an old one. `Reduces` says that a
  strategy that has a position only ever orders it back. Faults, the kill switch and
  restarts are steps like others.
* **StageThreadsProofs** (`TypeCorrect`, `NobodyHogs`). A thread is on one core or
  once in the queue (`InOnePlace`), where its pin request lets it be
  (`WhereAllowed`), and a thread that may not spin for good has counted every idle poll
  since it got the core (`IdleCounted`). `NobodyHogs` is stated for set-ups that leave
  each stage a core it does not have to share with a pinned one (`LeavesRoom`), which TLC
  evaluates for those of the run that are meant to (`RoomAssumption`). Without it the
  claim is false: two stages pinned to one core.
* **Itch50ReplayProofs** (`TypeCorrect`, `NothingInvented`, `LevelsMatchOrders`). Between the two halves of a Replace, and before `apply()`, the
  book is behind the orders; `Settled` is the level after the deltas still held. It
  never exceeds the live orders' shares at that level (`NoMoreThanOrders`) and equals
  them at every level where no order was recorded without a delta. Equality needs
  `LevelsFit`: a level that saturates forgets how many shares rest at it. It is a
  hypothesis of `LevelsMatchOrders` only, and the run's constants meet it (three
  orders of at most two shares, and a level holds six). The sums over orders are handled
  by `TotalUpdate` (one order changes) and `TotalAtLeast`.
* **FeedPipelineProofs** (`TypeCorrect`, `QuotesStayInWindow`, `OneLevelAtATime`,
  `BookCatchesUp`). `QuotesStayInWindow` rests on `BandAssumption`: the band the mid
  walks in, and one tick around it, lie in the window, as the comment on the window's
  base asks. The book's coherence is about everything between the exchange and the book:
  `InFlight` is the queue, the feed thread's messages, the socket's datagrams, the
  datagram being filled and the messages to be emitted, in that order. The invariant
  `Chained` says of each side, of the messages under way about levels that no
  drop concerned: adds and deletes alternate, an add being followed by the delete of
  the same level (`Paired`); the first one finds the book ready for it, a delete the one
  level shown, an add an empty side (`Expected`); the last one leads to the exchange's quote
  (`LeadsTo`); and if there is none the book shows that quote (`Shows`). Moving messages from one buffer to the next leaves `InFlight` as it is
  (`CarriedOn`), consuming one takes the first (`TakeFirst`), a requote adds a delete and
  an add at the end (`AddRequote`), and dropping a message takes its level out of the claim
  altogether, so that the add and the delete of a pair go together (`LoseRun`, by
  `Shrink`), which is why the damage of a drop does not spread. Induction over
  sequences is done by least counterexample (`GreatestNat`, `FlatsExist`).
* **ConfigProofs** (`TypeCorrect`, `AcceptsWholeTexts`, `NeverStandsStill`,
  `FindsWhatTextsSay`). The
  parser is set against `Scan`, which reads the text from left to right knowing only
  quotes, escapes and brackets. `Tracks` says that the call stack holds exactly the
  brackets that the text up to the cursor leaves open, kind by kind, and that all
  others are paired; `StringsAgree` that the parser is in a string where the text is;
  `Calls` which frame each parse function returns to. A step then is a run of
  characters that are neither quotes nor brackets (`QuietRun`, `Carry`) and one bracket
  (`OpenStep`, `CloseStep`) or one character of a string (`StringStep`).
  `NeverStandsStill` uses that `get()` advances where `peek()` is not NUL.
  For `FindsWhatTextsSay` the invariant is `WInv`, which adds to `IInv` what the frames
  hold, in terms of the text alone: an object's frame has the first member of every key
  whose colon the cursor has passed (`MembersUpTo`), each value saying what
  the text says there along every rest of a path (`Reads`); every frame waits for the
  value that the frame above it builds (`FramesWait`), the top one for what begins at
  the cursor (`WaitsFor`) or for its next member (`Settled`); and an open string has been
  read up to the cursor (`StringFrom`). What `stod()` takes of a token is the longest number at
  its start (`StodTakes`), and the parser's `Unescape` adds what `Escaped` does for
  everything but `u`, which `NoUnicode` excludes. `find`, `Locate` and `Read` are recursive functions;
  `ChainsExist` gives all three their solutions and `FindRest` and `LocateRest` one step of
  each along a path, so that a value is compared with its members only (`ReadsObject`).
  `WInv` is defined in the proofs' module, as no run checks it; before its proof TLC found
  it true of every single edit of two short documents (nested and repeated keys, an escape). `ConfigAssumption` says that texts and paths are
  finite sequences, the texts of character classes.

Only model-checked, and why:

* every liveness property (`PublishedIsConsumed`, `StopReturns`, `LatchReleased`,
  `FeedNeverWedged`, `EveryStageRuns`): fairness and `ENABLED` are out of the prover's
  reach;
* the three runs that are expected to fail: a counterexample is the result.

## Not modelled

Prices and time stamps of orders, latency recording in the stages, floating-point
queries (`imbalance()`, `mean()`), the calibration of the time stamp counter
(ratios of measured times), sockets' set-up, reading files, the command lines and
signal handling of the programs, benchmarks, fuzzing and reports. The bytes of a message are a packed struct copied in one
piece; they are abstracted to its fields.

## Plan

Done: queue, book, risk gate, order path with a restart, feed path with drops,
ITCH 5.0 replay, histogram, the stage threads on shared cores, the configuration; and
the proofs listed above.

Next, in this order:

1. Engine: the real GCRA clock instead of a free verdict.
2. ITCH 5.0: framing of the file reader, and several stocks in one book.

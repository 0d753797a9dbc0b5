------------------------------ MODULE SpscQueue ------------------------------
(***************************************************************************)
(* The lock-free single-producer / single-consumer ring of spsc_queue.hpp. *)
(* One thread runs push(), one runs pop(); every access to a shared atomic *)
(* position and every access to a slot is a step of its own.               *)
(*                                                                         *)
(* The positions are std::size_t and are never masked when stored, so they *)
(* are numbers modulo PosMod (2^64 in the build, small for TLC): the model *)
(* keeps running when a position wraps.                                    *)
(*                                                                         *)
(* An acquire load of the other side's position may return any value that  *)
(* position has had since the reader's last look at it (per-location       *)
(* coherence is all C++ guarantees), so a refresh picks one of them.       *)
(***************************************************************************)
EXTENDS Naturals, Sequences

CONSTANTS Value,      \* the values that can be queued (T)
          InitValue,  \* a value-initialised T
          Capacity,   \* template argument Capacity
          PosMod      \* number of values of std::size_t

ASSUME CapacityAssumption == Capacity \in Nat /\ Capacity >= 2
ASSUME PosModAssumption ==
  PosMod \in Nat /\ PosMod > Capacity /\ PosMod % Capacity = 0
ASSUME ValueAssumption == InitValue \in Value

VARIABLES producer_pos,         \* shared: next position to write
          cached_consumer_pos,  \* producer's snapshot of consumer_pos
          consumer_pos,         \* shared: next position to read
          cached_producer_pos,  \* consumer's snapshot of producer_pos
          buf,                  \* the slots
          pushPc,               \* where the producer is in push()
          arg,                  \* push()'s argument
          popPc,                \* where the consumer is in pop()
          out                   \* pop()'s out parameter

producerVars == << producer_pos, cached_consumer_pos, pushPc, arg >>
consumerVars == << consumer_pos, cached_producer_pos, popPc, out >>
vars == << producerVars, consumerVars, buf >>

Pos == 0 .. PosMod - 1

\* size_t arithmetic: a + 1, a - b and a + k (k < PosMod), all modulo PosMod.
\* Mutant: the position is kept in a wider integer and never wraps.
Inc_NoWrap(a) == a + 1
Inc(a) == IF a = PosMod - 1 THEN 0 ELSE a + 1
Sub(a, b) == IF a >= b THEN a - b ELSE a + PosMod - b
Plus(a, k) == IF a + k < PosMod THEN a + k ELSE a + k - PosMod

\* The masked index (Capacity divides PosMod, so the mask is a remainder).
\* Mutant: the mask is off by one.
Slot_BadMask(a) == a % (Capacity - 1)
Slot(a) == a % Capacity

\* The values an acquire load of pos may return to a reader that last saw seen.
Visible(seen, pos) == { p \in Pos : Sub(p, seen) <= Sub(pos, seen) }

TypeOK ==
  /\ producer_pos \in Pos /\ consumer_pos \in Pos
  /\ cached_consumer_pos \in Pos /\ cached_producer_pos \in Pos
  /\ buf \in [0 .. Capacity - 1 -> Value]
  /\ pushPc \in {"idle", "refresh", "write", "publish"}
  /\ popPc \in {"idle", "refresh", "read", "release"}
  /\ arg \in Value /\ out \in Value

Init ==
  /\ producer_pos = 0 /\ cached_consumer_pos = 0
  /\ consumer_pos = 0 /\ cached_producer_pos = 0
  /\ buf = [i \in 0 .. Capacity - 1 |-> InitValue]
  /\ pushPc = "idle" /\ popPc = "idle"
  /\ arg = InitValue /\ out = InitValue
-----------------------------------------------------------------------------
(* push(), step by step                                                    *)

\* Mutant: off by one in the full test.
LooksFull_OffByOne(seen) == Sub(producer_pos, seen) > Capacity
LooksFull(seen) == Sub(producer_pos, seen) >= Capacity

\* Entry: consult the cached consumer position.
PushBegin(v) ==
  /\ pushPc = "idle"
  /\ arg' = v
  /\ pushPc' = IF LooksFull(cached_consumer_pos) THEN "refresh" ELSE "write"
  /\ UNCHANGED << producer_pos, cached_consumer_pos, consumerVars, buf >>

\* The cache says full: reload it; return false if it still says full.
\* Mutant: the second full test is missing.
PushRefresh_NoRecheck ==
  /\ pushPc = "refresh"
  /\ cached_consumer_pos' \in Visible(cached_consumer_pos, consumer_pos)
  /\ pushPc' = "write"
  /\ UNCHANGED << producer_pos, arg, consumerVars, buf >>
PushRefresh ==
  /\ pushPc = "refresh"
  /\ cached_consumer_pos' \in Visible(cached_consumer_pos, consumer_pos)
  /\ pushPc' = IF LooksFull(cached_consumer_pos') THEN "idle" ELSE "write"
  /\ UNCHANGED << producer_pos, arg, consumerVars, buf >>

\* The plain (non-atomic) store into the slot.
PushWrite ==
  /\ pushPc = "write"
  /\ buf' = [buf EXCEPT ![Slot(producer_pos)] = arg]
  /\ pushPc' = "publish"
  /\ UNCHANGED << producer_pos, cached_consumer_pos, arg, consumerVars >>

\* The release store that publishes the slot; push() returns true.
PushPublish ==
  /\ pushPc = "publish"
  /\ producer_pos' = Inc(producer_pos)
  /\ pushPc' = "idle"
  /\ UNCHANGED << cached_consumer_pos, arg, consumerVars, buf >>
-----------------------------------------------------------------------------
(* pop(), step by step                                                     *)

LooksEmpty(seen) == consumer_pos = seen

\* Mutant: an empty-looking snapshot is believed without a reload.
PopBegin_NoReload ==
  /\ popPc = "idle"
  /\ popPc' = IF LooksEmpty(cached_producer_pos) THEN "idle" ELSE "read"
  /\ UNCHANGED << consumer_pos, cached_producer_pos, out, producerVars, buf >>

PopBegin ==
  /\ popPc = "idle"
  /\ popPc' = IF LooksEmpty(cached_producer_pos) THEN "refresh" ELSE "read"
  /\ UNCHANGED << consumer_pos, cached_producer_pos, out, producerVars, buf >>

PopRefresh ==
  /\ popPc = "refresh"
  /\ cached_producer_pos' \in Visible(cached_producer_pos, producer_pos)
  /\ popPc' = IF LooksEmpty(cached_producer_pos') THEN "idle" ELSE "read"
  /\ UNCHANGED << consumer_pos, out, producerVars, buf >>

PopRead ==
  /\ popPc = "read"
  /\ out' = buf[Slot(consumer_pos)]
  /\ popPc' = "release"
  /\ UNCHANGED << consumer_pos, cached_producer_pos, producerVars, buf >>

PopRelease ==
  /\ popPc = "release"
  /\ consumer_pos' = Inc(consumer_pos)
  /\ popPc' = "idle"
  /\ UNCHANGED << cached_producer_pos, out, producerVars, buf >>
-----------------------------------------------------------------------------
Push == (\E v \in Value : PushBegin(v)) \/ PushRefresh \/ PushWrite \/ PushPublish
Pop == PopBegin \/ PopRefresh \/ PopRead \/ PopRelease
Next == Push \/ Pop

Spec == Init /\ [][Next]_vars

(***************************************************************************)
(* Fairness: the consumer thread polls forever (its run() loop), a push()  *)
(* that has started is finished, and a store becomes visible to a load in  *)
(* finite time: a consumer that reloads again and again gets the latest    *)
(* position in the end (the forward-progress guarantee of the language).   *)
(***************************************************************************)
SeesLatestProducer == PopRefresh /\ cached_producer_pos' = producer_pos
Fairness ==
  /\ WF_vars(PushRefresh \/ PushWrite \/ PushPublish)
  /\ WF_vars(Pop)
  /\ SF_vars(SeesLatestProducer)
FairSpec == Spec /\ Fairness
-----------------------------------------------------------------------------
(* Properties                                                              *)

\* Occupancy as a thread outside the queue would count it, modulo PosMod.
Occupancy == Sub(producer_pos, consumer_pos)

(***************************************************************************)
(* No data race on a slot: the producer's plain store into a slot and the  *)
(* consumer's plain load of it are never both about to happen.  This is    *)
(* what lets spsc_queue.hpp keep the slot data free of atomics.            *)
(***************************************************************************)
NoSlotRace ==
  ~ /\ pushPc = "write" /\ popPc = "read"
    /\ Slot(producer_pos) = Slot(consumer_pos)

(***************************************************************************)
(* Each side's snapshot of the other is stale only in the safe direction:  *)
(* the producer under-estimates the free space, the consumer the filled    *)
(* slots, so neither position overtakes the other even when they wrap.     *)
(* size_approx() therefore never exceeds Capacity.                         *)
(***************************************************************************)
CachesConservative ==
  /\ Occupancy <= Sub(producer_pos, cached_consumer_pos)
  /\ Sub(producer_pos, cached_consumer_pos) <= Capacity
  /\ Sub(cached_producer_pos, consumer_pos) <= Occupancy

(***************************************************************************)
(* The inductive strengthening behind both: a side that has passed its     *)
(* full or empty test really has a free or a filled slot at its position.  *)
(***************************************************************************)
PushHasRoom ==
  pushPc \in {"write", "publish"} => Sub(producer_pos, cached_consumer_pos) < Capacity
PopHasItem ==
  popPc \in {"read", "release"} => consumer_pos # cached_producer_pos
IInv == TypeOK /\ CachesConservative /\ PushHasRoom /\ PopHasItem

\* What is about to be published is the argument of push().
Staged == pushPc = "publish" => buf[Slot(producer_pos)] = arg

(***************************************************************************)
(* The queue implements the bounded FIFO: what push() was given comes out  *)
(* of pop() once, whole and in order.  push() takes effect when it         *)
(* publishes, pop() when it reads the slot; until the consumer stores its  *)
(* position the slot it has read is no longer part of the contents.        *)
(***************************************************************************)
Taken == IF popPc = "release" THEN 1 ELSE 0
Contents ==
  [i \in 1 .. Occupancy - Taken |-> buf[Slot(Plus(consumer_pos, i - 1 + Taken))]]

Fifo == INSTANCE BoundedFifo WITH q <- Contents, delivered <- out
ImplementsFifo == Fifo!Spec

(***************************************************************************)
(* A value that has been published is eventually taken out: the consumer   *)
(* never sleeps forever on a snapshot that says empty.                     *)
(***************************************************************************)
PublishedIsConsumed ==
  \A p \in Pos : (consumer_pos = p /\ producer_pos # p) ~> (consumer_pos # p)
=============================================================================

----------------------------- MODULE StageThreads -----------------------------
(***************************************************************************)
(* The three stage threads on the machine's cores: pinning (affinity.hpp), *)
(* the wait policy (wait_policy.hpp), and the run() loops of the feed      *)
(* handler, the strategy runner and the gateway, which turn the result of  *)
(* a poll into spinning or yielding.  The operating system may preempt a   *)
(* thread, but nothing here relies on it.                                  *)
(***************************************************************************)
EXTENDS Integers, Sequences, FiniteSets

CONSTANTS Core,              \* the cores of the largest machine considered
          Setups,            \* configurations, see Setup
          CpuSetSize,        \* CPU_SETSIZE
          SpinsBeforeYield,  \* kSpinsBeforeYield
          FeedQCap,          \* capacity of the feed queue
          Batch              \* most messages in a datagram

Stage == {"feed", "strat", "gw"}
WaitPolicy == {"kAdaptive", "kSpin", "kYield"}
\* EngineConfig: wait_policy, and feed_core, strategy_core, gateway_core; and
\* the machine's cores and whether its platform has an affinity call.
Setup == [policy : WaitPolicy, core : [Stage -> Int],
          machine : SUBSET Core, linux : BOOLEAN]

ASSUME StageAssumption ==
  /\ Setups \subseteq Setup /\ Core \subseteq 0 .. CpuSetSize - 1
  /\ SpinsBeforeYield \in Nat \ {0}
  /\ FeedQCap \in Nat \ {0} /\ Batch \in Nat \ {0}

VARIABLES setup,
          running,    \* the engine's flag
          pc,         \* a stage's place in run()
          status,     \* its AffinityResult
          spins,      \* its WaitStrategy::spins_
          ready,      \* the scheduler's run queue
          onCore,     \* who runs where
          feed_q,     \* events in the feed queue
          order,      \* where the one outstanding order is (see Engine)
          idlePolls   \* history: a core's fruitless polls in a row

osVars == << ready, onCore >>
workVars == << feed_q, order >>
vars == << setup, running, pc, status, spins, osVars, workVars, idlePolls >>

Nobody == "nobody"
AffinityStatus == {"kPinned", "kUnsupportedPlatform", "kInvalidCore", "kFailed"}

TypeOK ==
  /\ setup \in Setups /\ running \in BOOLEAN
  /\ pc \in [Stage -> {"pin", "loop", "done"}]
  /\ status \in [Stage -> AffinityStatus]
  /\ spins \in [Stage -> 0 .. SpinsBeforeYield - 1]
  /\ onCore \in [Core -> Stage \cup {Nobody}]
  /\ feed_q \in 0 .. FeedQCap
  /\ order \in {"none", "order_q", "wire", "fill_q"}
  /\ idlePolls \in [Core -> 0 .. SpinsBeforeYield + 1]

\* start() creates the threads; each of them begins with its pin request.
Init ==
  /\ setup \in Setups /\ running = TRUE
  /\ pc = [s \in Stage |-> "pin"]
  /\ status = [s \in Stage |-> "kUnsupportedPlatform"]
  /\ spins = [s \in Stage |-> 0]
  /\ ready = << "feed", "strat", "gw" >>
  /\ onCore = [c \in Core |-> Nobody]
  /\ feed_q = 0 /\ order = "none"
  /\ idlePolls = [c \in Core |-> 0]
-----------------------------------------------------------------------------
(* The scheduler                                                           *)

Allowed(s) == IF status[s] = "kPinned" THEN {setup.core[s]} ELSE setup.machine

\* The longest waiting thread that may run on c.
Dispatch(c) ==
  /\ onCore[c] = Nobody
  /\ \E i \in DOMAIN ready :
       /\ c \in Allowed(ready[i])
       /\ \A j \in 1 .. i - 1 : c \notin Allowed(ready[j])
       /\ onCore' = [onCore EXCEPT ![c] = ready[i]]
       /\ ready' = SubSeq(ready, 1, i - 1) \o SubSeq(ready, i + 1, Len(ready))
  /\ UNCHANGED << setup, running, pc, status, spins, workVars, idlePolls >>

\* The thread on c gives the core back and queues up again.
Requeue(c) ==
  /\ ready' = Append(ready, onCore[c])
  /\ onCore' = [onCore EXCEPT ![c] = Nobody]
  /\ idlePolls' = [idlePolls EXCEPT ![c] = 0]

Preempt(c) ==
  /\ onCore[c] # Nobody /\ ready # << >>
  /\ Requeue(c)
  /\ UNCHANGED << setup, running, pc, status, spins, workVars >>
-----------------------------------------------------------------------------
(* Pinning and waiting                                                     *)

\* pin_current_thread(): what a request for core k may come back with.  The
\* platform may refuse a core that the machine has.
PinOutcomes(k) ==
  CASE ~setup.linux                                 -> {"kUnsupportedPlatform"}
    [] setup.linux /\ k \notin 0 .. CpuSetSize - 1 -> {"kInvalidCore"}
    [] setup.linux /\ k \in setup.machine          -> {"kPinned", "kFailed"}
    [] OTHER                                        -> {"kFailed"}

\* run(): pin_and_name_thread().  A pinned thread moves to its core.
Pin(c, s) ==
  /\ onCore[c] = s /\ pc[s] = "pin"
  /\ \E r \in PinOutcomes(setup.core[s]) :
       /\ status' = [status EXCEPT ![s] = r]
       /\ IF r = "kPinned" /\ setup.core[s] # c
          THEN Requeue(c) ELSE UNCHANGED << osVars, idlePolls >>
  /\ pc' = [pc EXCEPT ![s] = "loop"]
  /\ UNCHANGED << setup, running, spins, workVars >>

\* Mutant: the intention counts, not the outcome of the pin request.
spin_only_Requested(s) ==
  \/ setup.policy = "kSpin"
  \/ setup.policy = "kAdaptive" /\ setup.core[s] >= 0
\* WaitStrategy's constructor.
spin_only(s) ==
  \/ setup.policy = "kSpin"
  \/ setup.policy = "kAdaptive" /\ status[s] = "kPinned"

reset(c, s) ==
  /\ spins' = [spins EXCEPT ![s] = 0]
  /\ idlePolls' = [idlePolls EXCEPT ![c] = 0]
  /\ UNCHANGED osVars

\* Mutant: the spin budget does not stop short of kSpinsBeforeYield.
YieldDue_Late(s) == ~spin_only(s) /\ spins[s] > SpinsBeforeYield
\* idle(): is this the poll that uses up the spin budget?
YieldDue(s) == ~spin_only(s) /\ spins[s] + 1 >= SpinsBeforeYield

idle(c, s) ==
  \/ /\ ~YieldDue(s)
     /\ spins' = [spins EXCEPT ![s] = IF spin_only(s) THEN @ ELSE @ + 1]
     /\ idlePolls' = [idlePolls EXCEPT ![c] = IF @ > SpinsBeforeYield THEN @ ELSE @ + 1]
     /\ UNCHANGED osVars
  \/ /\ YieldDue(s)
     /\ spins' = [spins EXCEPT ![s] = 0]
     /\ Requeue(c)

Wait(c, s, found) == IF found THEN reset(c, s) ELSE idle(c, s)
-----------------------------------------------------------------------------
(* The polls                                                               *)

Enqueued(n) == IF n <= FeedQCap - feed_q THEN n ELSE FeedQCap - feed_q

\* Mutant: what was received counts, also when all of it was dropped.
FeedFound_Received(n) == n > 0
\* FeedHandler::poll_once() returns how many messages it enqueued.
FeedFound(n) == Enqueued(n) > 0

FeedPoll(c) ==
  \E n \in 0 .. Batch :
    /\ feed_q' = feed_q + Enqueued(n)
    /\ UNCHANGED order
    /\ Wait(c, "feed", FeedFound(n))

\* StrategyRunner::poll_once(): the fills, then one event, which may cause an
\* order if none is outstanding.
AfterFills == IF order = "fill_q" THEN "none" ELSE order
StratPoll(c) ==
  \/ /\ feed_q > 0
     /\ feed_q' = feed_q - 1
     /\ order' \in {AfterFills} \cup (IF AfterFills = "none" THEN {"order_q"} ELSE {})
     /\ Wait(c, "strat", TRUE)
  \/ /\ feed_q = 0
     /\ order' = AfterFills
     /\ UNCHANGED feed_q
     /\ Wait(c, "strat", FALSE)

\* OrderGateway::poll_once(): the fills that have arrived, then one order,
\* which is sent or refused.  Only an order counts as work found.
GwPoll(c) ==
  /\ order' \in CASE order = "order_q" -> {"wire", "none"}
                  [] order = "wire"    -> {"wire", "fill_q"}
                  [] OTHER             -> {order}
  /\ UNCHANGED feed_q
  /\ Wait(c, "gw", order = "order_q")

Poll(c, s) ==
  CASE s = "feed" -> FeedPoll(c) [] s = "strat" -> StratPoll(c) [] s = "gw" -> GwPoll(c)

\* run(): the loop, left when the flag is found cleared.
LoopStep(c, s) ==
  /\ onCore[c] = s /\ pc[s] = "loop" /\ running
  /\ Poll(c, s)
  /\ UNCHANGED << setup, running, pc, status >>
Leave(c, s) ==
  /\ onCore[c] = s /\ pc[s] = "loop" /\ ~running
  /\ pc' = [pc EXCEPT ![s] = "done"]
  /\ onCore' = [onCore EXCEPT ![c] = Nobody]
  /\ idlePolls' = [idlePolls EXCEPT ![c] = 0]
  /\ UNCHANGED << setup, running, status, spins, ready, workVars >>

\* Mutant: a stage that has no work does not look at the flag.
ThreadStep_DeafWhenIdle(s) ==
  \E c \in Core : Pin(c, s) \/ LoopStep(c, s) \/ (Leave(c, s) /\ feed_q > 0)
ThreadStep(s) == \E c \in Core : Pin(c, s) \/ LoopStep(c, s) \/ Leave(c, s)

\* stop(), called from a thread of its own.
Stop ==
  /\ running
  /\ running' = FALSE
  /\ UNCHANGED << setup, pc, status, spins, osVars, workVars, idlePolls >>

Joined == \A s \in Stage : pc[s] = "done"
Terminated == Joined /\ UNCHANGED vars

Next ==
  \/ \E c \in Core : Dispatch(c) \/ Preempt(c)
  \/ \E s \in Stage : ThreadStep(s)
  \/ Stop \/ Terminated

Spec == Init /\ [][Next]_vars

(***************************************************************************)
(* A free core is given to a thread that waits, and a thread that gets the *)
(* core again and again gets to take a step.  Nothing says that a thread   *)
(* is ever preempted.                                                      *)
(***************************************************************************)
FairSpec ==
  /\ Spec
  /\ \A c \in Core : WF_vars(Dispatch(c))
  /\ \A s \in Stage : SF_vars(ThreadStep(s))
-----------------------------------------------------------------------------
(* Properties                                                              *)

IsReady(s) == \E i \in DOMAIN ready : ready[i] = s

(***************************************************************************)
(* The set-ups in which nobody is starved: everybody yields, or only the   *)
(* pinned spin and for each stage there is a core that no other stage can  *)
(* be pinned to, its own if it got one.                                    *)
(***************************************************************************)
MayPin(u, s) == IF u.linux THEN {u.core[s]} \cap u.machine ELSE {}
LeavesRoom(u) ==
  /\ u.policy # "kSpin" /\ u.machine # {}
  /\ u.policy = "kAdaptive" =>
       /\ \A s, t \in Stage : s # t => MayPin(u, s) \cap MayPin(u, t) = {}
       /\ \A s \in Stage : \E c \in u.machine : \A t \in Stage \ {s} : c \notin MayPin(u, t)

(***************************************************************************)
(* No stage waits while every core it may use is burnt by a stage that has *)
(* found nothing for more than kSpinsBeforeYield polls: a thread that did  *)
(* not get its core "lets the other side run" (wait_policy.hpp:21-24).     *)
(* In set-ups that leave room: two stages pinned to one core, or kSpin     *)
(* where cores are short, do burn it.                                      *)
(***************************************************************************)
NoIdleHogging ==
  LeavesRoom(setup) =>
    \A s \in Stage : IsReady(s) => \E c \in Allowed(s) : idlePolls[c] <= SpinsBeforeYield

(***************************************************************************)
(* On one core that leaves room every stage gets its turn, unpreempted     *)
(* and however fast market data arrives: the feed thread fills the feed    *)
(* queue, can then only drop, finds that it enqueued nothing, and yields   *)
(* to the strategy.  (On two cores, a feed thread and a strategy that are  *)
(* both always busy leave the gateway to the scheduler's preemption.)      *)
(***************************************************************************)
EveryStageRuns ==
  LeavesRoom(setup) /\ Cardinality(setup.machine) = 1 =>
    \A s \in Stage : IsReady(s) ~> ~IsReady(s)

(***************************************************************************)
(* stop() returns, also if threads that only spin share a core: each of    *)
(* them comes back to its test of the flag and then gives the core up.     *)
(***************************************************************************)
StopReturns == ~running ~> Joined
-----------------------------------------------------------------------------
(***************************************************************************)
(* The inductive strengthening: a thread is in one place, on a core that   *)
(* it may use, and a thread that will yield has polled in vain on its core *)
(* no more often than it has counted.                                      *)
(***************************************************************************)
InOnePlace ==
  /\ ready \in Seq(Stage)
  /\ \A i, j \in DOMAIN ready : ready[i] = ready[j] => i = j
  /\ \A c, d \in Core : onCore[c] = onCore[d] /\ onCore[c] # Nobody => c = d
  /\ \A c \in Core : \A i \in DOMAIN ready : onCore[c] # ready[i]
WhereAllowed ==
  /\ \A s \in Stage : status[s] = "kPinned" => pc[s] # "pin" /\ setup.core[s] \in MayPin(setup, s)
  /\ \A c \in Core : onCore[c] # Nobody => c \in Allowed(onCore[c])
IdleCounted ==
  \A c \in Core :
    /\ onCore[c] = Nobody => idlePolls[c] = 0
    /\ onCore[c] # Nobody /\ pc[onCore[c]] = "pin" => idlePolls[c] = 0
    /\ onCore[c] # Nobody /\ ~spin_only(onCore[c]) => idlePolls[c] <= spins[onCore[c]]
IInv == TypeOK /\ InOnePlace /\ WhereAllowed /\ IdleCounted
=============================================================================

---------------------------- MODULE MCStageThreads ----------------------------
(* TLC instances of StageThreads.                                           *)
EXTENDS StageThreads

\* Core 0 exists, core 2 does not, core 9 does not fit a cpu_set_t.
None == [s \in Stage |-> -1]
All(k) == [s \in Stage |-> k]

\* One shared core: nobody can be pinned, or everybody yields.
MCOneCore ==
  [policy : {"kAdaptive"}, core : {None, All(2), All(9)}, machine : {{0}}, linux : {TRUE}]
    \cup [policy : {"kAdaptive"}, core : {All(0)}, machine : {{0}}, linux : {FALSE}]
    \cup [policy : {"kYield"}, core : {None, All(0)}, machine : {{0}}, linux : {TRUE}]

\* Two cores, one of them dedicated to the feed handler or the strategy.
MCTwoCores ==
  [policy : {"kAdaptive"}, core : {[None EXCEPT !["feed"] = 0], [None EXCEPT !["strat"] = 1]},
   machine : {{0, 1}}, linux : {TRUE}]

MCSafe == MCOneCore \cup MCTwoCores

\* Everybody spins for good, on one core or two, pinned to core 0 or nowhere; and
\* adaptive stages that do so because all of them got the same core.
MCSpinning ==
  [policy : {"kSpin"}, core : {None, All(0)}, machine : {{0}, {0, 1}}, linux : {TRUE}]
    \cup [policy : {"kAdaptive"}, core : {All(0)}, machine : {{0}, {0, 1}}, linux : {TRUE}]

MCAll == MCSafe \cup MCSpinning

\* What NoIdleHogging asks of a set-up holds of these.
ASSUME RoomAssumption == \A u \in MCSafe : LeavesRoom(u)
=============================================================================

------------------------------- MODULE RiskGate -------------------------------
(***************************************************************************)
(* The pre-trade risk gate of risk_gate.hpp: kill switch, order size,      *)
(* position limit and a GCRA token bucket, checked in that order.          *)
(* The TSC is the variable now; cycles are its unit.  acceptLog is a       *)
(* history variable: when each accepted order passed.                      *)
(***************************************************************************)
EXTENDS Integers, Sequences

CONSTANTS MaxPosition,      \* RiskLimits::max_position
          MaxOrderSize,     \* RiskLimits::max_order_size
          CyclesPerToken,   \* cycles_per_token_, 0 = unlimited
          Burst,            \* RiskLimits::burst
          Size,             \* order sizes that may reach the gate
          MaxFilled,        \* bound: net shares that fills may reach
          MaxNow,           \* bound: last TSC reading
          MaxAccepts        \* bound: number of accepted orders

ASSUME LimitsAssumption ==
  /\ MaxPosition \in Nat /\ MaxOrderSize \in Nat
  /\ CyclesPerToken \in Nat /\ Burst \in Nat
  /\ Size \subseteq Nat
  /\ MaxFilled \in Nat /\ MaxNow \in Nat /\ MaxAccepts \in Nat

VARIABLES kill,       \* what the load of the shared kill flag returns
          position,   \* position_: net filled shares as the gate knows them
          tat,        \* tat_: theoretical arrival time
          now,        \* tsc_now()
          result,     \* what the latest check() returned
          acceptLog   \* history: the TSC of every accepted check()

vars == << kill, position, tat, now, result, acceptLog >>

Side == {"B", "S"}
Order == [side : Side, size : Size]
RiskResult == {"accept", "kill", "size", "position", "rate"}

\* tau_: the burst tolerance, at least one token.
tau == CyclesPerToken * (IF Burst # 0 THEN Burst ELSE 1)

Signed(side, size) == IF side = "B" THEN size ELSE -size

TypeOK ==
  /\ kill \in BOOLEAN
  /\ position \in Int
  /\ tat \in Nat /\ now \in Nat
  /\ result \in RiskResult
  /\ acceptLog \in Seq(Nat)

Init ==
  /\ kill = FALSE
  /\ position = 0
  /\ tat = 0 /\ now = 0
  /\ result = "accept"
  /\ acceptLog = << >>
-----------------------------------------------------------------------------
(* check(): each disjunct is one return, in the order of the code          *)

Earliest == IF tat > tau THEN tat - tau ELSE 0

SizeBad(o) == o.size = 0 \/ o.size > MaxOrderSize
PositionBad(o) ==
  LET projected == position + Signed(o.side, o.size)
  IN  projected > MaxPosition \/ projected < -MaxPosition
\* Mutant: one token too many is tolerated.
RateBad_OneMore == CyclesPerToken # 0 /\ now < Earliest - CyclesPerToken
RateBad == CyclesPerToken # 0 /\ now < Earliest

Reject(o) ==
  /\ \/ kill /\ result' = "kill"
     \/ ~kill /\ SizeBad(o) /\ result' = "size"
     \/ ~kill /\ ~SizeBad(o) /\ PositionBad(o) /\ result' = "position"
     \/ ~kill /\ ~SizeBad(o) /\ ~PositionBad(o) /\ RateBad /\ result' = "rate"
  /\ UNCHANGED << kill, position, tat, now, acceptLog >>

\* Mutant: an idle gate does not catch up with the clock.
NextTat_NoCatchUp == tat + CyclesPerToken
\* Mutant: the earliest time is stored instead of the arrival time.
NextTat_Credit == (IF now > tat THEN now ELSE tat) + CyclesPerToken - tau
NextTat ==
  IF CyclesPerToken = 0 THEN tat
  ELSE (IF now > tat THEN now ELSE tat) + CyclesPerToken

Accept(o) ==
  /\ ~kill /\ ~SizeBad(o) /\ ~PositionBad(o) /\ ~RateBad
  /\ Len(acceptLog) < MaxAccepts
  /\ tat' = NextTat
  /\ result' = "accept"
  /\ acceptLog' = Append(acceptLog, now)
  /\ UNCHANGED << kill, position, now >>

check(o) == Reject(o) \/ Accept(o)

\* Fill feedback from the gateway.
on_fill(side, size) ==
  /\ position' = position + Signed(side, size)
  /\ UNCHANGED << kill, tat, now, result, acceptLog >>

\* A position taken over from elsewhere; nothing in the repository calls it.
set_position(p) ==
  /\ position' = p
  /\ UNCHANGED << kill, tat, now, result, acceptLog >>

\* The operator's side: the kill flag, and the clock.
SwitchKill ==
  /\ kill' = ~kill
  /\ UNCHANGED << position, tat, now, result, acceptLog >>
ClockTicks ==
  /\ now < MaxNow
  /\ now' = now + 1
  /\ UNCHANGED << kill, position, tat, result, acceptLog >>

Next ==
  \/ \E o \in Order : check(o)
  \/ \E side \in Side, size \in Size :
       /\ position + Signed(side, size) \in -MaxFilled .. MaxFilled
       /\ on_fill(side, size)
  \/ \E p \in -MaxFilled .. MaxFilled : set_position(p)
  \/ SwitchKill
  \/ ClockTicks

Spec == Init /\ [][Next]_vars
-----------------------------------------------------------------------------
(* Properties                                                              *)

(***************************************************************************)
(* The rate bound, over every window: between two accepted orders i and j  *)
(* at least j - i token intervals pass, less the burst tolerance.          *)
(***************************************************************************)
RateBound ==
  \A i, j \in 1 .. Len(acceptLog) :
    i <= j => (j - i) * CyclesPerToken <= acceptLog[j] - acceptLog[i] + tau

(***************************************************************************)
(* The limiter is exact: the single number tat_ makes check() refuse an    *)
(* order for its rate precisely when accepting it now would break the      *)
(* bound against some earlier order, and never otherwise.                  *)
(***************************************************************************)
WouldBreakBound ==
  \E i \in 1 .. Len(acceptLog) :
    (Len(acceptLog) + 1 - i) * CyclesPerToken > now - acceptLog[i] + tau
RateExact == RateBad <=> WouldBreakBound

(***************************************************************************)
(* The inductive strengthening: tat_ is the largest time that the earlier  *)
(* accepts, each charged one interval per accept since, have reached.      *)
(***************************************************************************)
Charged(i) == acceptLog[i] + (Len(acceptLog) + 1 - i) * CyclesPerToken
LogOrdered ==
  /\ \A i \in 1 .. Len(acceptLog) : acceptLog[i] <= now
  /\ \A i, j \in 1 .. Len(acceptLog) : i <= j => acceptLog[i] <= acceptLog[j]
TatIsMax ==
  /\ acceptLog = << >> => tat = 0
  /\ CyclesPerToken # 0 =>
       /\ \A i \in 1 .. Len(acceptLog) : Charged(i) <= tat
       /\ acceptLog # << >> => \E i \in 1 .. Len(acceptLog) : Charged(i) = tat
IInv == TypeOK /\ LogOrdered /\ TatIsMax /\ RateBound
=============================================================================

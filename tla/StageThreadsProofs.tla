-------------------------- MODULE StageThreadsProofs --------------------------
(***************************************************************************)
(* The wait policy for every number of cores, every spin budget and every  *)
(* configuration: types, and who can burn a core that another needs.       *)
(***************************************************************************)
EXTENDS StageThreads, SequenceTheorems, TLAPS

LEMMA NobodyIsNoStage == Nobody \notin Stage
  BY DEF Nobody, Stage

(***************************************************************************)
(* Taking the i-th thread out of the run queue moves the later ones up.    *)
(***************************************************************************)
LEMMA TakenOut ==
  ASSUME NEW S, NEW q \in Seq(S), NEW i \in DOMAIN q
  PROVE  LET r == SubSeq(q, 1, i - 1) \o SubSeq(q, i + 1, Len(q))
         IN  /\ r \in Seq(S)
             /\ \A k \in DOMAIN r :
                  \/ k < i /\ k \in DOMAIN q /\ r[k] = q[k]
                  \/ k >= i /\ k + 1 \in DOMAIN q /\ r[k] = q[k + 1]
<1> DEFINE a == SubSeq(q, 1, i - 1)
           b == SubSeq(q, i + 1, Len(q))
           r == a \o b
<1>1. i \in 1 .. Len(q) /\ Len(q) \in Nat /\ DOMAIN q = 1 .. Len(q)
  OBVIOUS
<1>2. /\ a \in Seq(S) /\ Len(a) = i - 1
      /\ \A k \in 1 .. i - 1 : a[k] = q[k]
  BY <1>1
<1>3. /\ b \in Seq(S) /\ Len(b) = Len(q) - i
      /\ \A k \in 1 .. Len(q) - i : b[k] = q[i + k]
  BY <1>1
<1> HIDE DEF a, b
<1>4. /\ r \in Seq(S) /\ DOMAIN r = 1 .. Len(q) - 1
      /\ \A k \in 1 .. i - 1 : r[k] = a[k]
      /\ \A k \in i .. Len(q) - 1 : r[k] = b[k - (i - 1)]
  <2>1. /\ r \in Seq(S) /\ Len(r) = Len(a) + Len(b)
        /\ \A k \in 1 .. Len(a) + Len(b) : r[k] = IF k <= Len(a) THEN a[k] ELSE b[k - Len(a)]
    BY <1>2, <1>3, ConcatProperties
  <2> HIDE DEF r
  <2>2. QED
    BY <1>1, <1>2, <1>3, <2>1
<1> HIDE DEF r
<1>5. ASSUME NEW k \in DOMAIN r
      PROVE  \/ k < i /\ k \in DOMAIN q /\ r[k] = q[k]
             \/ k >= i /\ k + 1 \in DOMAIN q /\ r[k] = q[k + 1]
  <2>1. CASE k < i
    BY <1>1, <1>2, <1>4, <2>1
  <2>2. CASE k >= i
    <3>1. k - (i - 1) \in 1 .. Len(q) - i /\ i + (k - (i - 1)) = k + 1
      BY <1>1, <1>4, <2>2
    <3>2. r[k] = b[k - (i - 1)]
      BY <1>1, <1>4, <2>2
    <3>3. r[k] = q[k + 1]
      BY <1>3, <3>1, <3>2
    <3>4. QED
      BY <1>1, <1>4, <2>2, <3>3
  <2>3. QED
    BY <1>1, <1>4, <2>1, <2>2
<1>6. QED
  BY <1>4, <1>5 DEF r, a, b

LEMMA InitIInv == Init => IInv
<1> SUFFICES ASSUME Init PROVE IInv
  OBVIOUS
<1> USE StageAssumption DEF Init
<1>1. TypeOK
  <2>1. running \in BOOLEAN
    BY Zenon
  <2>2. QED
    BY <2>1 DEF TypeOK, AffinityStatus, Nobody
<1>2. InOnePlace
  <2>1. ready \in Seq(Stage)
    BY DEF Stage
  <2>2. QED
    BY <2>1, NobodyIsNoStage DEF InOnePlace, Stage
<1>3. WhereAllowed /\ IdleCounted
  BY DEF WhereAllowed, IdleCounted
<1>4. QED
  BY <1>1, <1>2, <1>3 DEF IInv

(***************************************************************************)
(* Giving a core back.                                                     *)
(***************************************************************************)
LEMMA RequeueKeepsPlaces ==
  ASSUME IInv, NEW c \in Core, onCore[c] # Nobody, Requeue(c)
  PROVE  /\ InOnePlace'
         /\ onCore' \in [Core -> Stage \cup {Nobody}]
         /\ idlePolls' \in [Core -> 0 .. SpinsBeforeYield + 1]
         /\ onCore'[c] = Nobody /\ idlePolls'[c] = 0
         /\ \A d \in Core \ {c} : onCore'[d] = onCore[d] /\ idlePolls'[d] = idlePolls[d]
<1> USE StageAssumption DEF IInv, TypeOK
<1>1. /\ onCore' \in [Core -> Stage \cup {Nobody}]
      /\ idlePolls' \in [Core -> 0 .. SpinsBeforeYield + 1]
      /\ onCore'[c] = Nobody /\ idlePolls'[c] = 0
      /\ \A d \in Core \ {c} : onCore'[d] = onCore[d] /\ idlePolls'[d] = idlePolls[d]
  BY DEF Requeue
<1>2. onCore[c] \in Stage /\ ready \in Seq(Stage) /\ ready' = Append(ready, onCore[c])
  BY DEF Requeue, InOnePlace
<1>3. /\ ready' \in Seq(Stage) /\ DOMAIN ready' = 1 .. Len(ready) + 1
      /\ DOMAIN ready = 1 .. Len(ready) /\ Len(ready) \in Nat
      /\ ready'[Len(ready) + 1] = onCore[c]
      /\ \A k \in 1 .. Len(ready) : ready'[k] = ready[k]
  BY <1>2
<1>4. \A i, j \in DOMAIN ready' : ready'[i] = ready'[j] => i = j
  <2>1. \A k, l \in DOMAIN ready : ready[k] = ready[l] => k = l
    BY DEF InOnePlace
  <2>2. \A k \in DOMAIN ready : ready[k] # onCore[c]
    BY DEF InOnePlace
  <2> HIDE DEF IInv, TypeOK
  <2>3. QED
    BY <1>3, <2>1, <2>2
<1>5. \A d, e \in Core : onCore'[d] = onCore'[e] /\ onCore'[d] # Nobody => d = e
  BY <1>1 DEF InOnePlace
<1>6. \A d \in Core : \A i \in DOMAIN ready' : onCore'[d] # ready'[i]
  BY <1>1, <1>2, <1>3, NobodyIsNoStage DEF InOnePlace
<1>7. QED
  BY <1>1, <1>3, <1>4, <1>5, <1>6 DEF InOnePlace

LEMMA DispatchStep ==
  ASSUME IInv, NEW c \in Core, Dispatch(c)
  PROVE  IInv'
<1> USE DEF IInv, TypeOK, workVars
<1>1. PICK i \in DOMAIN ready :
        /\ c \in Allowed(ready[i])
        /\ onCore' = [onCore EXCEPT ![c] = ready[i]]
        /\ ready' = SubSeq(ready, 1, i - 1) \o SubSeq(ready, i + 1, Len(ready))
  BY DEF Dispatch
<1>2. /\ UNCHANGED << setup, running, pc, status, spins, feed_q, order, idlePolls >>
      /\ onCore[c] = Nobody
  BY DEF Dispatch
<1>3. ready \in Seq(Stage) /\ ready[i] \in Stage
  BY <1>1 DEF InOnePlace
<1>4. /\ ready' \in Seq(Stage)
      /\ \A k \in DOMAIN ready' :
           \/ k < i /\ k \in DOMAIN ready /\ ready'[k] = ready[k]
           \/ k >= i /\ k + 1 \in DOMAIN ready /\ ready'[k] = ready[k + 1]
  BY <1>1, <1>3, TakenOut
<1>5. DOMAIN ready \subseteq Int /\ DOMAIN ready' \subseteq Int
  BY <1>3, <1>4
<1>6. onCore'[c] = ready[i] /\ \A d \in Core \ {c} : onCore'[d] = onCore[d]
  BY <1>1
<1>7. TypeOK'
  <2>1. running' \in BOOLEAN
    BY <1>2, Zenon
  <2>2. QED
    BY <1>1, <1>2, <1>3, <2>1
<1>8. InOnePlace'
  <2>0. \A k, l \in DOMAIN ready : ready[k] = ready[l] => k = l
    BY DEF InOnePlace
  <2>5. \A d \in Core : \A k \in DOMAIN ready : onCore[d] # ready[k]
    BY DEF InOnePlace
  <2>6. ASSUME NEW d \in Core, NEW e \in Core, onCore[d] = onCore[e], onCore[d] # Nobody
        PROVE  d = e
    BY <2>6 DEF InOnePlace
  <2> HIDE DEF IInv, TypeOK
  <2>1. \A k, l \in DOMAIN ready' : ready'[k] = ready'[l] => k = l
    BY <1>4, <1>5, <2>0
  <2>2. \A k \in DOMAIN ready' : ready'[k] # ready[i]
    BY <1>4, <1>5, <2>0
  <2>3. \A d, e \in Core : onCore'[d] = onCore'[e] /\ onCore'[d] # Nobody => d = e
    BY <1>1, <1>6, <2>5, <2>6
  <2>4. \A d \in Core : \A k \in DOMAIN ready' : onCore'[d] # ready'[k]
    BY <1>4, <1>6, <2>2, <2>5
  <2>7. QED
    BY <1>4, <2>1, <2>3, <2>4 DEF InOnePlace
<1>9. WhereAllowed'
  BY <1>1, <1>2, <1>6 DEF WhereAllowed, Allowed
<1>10. IdleCounted'
  <2>1. spins[ready[i]] \in Nat /\ idlePolls[c] = 0
    BY <1>2, <1>3, StageAssumption DEF IdleCounted
  <2>2. QED
    BY <1>2, <1>6, <2>1 DEF IdleCounted, spin_only
<1>11. QED
  BY <1>7, <1>8, <1>9, <1>10

(***************************************************************************)
(* A thread gives its core back: what is left to show is that its status,  *)
(* its place in run() and its spin count were set as they may be.          *)
(***************************************************************************)
LEMMA RequeueStep ==
  ASSUME IInv, NEW c \in Core, onCore[c] # Nobody, Requeue(c),
         setup' = setup, running' = running,
         pc' \in [Stage -> {"pin", "loop", "done"}],
         status' \in [Stage -> AffinityStatus],
         spins' \in [Stage -> 0 .. SpinsBeforeYield - 1],
         feed_q' \in 0 .. FeedQCap,
         order' \in {"none", "order_q", "wire", "fill_q"},
         \A s \in Stage \ {onCore[c]} : status'[s] = status[s] /\ pc'[s] = pc[s] /\ spins'[s] = spins[s],
         status'[onCore[c]] = "kPinned" =>
           pc'[onCore[c]] # "pin" /\ setup.core[onCore[c]] \in MayPin(setup, onCore[c])
  PROVE  IInv'
<1>1. /\ InOnePlace'
      /\ onCore' \in [Core -> Stage \cup {Nobody}]
      /\ idlePolls' \in [Core -> 0 .. SpinsBeforeYield + 1]
      /\ onCore'[c] = Nobody /\ idlePolls'[c] = 0
      /\ \A d \in Core \ {c} : onCore'[d] = onCore[d] /\ idlePolls'[d] = idlePolls[d]
  BY RequeueKeepsPlaces
<1>2. TypeOK'
  <2>1. running' \in BOOLEAN
    BY Zenon DEF IInv, TypeOK
  <2>2. setup' \in Setups
    BY DEF IInv, TypeOK
  <2>3. QED
    BY <1>1, <2>1, <2>2 DEF TypeOK
<1>3. \A d \in Core \ {c} : onCore[d] # Nobody => onCore[d] \in Stage \ {onCore[c]}
  BY DEF IInv, InOnePlace, TypeOK
<1>4. WhereAllowed'
  <2>1. \A s \in Stage :
          status'[s] = "kPinned" => pc'[s] # "pin" /\ setup'.core[s] \in MayPin(setup', s)
    BY DEF IInv, WhereAllowed
  <2>2. (\A d \in Core : onCore[d] # Nobody => d \in Allowed(onCore[d]))'
    BY <1>1, <1>3 DEF IInv, WhereAllowed, Allowed
  <2>3. QED
    BY <2>1, <2>2 DEF WhereAllowed
<1>5. IdleCounted'
  BY <1>1, <1>3 DEF IInv, IdleCounted, spin_only
<1>6. QED
  BY <1>1, <1>2, <1>4, <1>5 DEF IInv

(***************************************************************************)
(* A thread that stays on its core after a poll.                           *)
(***************************************************************************)
LEMMA StayStep ==
  ASSUME IInv, NEW c \in Core, onCore[c] # Nobody, UNCHANGED << osVars, setup, running, pc, status >>,
         spins' \in [Stage -> 0 .. SpinsBeforeYield - 1],
         idlePolls' \in [Core -> 0 .. SpinsBeforeYield + 1],
         feed_q' \in 0 .. FeedQCap,
         order' \in {"none", "order_q", "wire", "fill_q"},
         \A s \in Stage \ {onCore[c]} : spins'[s] = spins[s],
         \A d \in Core \ {c} : idlePolls'[d] = idlePolls[d],
         pc[onCore[c]] # "pin",
         ~spin_only(onCore[c]) => idlePolls'[c] <= spins'[onCore[c]]
  PROVE  IInv'
<1> USE DEF osVars
<1>1. TypeOK'
  <2>1. running' \in BOOLEAN
    BY Zenon DEF IInv, TypeOK
  <2>2. QED
    BY <2>1 DEF IInv, TypeOK
<1>2. InOnePlace' /\ WhereAllowed'
  BY DEF IInv, InOnePlace, WhereAllowed, Allowed
<1>3. \A d \in Core \ {c} : onCore[d] # Nobody => onCore[d] \in Stage \ {onCore[c]}
  BY DEF IInv, InOnePlace, TypeOK
<1>4. IdleCounted'
  <2>1. \A s : spin_only(s)' <=> spin_only(s)
    BY DEF spin_only
  <2>2. QED
    BY <1>3, <2>1 DEF IInv, IdleCounted
<1>5. QED
  BY <1>1, <1>2, <1>4 DEF IInv

LEMMA WaitStep ==
  ASSUME IInv, NEW c \in Core, NEW s \in Stage, onCore[c] = s, pc[s] = "loop", NEW found,
         Wait(c, s, found), UNCHANGED << setup, running, pc, status >>,
         feed_q' \in 0 .. FeedQCap,
         order' \in {"none", "order_q", "wire", "fill_q"}
  PROVE  IInv'
<1> USE StageAssumption
<1>0. onCore[c] # Nobody
  BY NobodyIsNoStage
<1>1. /\ spins \in [Stage -> 0 .. SpinsBeforeYield - 1]
      /\ idlePolls \in [Core -> 0 .. SpinsBeforeYield + 1]
      /\ pc \in [Stage -> {"pin", "loop", "done"}]
      /\ status \in [Stage -> AffinityStatus]
  BY DEF IInv, TypeOK
<1>2. ASSUME reset(c, s) PROVE IInv'
  <2>1. /\ spins' \in [Stage -> 0 .. SpinsBeforeYield - 1] /\ spins'[s] = 0
        /\ \A t \in Stage \ {s} : spins'[t] = spins[t]
        /\ idlePolls' \in [Core -> 0 .. SpinsBeforeYield + 1] /\ idlePolls'[c] = 0
        /\ \A d \in Core \ {c} : idlePolls'[d] = idlePolls[d]
    BY <1>1, <1>2 DEF reset
  <2>2. QED
    BY <1>0, <1>2, <2>1, StayStep DEF reset
<1>3. ASSUME idle(c, s) PROVE IInv'
  <2>1. CASE ~YieldDue(s)
    <3>1. /\ UNCHANGED osVars
          /\ spins' = [spins EXCEPT ![s] = IF spin_only(s) THEN @ ELSE @ + 1]
          /\ idlePolls' = [idlePolls EXCEPT ![c] = IF @ > SpinsBeforeYield THEN @ ELSE @ + 1]
      BY <1>3, <2>1 DEF idle
    <3>2. /\ idlePolls' \in [Core -> 0 .. SpinsBeforeYield + 1]
          /\ \A d \in Core \ {c} : idlePolls'[d] = idlePolls[d]
      BY <1>1, <3>1
    <3>3. /\ spins' \in [Stage -> 0 .. SpinsBeforeYield - 1]
          /\ \A t \in Stage \ {s} : spins'[t] = spins[t]
          /\ ~spin_only(s) => spins'[s] = spins[s] + 1
      BY <1>1, <2>1, <3>1 DEF YieldDue
    <3>4. ~spin_only(s) => idlePolls'[c] <= spins'[s]
      <4>1. ~spin_only(s) => idlePolls[c] <= spins[s]
        BY <1>0 DEF IInv, IdleCounted
      <4>2. QED
        BY <1>1, <3>1, <3>3, <4>1
    <3>5. QED
      BY <1>0, <3>1, <3>2, <3>3, <3>4, StayStep
  <2>2. CASE YieldDue(s)
    <3>1. spins' = [spins EXCEPT ![s] = 0] /\ Requeue(c)
      BY <1>3, <2>2 DEF idle
    <3>2. /\ spins' \in [Stage -> 0 .. SpinsBeforeYield - 1]
          /\ \A t \in Stage \ {s} : spins'[t] = spins[t]
      BY <1>1, <3>1
    <3>3. status[s] = "kPinned" => pc[s] # "pin" /\ setup.core[s] \in MayPin(setup, s)
      BY DEF IInv, WhereAllowed
    <3>4. QED
      BY <1>0, <1>1, <3>1, <3>2, <3>3, RequeueStep
  <2>3. QED
    BY <2>1, <2>2
<1>4. QED
  BY <1>2, <1>3 DEF Wait

LEMMA PollStep ==
  ASSUME IInv, NEW c \in Core, NEW s \in Stage, LoopStep(c, s)
  PROVE  IInv'
<1> USE StageAssumption DEF LoopStep
<1>1. feed_q \in 0 .. FeedQCap /\ order \in {"none", "order_q", "wire", "fill_q"}
  BY DEF IInv, TypeOK
<1>2. CASE s = "feed"
  <2>1. PICK n \in 0 .. Batch : /\ feed_q' = feed_q + Enqueued(n) /\ order' = order
                                /\ Wait(c, "feed", FeedFound(n))
    BY <1>2 DEF Poll, FeedPoll
  <2>2. feed_q' \in 0 .. FeedQCap
    BY <1>1, <2>1 DEF Enqueued
  <2>3. QED
    BY <1>1, <1>2, <2>1, <2>2, WaitStep
<1>3. CASE s = "strat"
  <2>1. StratPoll(c)
    BY <1>3 DEF Poll
  <2>2. Wait(c, "strat", TRUE) \/ Wait(c, "strat", FALSE)
    BY <2>1, Zenon DEF StratPoll
  <2>3. /\ \/ feed_q > 0 /\ feed_q' = feed_q - 1
           \/ feed_q' = feed_q
        /\ order' \in {AfterFills, "order_q"}
    BY <2>1, Zenon DEF StratPoll
  <2>4. AfterFills \in {"none", "order_q", "wire", "fill_q"}
    BY <1>1 DEF AfterFills
  <2>5. feed_q' \in 0 .. FeedQCap /\ order' \in {"none", "order_q", "wire", "fill_q"}
    BY <1>1, <2>3, <2>4
  <2>6. QED
    BY <1>3, <2>2, <2>5, WaitStep
<1>4. CASE s = "gw"
  <2>1. GwPoll(c)
    BY <1>4 DEF Poll
  <2>2. /\ feed_q' \in 0 .. FeedQCap /\ order' \in {"none", "order_q", "wire", "fill_q"}
        /\ Wait(c, "gw", order = "order_q")
    BY <1>1, <2>1 DEF GwPoll
  <2>3. QED
    BY <1>4, <2>2, WaitStep
<1>5. QED
  BY <1>2, <1>3, <1>4 DEF Stage

LEMMA PinStep ==
  ASSUME IInv, NEW c \in Core, NEW s \in Stage, Pin(c, s)
  PROVE  IInv'
<1>1. PICK r \in PinOutcomes(setup.core[s]) :
        /\ status' = [status EXCEPT ![s] = r]
        /\ IF r = "kPinned" /\ setup.core[s] # c
           THEN Requeue(c) ELSE UNCHANGED << osVars, idlePolls >>
  BY DEF Pin
<1>2. /\ onCore[c] = s /\ pc[s] = "pin" /\ pc' = [pc EXCEPT ![s] = "loop"]
      /\ UNCHANGED << setup, running, spins, feed_q, order >> /\ onCore[c] # Nobody
  BY NobodyIsNoStage DEF Pin, workVars
<1>3. r \in AffinityStatus /\ (r = "kPinned" => setup.core[s] \in MayPin(setup, s))
  BY <1>1 DEF PinOutcomes, AffinityStatus, MayPin
<1>4. /\ pc' \in [Stage -> {"pin", "loop", "done"}] /\ status' \in [Stage -> AffinityStatus]
      /\ pc'[s] = "loop" /\ status'[s] = r
      /\ \A t \in Stage \ {s} : pc'[t] = pc[t] /\ status'[t] = status[t]
  BY <1>1, <1>2, <1>3 DEF IInv, TypeOK
<1>5. CASE r = "kPinned" /\ setup.core[s] # c
  <2>1. /\ Requeue(c) /\ spins' \in [Stage -> 0 .. SpinsBeforeYield - 1]
        /\ feed_q' \in 0 .. FeedQCap /\ order' \in {"none", "order_q", "wire", "fill_q"}
    BY <1>1, <1>2, <1>5 DEF IInv, TypeOK
  <2>2. QED
    BY <1>2, <1>3, <1>4, <2>1, RequeueStep
<1>6. CASE ~(r = "kPinned" /\ setup.core[s] # c)
  <2>1. UNCHANGED << ready, onCore, idlePolls >>
    BY <1>1, <1>6 DEF osVars
  <2>2. TypeOK'
    <3>1. running' \in BOOLEAN
      BY <1>2, Zenon DEF IInv, TypeOK
    <3>2. QED
      BY <1>2, <1>4, <2>1, <3>1 DEF IInv, TypeOK
  <2>3. InOnePlace'
    BY <2>1 DEF IInv, InOnePlace
  <2>4. \A d \in Core \ {c} : onCore[d] # Nobody => onCore[d] \in Stage \ {s}
    BY <1>2 DEF IInv, InOnePlace, TypeOK
  <2>5. WhereAllowed'
    <3>1. c \in setup.machine
      BY <1>2 DEF IInv, WhereAllowed, Allowed
    <3>2. c \in Allowed(s)'
      BY <1>2, <1>4, <1>6, <3>1 DEF Allowed
    <3>3. (\A d \in Core : onCore[d] # Nobody => d \in Allowed(onCore[d]))'
      BY <1>2, <1>4, <2>1, <2>4, <3>2 DEF IInv, WhereAllowed, Allowed
    <3>4. \A t \in Stage :
            status'[t] = "kPinned" => pc'[t] # "pin" /\ setup'.core[t] \in MayPin(setup', t)
      BY <1>2, <1>3, <1>4 DEF IInv, WhereAllowed
    <3>5. QED
      BY <3>3, <3>4 DEF WhereAllowed
  <2>6. IdleCounted'
    <3>1. idlePolls[c] = 0 /\ spins[s] >= 0
      BY <1>2, StageAssumption DEF IInv, IdleCounted, TypeOK
    <3>2. QED
      BY <1>2, <1>4, <2>1, <2>4, <3>1 DEF IInv, IdleCounted, spin_only
  <2>7. QED
    BY <2>2, <2>3, <2>5, <2>6 DEF IInv
<1>7. QED
  BY <1>5, <1>6

LEMMA LeaveStep ==
  ASSUME IInv, NEW c \in Core, NEW s \in Stage, Leave(c, s)
  PROVE  IInv'
<1> USE DEF Leave, workVars
<1>1. /\ onCore' \in [Core -> Stage \cup {Nobody}]
      /\ idlePolls' \in [Core -> 0 .. SpinsBeforeYield + 1]
      /\ pc' \in [Stage -> {"pin", "loop", "done"}]
      /\ onCore'[c] = Nobody /\ idlePolls'[c] = 0 /\ pc'[s] = "done"
      /\ \A d \in Core \ {c} : onCore'[d] = onCore[d] /\ idlePolls'[d] = idlePolls[d]
      /\ \A t \in Stage \ {s} : pc'[t] = pc[t]
  BY StageAssumption DEF IInv, TypeOK
<1>2. TypeOK'
  <2>1. running' \in BOOLEAN
    BY Zenon DEF IInv, TypeOK
  <2>2. QED
    BY <1>1, <2>1 DEF IInv, TypeOK
<1>3. InOnePlace'
  BY <1>1, NobodyIsNoStage DEF IInv, InOnePlace
<1>4. WhereAllowed'
  BY <1>1 DEF IInv, WhereAllowed, Allowed
<1>5. \A d \in Core \ {c} : onCore[d] # Nobody => onCore[d] \in Stage \ {s}
  BY DEF IInv, InOnePlace, TypeOK
<1>6. IdleCounted'
  BY <1>1, <1>5 DEF IInv, IdleCounted, spin_only
<1>7. QED
  BY <1>2, <1>3, <1>4, <1>6 DEF IInv

(***************************************************************************)
(* IInv is inductive: the scheduler, the threads and stop() keep it.       *)
(***************************************************************************)
LEMMA StepIInv == IInv /\ [Next]_vars => IInv'
<1> SUFFICES ASSUME IInv, [Next]_vars PROVE IInv'
  OBVIOUS
<1>1. ASSUME NEW c \in Core, Dispatch(c) PROVE IInv'
  BY <1>1, DispatchStep
<1>2. ASSUME NEW c \in Core, Preempt(c) PROVE IInv'
  <2>1. onCore[c] \in Stage
    BY <1>2 DEF Preempt, IInv, TypeOK
  <2>2. QED
    BY <1>2, <2>1, RequeueStep DEF Preempt, workVars, IInv, TypeOK, WhereAllowed
<1>3. ASSUME NEW s \in Stage, NEW c \in Core, Pin(c, s) PROVE IInv'
  BY <1>3, PinStep
<1>4. ASSUME NEW s \in Stage, NEW c \in Core, LoopStep(c, s) PROVE IInv'
  BY <1>4, PollStep
<1>5. ASSUME NEW s \in Stage, NEW c \in Core, Leave(c, s) PROVE IInv'
  BY <1>5, LeaveStep
<1>6. ASSUME UNCHANGED << setup, pc, status, spins, osVars, workVars, idlePolls >>,
             running' \in BOOLEAN
      PROVE  IInv'
  BY <1>6 DEF IInv, TypeOK, InOnePlace, WhereAllowed, IdleCounted, Allowed, spin_only,
              osVars, workVars
<1>7. CASE Stop
  <2>1. running' \in BOOLEAN
    BY <1>7, Zenon DEF Stop
  <2>2. QED
    BY <1>6, <1>7, <2>1 DEF Stop
<1>8. CASE UNCHANGED vars
  <2>1. running' \in BOOLEAN
    BY <1>8, Zenon DEF vars, IInv, TypeOK
  <2>2. QED
    BY <1>6, <1>8, <2>1 DEF vars
<1>9. QED
  BY <1>1, <1>2, <1>3, <1>4, <1>5, <1>7, <1>8 DEF Next, ThreadStep, Terminated

LEMMA AlwaysIInv == Spec => []IInv
  BY InitIInv, StepIInv, PTL DEF Spec

(***************************************************************************)
(* The stages' state keeps its type: in particular a spin count never      *)
(* reaches kSpinsBeforeYield, and the feed queue never exceeds its         *)
(* capacity.                                                               *)
(***************************************************************************)
THEOREM TypeCorrect == Spec => []TypeOK
<1>1. IInv => TypeOK
  BY DEF IInv
<1>2. QED
  BY <1>1, AlwaysIInv, PTL

(***************************************************************************)
(* In a configuration that leaves room, no stage waits for cores that      *)
(* are all burnt by stages with nothing to do: a thread that was not given *)
(* the core it asked for yields, and one that was has it to itself.        *)
(***************************************************************************)
THEOREM NobodyHogs == Spec => []NoIdleHogging
<1>1. IInv => NoIdleHogging
  <2> SUFFICES ASSUME IInv, LeavesRoom(setup), NEW s \in Stage, IsReady(s)
               PROVE  \E c \in Allowed(s) : idlePolls[c] <= SpinsBeforeYield
    BY DEF NoIdleHogging
  <2>1. LeavesRoom(setup) /\ setup.machine \subseteq Core
    BY StageAssumption DEF IInv, TypeOK, Setup
  <2>2. ASSUME NEW c \in Core, idlePolls[c] > SpinsBeforeYield
        PROVE  /\ setup.policy = "kAdaptive" /\ onCore[c] \in Stage \ {s}
               /\ c \in MayPin(setup, onCore[c])
    <3>1. onCore[c] \in Stage
      BY <2>2, StageAssumption DEF IInv, TypeOK, IdleCounted
    <3>2. onCore[c] # s
      BY DEF IsReady, IInv, InOnePlace
    <3>3. spin_only(onCore[c])
      BY <2>2, <3>1, StageAssumption DEF IInv, TypeOK, IdleCounted
    <3>4. setup.policy = "kAdaptive" /\ status[onCore[c]] = "kPinned"
      BY <2>1, <3>3 DEF LeavesRoom, spin_only
    <3>5. c = setup.core[onCore[c]]
      BY <3>1, <3>4, NobodyIsNoStage DEF IInv, WhereAllowed, Allowed
    <3>6. QED
      BY <3>1, <3>2, <3>4, <3>5 DEF IInv, WhereAllowed
  <2>3. \A c \in Core : idlePolls[c] \in Int
    BY StageAssumption DEF IInv, TypeOK
  <2>4. PICK c \in Allowed(s) : /\ c \in Core
                                /\ setup.policy = "kAdaptive" =>
                                     \A t \in Stage \ {s} : c \notin MayPin(setup, t)
    <3>1. CASE status[s] = "kPinned"
      BY <2>1, <3>1 DEF IInv, WhereAllowed, Allowed, MayPin, LeavesRoom
    <3>2. CASE status[s] # "kPinned"
      BY <2>1, <3>2 DEF Allowed, LeavesRoom
    <3>3. QED
      BY <3>1, <3>2
  <2>5. QED
    BY <2>2, <2>3, <2>4, StageAssumption
<1>2. QED
  BY <1>1, AlwaysIInv, PTL
=============================================================================

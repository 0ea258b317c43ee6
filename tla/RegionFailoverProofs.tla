------------------------- MODULE RegionFailoverProofs -------------------------
(***************************************************************************)
(* Proofs about RegionFailover, for any endpoints, priorities, lists,      *)
(* postures and number of strikes.                                         *)
(***************************************************************************)
EXTENDS RegionFailover, CollectionLemmas

-----------------------------------------------------------------------------
(* The ranking has a best endpoint.                                         *)

\* An allowed endpoint has a place of its own in the list.
LEMMA PlaceType ==
  ASSUME TypeOK
  PROVE  /\ allowed \in Seq(Endpoints) /\ Allowed \subseteq Endpoints
         /\ \A x \in Allowed : Place(x) \in Nat /\ allowed[Place(x)] = x
<1>1. allowed \in Seq(Endpoints)
  BY FailoverAssumption DEF TypeOK
<1>2. \A x \in Allowed : Place(x) \in DOMAIN allowed /\ allowed[Place(x)] = x
  BY DEF Allowed, Range, Place
<1>3. DOMAIN allowed \subseteq Nat /\ \A i \in DOMAIN allowed : allowed[i] \in Endpoints
  BY <1>1
<1> QED BY <1>1, <1>2, <1>3 DEF Allowed, Range

\* Among endpoints that work, one has the best priority.
LEMMA BestRank ==
  ASSUME TypeOK, NEW H \in SUBSET Endpoints, H # {}
  PROVE  \E x \in H : \A y \in H : PriorityOf(x) = PriorityOf(y) \/ Outranks(PriorityOf(x), PriorityOf(y))
<1>1. \A x \in H : PriorityOf(x) \in Nat
  BY FailoverAssumption DEF PriorityOf
<1>2. CASE \A x \in H : PriorityOf(x) = 0
  BY <1>2
<1>3. CASE \E x \in H : PriorityOf(x) # 0
  <2> DEFINE S == {x \in H : PriorityOf(x) # 0}
             f == [x \in S |-> PriorityOf(x)]
  <2>1. S # {} /\ f \in [S -> Nat]
    BY <1>1, <1>3
  <2>2. PICK x \in S : \A y \in S : f[x] <= f[y]
    <3> HIDE DEF S, f
    <3> QED BY <2>1, Least
  <2>3. \A y \in S : PriorityOf(x) <= PriorityOf(y)
    BY <2>2
  <2> QED BY <1>1, <2>3 DEF Outranks
<1> QED BY <1>2, <1>3

\* rankHealthy has a first: the endpoint Nearest names works and comes before
\* every other that works.
LEMMA NearestExists ==
  ASSUME TypeOK, Healthy # {}, NEW rtt \in [Endpoints -> 1 .. 2]
  PROVE  Nearest(rtt) \in Healthy /\ \A y \in Healthy \ {Nearest(rtt)} : Before(Nearest(rtt), y, rtt)
<1>1. Healthy \subseteq Allowed /\ Healthy \in SUBSET Endpoints
  BY PlaceType DEF Healthy
<1>2. PICK a \in Healthy : \A y \in Healthy : PriorityOf(a) = PriorityOf(y) \/ Outranks(PriorityOf(a), PriorityOf(y))
  BY <1>1, BestRank
<1> DEFINE S == {x \in Healthy : PriorityOf(x) = PriorityOf(a)}
           f == [x \in S |-> rtt[x]]
<1>3. S # {} /\ f \in [S -> Nat]
  BY <1>1
<1>4. PICK b \in S : \A y \in S : f[b] <= f[y]
  <2> HIDE DEF S, f
  <2> QED BY <1>3, Least
<1> DEFINE T == {x \in S : rtt[x] = rtt[b]}
           g == [x \in T |-> Place(x)]
<1>5. \A y \in S : rtt[b] \in Nat /\ rtt[y] \in Nat /\ (y \in T \/ rtt[b] < rtt[y])
  <2>1. \A y \in S : rtt[b] <= rtt[y] /\ rtt[b] \in Nat /\ rtt[y] \in Nat
    BY <1>1, <1>4
  <2> QED BY <2>1
<1>6. T # {} /\ g \in [T -> Nat]
  BY <1>1, PlaceType
<1>7. PICK c \in T : \A y \in T : g[c] <= g[y]
  <2> HIDE DEF T, g
  <2> QED BY <1>6, Least
<1>8. \A y \in T : y # c => Place(c) < Place(y)
  <2>1. \A y \in T : Place(c) \in Nat /\ Place(y) \in Nat /\ Place(c) <= Place(y)
    BY <1>1, <1>7, PlaceType
  <2>2. \A y \in T : allowed[Place(c)] = c /\ allowed[Place(y)] = y
    BY <1>1, PlaceType
  <2> QED BY <2>1, <2>2
<1> DEFINE x == IF home \in T THEN home ELSE c
<1>9. x \in Healthy /\ x \in T
  OBVIOUS
<1>10. \A y \in Healthy \ {x} : Before(x, y, rtt)
  <2> SUFFICES ASSUME NEW y \in Healthy, y # x PROVE Before(x, y, rtt)
    OBVIOUS
  <2>1. CASE y \notin S
    BY <1>2, <1>9, <2>1 DEF Before
  <2>2. CASE y \in S /\ y \notin T
    BY <1>5, <1>9, <2>2 DEF Before
  <2>3. CASE y \in T
    BY <1>8, <1>9, <2>3 DEF Before
  <2> QED BY <2>1, <2>2, <2>3
<1> HIDE DEF x
<1> QED BY <1>9, <1>10 DEF Nearest
-----------------------------------------------------------------------------
(* What a round decides.                                                    *)

Decisions == [current : Allowed \cup {None}, strikes : 0 .. Strikes,
              state : {"connected", "fail_closed", "denied"}]

\* A search ends in an endpoint that works, with no refusal that counts and no
\* better one that works, or in none at all.
LEMMA SelectRight ==
  ASSUME TypeOK, NEW rtt \in [Endpoints -> 1 .. 2]
  PROVE  LET d == Select(rtt) IN
         /\ d \in Decisions /\ d.strikes = 0
         /\ \/ d.current = None /\ d.state # "connected"
            \/ /\ d.state = "connected" /\ d.current \in Healthy
               /\ ~(posture.deny /\ AnyDenied)
               /\ \A ep \in Healthy : PriorityOf(ep) # 0 => PriorityOf(d.current) \in 1 .. PriorityOf(ep)
<1> DEFINE d == Select(rtt)
<1>1. 0 \in 0 .. Strikes /\ Healthy \subseteq Allowed
  BY FailoverAssumption DEF Healthy
<1>2. CASE posture.deny /\ AnyDenied
  BY <1>1, <1>2 DEF Select, Decision, Decisions
<1>3. CASE ~(posture.deny /\ AnyDenied) /\ Healthy # {}
  <2> DEFINE x == Nearest(rtt)
  <2>1. x \in Healthy /\ \A y \in Healthy \ {x} : Before(x, y, rtt)
    BY <1>3, NearestExists
  <2>2. d = [current |-> x, strikes |-> 0, state |-> "connected"]
    BY <1>3 DEF Select, Decision
  <2> HIDE DEF x, d
  <2>3. \A ep \in Healthy : PriorityOf(ep) \in Nat
    BY <1>1, PlaceType, FailoverAssumption DEF PriorityOf
  <2>4. \A ep \in Healthy : PriorityOf(ep) # 0 => PriorityOf(x) \in 1 .. PriorityOf(ep)
    BY <2>1, <2>3 DEF Before, Outranks
  <2>5. d \in Decisions /\ d.strikes = 0 /\ d.state = "connected" /\ d.current = x
    BY <1>1, <2>1, <2>2 DEF Decisions
  <2> QED BY <1>3, <2>1, <2>4, <2>5 DEF d
<1>4. CASE ~(posture.deny /\ AnyDenied) /\ Healthy = {}
  BY <1>1, <1>4 DEF Select, Decision, Decisions
<1> QED BY <1>2, <1>3, <1>4

\* A round keeps the current endpoint, for one strike more when it does not
\* work and is not given up, or is the end of a search.
LEMMA EvaluateRight ==
  ASSUME TypeOK, NEW rtt \in [Endpoints -> 1 .. 2], NEW lost \in BOOLEAN
  PROVE  LET d == Evaluate(rtt, lost) IN
         /\ d \in Decisions
         /\ d.current = None => d.strikes = 0
         /\ \/ d = Select(rtt)
            \/ /\ current # None /\ d.current = current
               /\ d.state # "connected" \/ world[current] = "healthy"
                    \/ (d.strikes = strikes + 1 /\ d.strikes < Strikes)
<1> DEFINE d == Evaluate(rtt, lost)
           e == Select(rtt)
           n == Expedited(lost) + 1
<1>1. /\ Strikes \in Nat \ {0} /\ strikes \in Nat
      /\ current \in Allowed \cup {None}
  BY FailoverAssumption DEF TypeOK
<1>2. n \in Nat /\ (n < Strikes => n = strikes + 1 /\ n \in 0 .. Strikes)
  BY <1>1 DEF Expedited
<1>3. 0 \in 0 .. Strikes /\ Strikes \in 0 .. Strikes
  BY <1>1
<1>4. e \in Decisions /\ e.strikes = 0
  BY SelectRight
<1>5. \/ d = e
      \/ current # None /\ world[current] = "healthy" /\ d = Decision(current, 0, "connected")
      \/ current # None /\ n < Strikes /\ d = Decision(current, n, "connected")
      \/ current # None /\ d = Decision(current, Strikes, "denied")
  BY DEF Evaluate
<1> HIDE DEF n, d, e
<1>6. CASE d = e
  BY <1>4, <1>6 DEF d, e
<1>7. CASE current # None /\ world[current] = "healthy" /\ d = Decision(current, 0, "connected")
  <2>1. d \in Decisions /\ d.current = current
    BY <1>1, <1>3, <1>7 DEF Decision, Decisions
  <2> QED BY <1>7, <2>1 DEF d
<1>8. CASE current # None /\ n < Strikes /\ d = Decision(current, n, "connected")
  <2>1. d \in Decisions /\ d.current = current /\ d.strikes = n
    BY <1>1, <1>2, <1>8 DEF Decision, Decisions
  <2> QED BY <1>2, <1>8, <2>1 DEF d
<1>9. CASE current # None /\ d = Decision(current, Strikes, "denied")
  <2>1. d \in Decisions /\ d.current = current /\ d.state = "denied"
    BY <1>1, <1>3, <1>9 DEF Decision, Decisions
  <2> QED BY <1>9, <2>1 DEF d
<1> QED BY <1>5, <1>6, <1>7, <1>8, <1>9
-----------------------------------------------------------------------------
(* Type correctness.                                                        *)

\* A round through its decision.
RoundBy(d) ==
  /\ current' = d.current /\ strikes' = d.strikes
  /\ sick' = IF d.state = "connected" /\ world[d.current] # "healthy" THEN sick + 1 ELSE 0
  /\ IF ~posture.agent THEN Adopt(d)
     ELSE IF d.state = "connected" THEN ActConnected(d.current)
     ELSE ActRefused(d.state)
  /\ UNCHANGED <<posture, world, allowed, home>>

\* What a round may decide, by the lemmas above.
Sound(d) ==
  /\ d \in Decisions
  /\ d.current = None => d.strikes = 0
  /\ \/ d.current = None /\ d.state # "connected"
     \/ /\ d.state = "connected" /\ d.current \in Healthy
        /\ ~(posture.deny /\ AnyDenied)
        /\ \A ep \in Healthy : PriorityOf(ep) # 0 => PriorityOf(d.current) \in 1 .. PriorityOf(ep)
     \/ /\ current # None /\ d.current = current
        /\ \/ d.state # "connected"
           \/ world[current] = "healthy"
           \/ d.strikes = strikes + 1 /\ d.strikes < Strikes

\* Every round acts on a sound decision.
LEMMA RoundDecides ==
  ASSUME TypeOK, NEW lost \in BOOLEAN, Round(lost)
  PROVE  \E d : Sound(d) /\ RoundBy(d)
<1>1. PICK rtt \in [Endpoints -> 1 .. 2] : RoundBy(Evaluate(rtt, lost))
  BY DEF Round, RoundBy
<1>2. Sound(Evaluate(rtt, lost))
  BY EvaluateRight, SelectRight DEF Sound
<1> QED BY <1>1, <1>2

\* The decision of a round is of the right type.
LEMMA RoundType ==
  ASSUME TypeOK, NEW d, Sound(d), RoundBy(d)
  PROVE  TypeOK'
<1>1. /\ d \in Decisions /\ (d.current = None => d.strikes = 0)
      /\ d.current \in Endpoints \cup {None}
  BY PlaceType DEF Sound, Decisions
<1>2. /\ posture' \in Postures /\ world' \in [Endpoints -> {"healthy", "denied", "down"}]
      /\ allowed' \in {l.eps : l \in Lists \cup {Seed}} /\ home' \in Endpoints \cup {None}
      /\ Allowed' = Allowed
  BY DEF RoundBy, TypeOK, Allowed
<1>3. /\ current' \in Allowed' \cup {None} /\ strikes' \in 0 .. Strikes
      /\ (current' = None => strikes' = 0) /\ sick' \in Nat
  BY <1>1, <1>2 DEF RoundBy, TypeOK, Decisions
<1>4. /\ last' \in [state : States, ep : Endpoints \cup {None}]
      /\ active' \in Endpoints \cup {None}
      /\ disarmed' \in BOOLEAN /\ pending' \in BOOLEAN
      /\ faults' \in 0 .. MaxFaults
  <2>0. /\ d.state \in States \ {"none"} /\ faults \in 0 .. MaxFaults
        /\ \A k : Fault(k) => faults' \in 0 .. MaxFaults
    BY <1>1, FailoverAssumption DEF TypeOK, Fault, Decisions, States
  <2>1. CASE Adopt(d)
    BY <1>1, <2>0, <2>1 DEF Adopt, TypeOK
  <2>2. CASE ActConnected(d.current)
    <3>1. \/ last' = last
          \/ last' = [state |-> "connected", ep |-> d.current]
      BY <2>2 DEF ActConnected
    <3>2. last' \in [state : States, ep : Endpoints \cup {None}]
      BY <1>1, <3>1 DEF TypeOK, States
    <3>3. active' \in {active, d.current}
      BY <2>2 DEF ActConnected
    <3>4. disarmed' \in BOOLEAN /\ pending' \in BOOLEAN /\ faults' \in 0 .. MaxFaults
      <4>1. CASE ConnectedOK
        BY <2>0, <4>1 DEF ConnectedOK
      <4>2. CASE UNCHANGED <<disarmed, pending, faults>>
        BY <2>0, <4>2 DEF TypeOK
      <4>3. CASE Fault("switch") /\ UNCHANGED <<disarmed, pending>>
        BY <2>0, <4>3 DEF TypeOK
      <4> QED BY <2>2, <4>1, <4>2, <4>3 DEF ActConnected
    <3> QED BY <1>1, <3>2, <3>3, <3>4 DEF TypeOK
  <2>3. CASE ActRefused(d.state)
    BY <1>1, <2>0, <2>3 DEF ActRefused, TypeOK
  <2> QED BY <2>1, <2>2, <2>3 DEF RoundBy
<1> QED BY <1>2, <1>3, <1>4 DEF TypeOK

\* A fresh process is well typed.
LEMMA FreshType ==
  ASSUME NEW p \in Postures
  PROVE  LET f == Fresh(p) IN
         /\ f.allowed = Seed.eps /\ f.home \in Endpoints \cup {None}
         /\ f.current = None /\ f.strikes = 0
         /\ f.last = [state |-> "none", ep |-> None] /\ f.active \in Endpoints \cup {None}
<1>1. Seed.eps \in Seq(Endpoints) /\ Seed.eps # << >> /\ Seed.home \in Endpoints \cup {None}
  BY FailoverAssumption
<1>2. Head(Seed.eps) \in Endpoints
  BY <1>1
<1> QED BY <1>1, <1>2 DEF Fresh

\* The first state is well typed.
LEMMA TypeInit == Init => TypeOK
<1> SUFFICES ASSUME Init PROVE TypeOK
  OBVIOUS
<1>1. posture \in Postures
  BY DEF Init
<1>2. /\ allowed = Seed.eps /\ home \in Endpoints \cup {None}
      /\ current = None /\ strikes = 0
      /\ last = [state |-> "none", ep |-> None] /\ active \in Endpoints \cup {None}
  BY <1>1, FreshType DEF Init
<1>3. /\ Seed.eps \in {l.eps : l \in Lists \cup {Seed}} /\ 0 \in 0 .. Strikes /\ 0 \in 0 .. MaxFaults
      /\ [state |-> "none", ep |-> None] \in [state : States, ep : Endpoints \cup {None}]
  BY FailoverAssumption DEF States
<1>4. world \in [Endpoints -> {"healthy", "denied", "down"}]
  BY DEF Init
<1> QED BY <1>1, <1>2, <1>3, <1>4 DEF Init, TypeOK

\* Every step keeps the types.
LEMMA TypeNext == TypeOK /\ [Next]_vars => TypeOK'
<1> SUFFICES ASSUME TypeOK, [Next]_vars PROVE TypeOK'
  OBVIOUS
<1> USE DEF selector, loop
<1>1. CASE UNCHANGED vars
  BY <1>1 DEF vars, TypeOK, Allowed
<1>2. ASSUME NEW lost \in BOOLEAN, Round(lost) PROVE TypeOK'
  BY <1>2, RoundDecides, RoundType
<1>3. CASE RefreshList
  <2>1. PICK l \in Lists : UpdateList(l)
    BY <1>3 DEF RefreshList
  <2>2. l.home \in Endpoints \cup {None} /\ l.eps \in {x.eps : x \in Lists \cup {Seed}}
    BY FailoverAssumption
  <2>3. /\ allowed' = l.eps /\ Allowed' = Range(l.eps) /\ home' \in Endpoints \cup {None}
        /\ current' \in Allowed' \cup {None}
        /\ strikes' \in 0 .. Strikes /\ (current' = None => strikes' = 0)
    BY <2>1, <2>2, FailoverAssumption DEF UpdateList, TypeOK, Allowed
  <2> QED BY <1>3, <2>2, <2>3 DEF RefreshList, TypeOK
<1>4. CASE Restart
  <2>1. posture \in Postures
    BY DEF TypeOK
  <2>2. /\ allowed' = Seed.eps /\ home' \in Endpoints \cup {None}
        /\ current' = None /\ strikes' = 0
        /\ last' = [state |-> "none", ep |-> None] /\ active' \in Endpoints \cup {None}
    BY <1>4, <2>1, FreshType DEF Restart
  <2>3. faults' \in 0 .. MaxFaults
    BY <1>4, FailoverAssumption DEF Restart, Fault, TypeOK
  <2>4. /\ Seed.eps \in {l.eps : l \in Lists \cup {Seed}} /\ 0 \in 0 .. Strikes /\ 0 \in 0 .. MaxFaults
        /\ [state |-> "none", ep |-> None] \in [state : States, ep : Endpoints \cup {None}]
    BY FailoverAssumption DEF States
  <2> QED BY <1>4, <2>2, <2>3, <2>4 DEF Restart, TypeOK
<1>5. ASSUME NEW ep \in Endpoints, NEW found \in {"healthy", "denied", "down"}, WorldChanges(ep, found)
      PROVE  TypeOK'
  BY <1>5 DEF WorldChanges, TypeOK, Allowed
<1> QED BY <1>1, <1>2, <1>3, <1>4, <1>5 DEF Next

\* The selector, the loop and the device keep their types; in particular the
\* selector's current endpoint is always one its list allows.
THEOREM FailoverTypeCorrect == Spec => []TypeOK
BY TypeInit, TypeNext, PTL DEF Spec

-----------------------------------------------------------------------------
(* How long an endpoint that stopped working is kept.                        *)

\* The strengthening: the rounds an endpoint has been kept are strikes against
\* it, for as long as it is the current one.
HoldInv == HoldIsBounded /\ (current # None => sick <= strikes)

\* Every step keeps the hold within the strikes.
LEMMA HoldNext == TypeOK /\ HoldInv /\ [Next]_vars => HoldInv'
<1> SUFFICES ASSUME TypeOK, HoldInv, [Next]_vars PROVE HoldInv'
  OBVIOUS
<1> USE DEF selector, loop
<1>0. Strikes \in Nat \ {0} /\ strikes \in Nat /\ sick \in Nat
  BY FailoverAssumption DEF TypeOK
<1>1. CASE UNCHANGED vars
  BY <1>1 DEF vars, HoldInv, HoldIsBounded
<1>2. ASSUME NEW lost \in BOOLEAN, Round(lost) PROVE HoldInv'
  <2>1. PICK d : Sound(d) /\ RoundBy(d)
    BY <1>2, RoundDecides
  <2>2. d.strikes \in Nat
    BY <1>0, <2>1 DEF Sound, Decisions
  <2>3. CASE sick' = 0
    BY <1>0, <2>1, <2>2, <2>3 DEF RoundBy, HoldInv, HoldIsBounded
  <2>4. CASE d.state = "connected" /\ world[d.current] # "healthy" /\ sick' = sick + 1
    <3>1. current # None /\ d.current = current /\ d.strikes = strikes + 1 /\ d.strikes < Strikes
      BY <2>1, <2>4 DEF Sound, Healthy
    <3> QED BY <1>0, <2>1, <2>4, <3>1 DEF RoundBy, HoldInv, HoldIsBounded
  <2> QED BY <2>1, <2>3, <2>4 DEF RoundBy
<1>3. CASE RefreshList
  BY <1>0, <1>3 DEF RefreshList, UpdateList, HoldInv, HoldIsBounded
<1>4. CASE Restart
  BY <1>0, <1>4, FreshType DEF Restart, HoldInv, HoldIsBounded, TypeOK
<1>5. ASSUME NEW ep \in Endpoints, NEW found \in {"healthy", "denied", "down"}, WorldChanges(ep, found)
      PROVE  HoldInv'
  BY <1>5 DEF WorldChanges, HoldInv, HoldIsBounded
<1> QED BY <1>1, <1>2, <1>3, <1>4, <1>5 DEF Next

\* Whatever list updates, reported losses and failed switches come between, an
\* endpoint that has stopped working is kept for fewer than unhealthyStrike rounds.
THEOREM HoldIsBoundedHolds == Spec => []HoldIsBounded
<1>1. Init => HoldInv
  BY FailoverAssumption, FreshType DEF Init, HoldInv, HoldIsBounded
<1>2. HoldInv => HoldIsBounded
  BY DEF HoldInv
<1> QED BY <1>1, <1>2, HoldNext, TypeInit, TypeNext, PTL DEF Spec

-----------------------------------------------------------------------------
(* A device that was let out is armed again.                                *)

\* The strengthening: only an agent is ever off its steering.
ArmInv == DisarmedIsRetried /\ (disarmed => posture.agent)

\* Every step keeps a disarmed device in line to be armed.
LEMMA ArmNext == TypeOK /\ ArmInv /\ [Next]_vars => ArmInv'
<1> SUFFICES ASSUME TypeOK, ArmInv, [Next]_vars PROVE ArmInv'
  OBVIOUS
<1> USE DEF selector, loop
<1>1. CASE UNCHANGED vars
  BY <1>1 DEF vars, ArmInv, DisarmedIsRetried
<1>2. ASSUME NEW lost \in BOOLEAN, Round(lost) PROVE ArmInv'
  <2>1. PICK d : Sound(d) /\ RoundBy(d)
    BY <1>2, RoundDecides
  <2>2. UNCHANGED posture /\ d.state \in {"connected", "fail_closed", "denied"}
    BY <2>1 DEF RoundBy, Sound, Decisions
  <2>3. CASE ~posture.agent /\ Adopt(d)
    BY <2>2, <2>3 DEF Adopt, ArmInv, DisarmedIsRetried
  <2>4. CASE posture.agent /\ ActConnected(d.current)
    BY <2>2, <2>4 DEF ActConnected, ConnectedOK, ArmInv, DisarmedIsRetried, TypeOK
  <2>5. CASE posture.agent /\ d.state # "connected" /\ ActRefused(d.state)
    BY <2>2, <2>5 DEF ActRefused, ArmInv, DisarmedIsRetried
  <2> QED BY <2>1, <2>3, <2>4, <2>5 DEF RoundBy
<1>3. CASE RefreshList
  BY <1>3 DEF RefreshList, ArmInv, DisarmedIsRetried
<1>4. CASE Restart
  BY <1>4 DEF Restart, ArmInv, DisarmedIsRetried
<1>5. ASSUME NEW ep \in Endpoints, NEW found \in {"healthy", "denied", "down"}, WorldChanges(ep, found)
      PROVE  ArmInv'
  BY <1>5 DEF WorldChanges, ArmInv, DisarmedIsRetried
<1> QED BY <1>1, <1>2, <1>3, <1>4, <1>5 DEF Next

\* No way out of the terminal fail-open forgets the device: while it is off its
\* steering, the loop's next connected round arms it.
THEOREM DisarmedIsRetriedHolds == Spec => []DisarmedIsRetried
<1>1. Init => ArmInv
  BY DEF Init, ArmInv, DisarmedIsRetried
<1>2. ArmInv => DisarmedIsRetried
  BY DEF ArmInv
<1> QED BY <1>1, <1>2, ArmNext, TypeInit, TypeNext, PTL DEF Spec

-----------------------------------------------------------------------------
(* What a process settles on.                                               *)

\* A process settles only on an endpoint that works, that none of the allowed
\* ones refusing the device forbids, and that none outranks: rankHealthy and the
\* refusal checks of Evaluate, for any priorities and any list.
THEOREM ChoiceIsRightHolds == Spec => ChoiceIsRight
<1> DEFINE Right == current' \in {current, None} \/
                      /\ current' \in Healthy
                      /\ ~(posture.deny /\ AnyDenied)
                      /\ \A ep \in Healthy : PriorityOf(ep) # 0 => PriorityOf(current') \in 1 .. PriorityOf(ep)
<1>1. TypeOK /\ [Next]_vars => [Right]_vars
  <2> SUFFICES ASSUME TypeOK, Next PROVE Right
    OBVIOUS
  <2> USE DEF selector, loop
  <2>1. ASSUME NEW lost \in BOOLEAN, Round(lost) PROVE Right
    <3>1. PICK d : Sound(d) /\ RoundBy(d)
      BY <2>1, RoundDecides
    <3>2. current' = d.current
      BY <3>1 DEF RoundBy
    <3> QED BY <3>1, <3>2 DEF Sound
  <2>2. CASE RefreshList
    BY <2>2 DEF RefreshList, UpdateList
  <2>3. CASE Restart
    BY <2>3, FreshType DEF Restart, TypeOK
  <2>4. ASSUME NEW ep \in Endpoints, NEW found \in {"healthy", "denied", "down"}, WorldChanges(ep, found)
        PROVE  Right
    BY <2>4 DEF WorldChanges
  <2> QED BY <2>1, <2>2, <2>3, <2>4 DEF Next
<1> QED BY <1>1, TypeInit, TypeNext, PTL DEF Spec, ChoiceIsRight
===============================================================================

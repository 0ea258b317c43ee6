---------------------------- MODULE RegionFailover ----------------------------
(***************************************************************************)
(* Which region a process goes through: the Selector of                    *)
(* regionfailover/regionfailover.go and the two loops around it, the       *)
(* agent's choice of an Edge (clients/windows-wfp/steer/                   *)
(* steer_region_failover.go, with the actions of                           *)
(* steer_region_failover_windows.go and main_windows.go) and the Edge's    *)
(* choice of a control plane (cmd/dsse-edge/cp_endpoint_failover.go).      *)
(*                                                                         *)
(* One goroutine runs rounds: probe every allowed endpoint, decide, act.   *)
(* Between rounds endpoints come and go and turn the caller away (to an    *)
(* Edge: are not the leader), the agent's signed list is refreshed, its    *)
(* tunnel reports a loss, and the process restarts.  The probes of a round *)
(* are read at one point in time: world may change arbitrarily between     *)
(* rounds, so every combination of answers is found by some round.         *)
(***************************************************************************)
EXTENDS Naturals, Sequences, Functions

CONSTANTS
  Endpoints,
  None,
  Priority,    \* configured priority of an endpoint's region; 0 is none
  Lists,       \* the signed lists: [eps: the allowed endpoints, home: a region or None]
  Seed,        \* the list an agent starts from
  Strikes,     \* unhealthyStrike
  Postures,    \* [agent, deny, instant, open]: the agent's loop or the Edge's,
               \* denyOnAdmissionDeny, instantRevokeOnAdmissionDeny, terminal fail-open
  FaultKinds,  \* what may go wrong on the device
  MaxFaults    \* bound: how many things go wrong in one behaviour

ASSUME FailoverAssumption ==
  /\ None \notin Endpoints
  /\ Strikes \in Nat \ {0} /\ MaxFaults \in Nat
  /\ Priority \in [Endpoints -> Nat]
  /\ \A l \in Lists \cup {Seed} : /\ l.eps \in Seq(Endpoints) /\ l.eps # << >>
                                  /\ IsInjective(l.eps)
                                  /\ l.home \in Endpoints \cup {None}
  /\ Postures \subseteq [agent: BOOLEAN, deny: BOOLEAN, instant: BOOLEAN, open: BOOLEAN]
  /\ \A p \in Postures : (p.instant => p.deny) /\ (p.open => p.agent)

VARIABLES
  posture,   \* this process's configuration
  world,     \* what a probe of each endpoint finds: "healthy", "denied" or "down"
  allowed,   \* Selector.allowed
  home,      \* Selector.home
  current,   \* Selector.current
  strikes,   \* Selector.currentStrikes
  last,      \* lastState and lastEndpoint of the control loop
  active,    \* the endpoint in force; None on an Edge that has no control plane
  disarmed,  \* steering is off and the device is on its native network
  pending,   \* pendingConnectedOK
  sick,      \* history: rounds in a row that kept a chosen endpoint that was not healthy
  faults

selector == <<allowed, home, current, strikes>>
loop == <<last, active, disarmed, pending, sick>>

vars == <<posture, world, selector, loop, faults>>

States == {"none", "connected", "fail_closed", "denied"}

Allowed == Range(allowed)

TypeOK ==
  /\ posture \in Postures
  /\ world \in [Endpoints -> {"healthy", "denied", "down"}]
  /\ allowed \in {l.eps : l \in Lists \cup {Seed}}
  /\ home \in Endpoints \cup {None}
  /\ current \in Allowed \cup {None}
  /\ strikes \in 0 .. Strikes /\ (current = None => strikes = 0)
  /\ last \in [state: States, ep: Endpoints \cup {None}]
  /\ active \in Endpoints \cup {None}
  /\ disarmed \in BOOLEAN /\ pending \in BOOLEAN
  /\ sick \in Nat
  /\ faults \in 0 .. MaxFaults

Fault(kind) ==
  /\ kind \in FaultKinds /\ faults < MaxFaults
  /\ faults' = faults + 1

\* A fresh Selector and loop.  An agent has its configured endpoint in force,
\* which heads the seed; an Edge has none before its first round.
Fresh(p) ==
  [allowed |-> Seed.eps, home |-> Seed.home, current |-> None, strikes |-> 0,
   last |-> [state |-> "none", ep |-> None],
   active |-> IF p.agent THEN Head(Seed.eps) ELSE None]

Init ==
  /\ posture \in Postures
  /\ world \in [Endpoints -> {"healthy", "down"}]
  /\ allowed = Fresh(posture).allowed /\ home = Fresh(posture).home
  /\ current = Fresh(posture).current /\ strikes = Fresh(posture).strikes
  /\ last = Fresh(posture).last /\ active = Fresh(posture).active
  /\ disarmed = FALSE /\ pending = FALSE /\ sick = 0
  /\ faults = 0

-------------------------------------------------------------------------------
(* Selector.                                                               *)

\* effectiveRegionPriority: no priority is the lowest.
Outranks(p, q) == p # q /\ p # 0 /\ (q = 0 \/ p < q)

\* ApplyPriority; the control planes have none.
PriorityOf(ep) == IF posture.agent THEN Priority[ep] ELSE 0

\* Where an endpoint stands in the list.
Place(x) == CHOOSE i \in DOMAIN allowed : allowed[i] = x

\* rankHealthy: priority, then round-trip time, then the home region, then the
\* order of the list.
Before(x, y, rtt) ==
  \/ Outranks(PriorityOf(x), PriorityOf(y))
  \/ /\ PriorityOf(x) = PriorityOf(y)
     /\ \/ rtt[x] < rtt[y]
        \/ /\ rtt[x] = rtt[y]
           /\ \/ x = home
              \/ y # home /\ Place(x) < Place(y)

Healthy == {ep \in Allowed : world[ep] = "healthy"}

AnyDenied == \E ep \in Allowed : world[ep] = "denied"

Nearest(rtt) == CHOOSE x \in Healthy : \A y \in Healthy \ {x} : Before(x, y, rtt)

\* What a round decides: the selector afterwards, and the decision.
Decision(cur, n, state) == [current |-> cur, strikes |-> n, state |-> state]

\* Mutant: an endpoint that refuses the device does not stop the search.
Select_Shops(rtt) ==
  IF Healthy # {} THEN Decision(Nearest(rtt), 0, "connected")
  ELSE Decision(None, 0, IF AnyDenied THEN "denied" ELSE "fail_closed")

\* Evaluate when the current endpoint does not settle the round.
Select(rtt) ==
  IF posture.deny /\ AnyDenied THEN Decision(None, 0, "denied")
  ELSE IF Healthy # {} THEN Decision(Nearest(rtt), 0, "connected")
  ELSE Decision(None, 0, IF AnyDenied THEN "denied" ELSE "fail_closed")

\* The strikes a round starts from: a reported loss of the tunnel leaves one.
Expedited(lost) ==
  IF lost /\ current # None /\ Strikes > 1 THEN Strikes - 1 ELSE strikes

\* Mutant: the hold lasts one round longer.
Evaluate_HoldsAtLimit(rtt, lost) ==
  LET n == Expedited(lost) + 1
      refused == world[current] = "denied"
  IN
  IF current = None THEN Select(rtt)
  ELSE IF world[current] = "healthy" THEN Decision(current, 0, "connected")
  ELSE IF posture.instant /\ refused THEN Decision(current, Strikes, "denied")
  ELSE IF n <= Strikes THEN Decision(current, n, "connected")
  ELSE IF posture.deny /\ refused THEN Decision(current, Strikes, "denied")
  ELSE Select(rtt)

Evaluate(rtt, lost) ==
  LET n == Expedited(lost) + 1
      refused == world[current] = "denied"
  IN
  IF current = None THEN Select(rtt)
  ELSE IF world[current] = "healthy" THEN Decision(current, 0, "connected")
  ELSE IF posture.instant /\ refused THEN Decision(current, Strikes, "denied")
  ELSE IF n < Strikes THEN Decision(current, n, "connected")
  ELSE IF posture.deny /\ refused THEN Decision(current, Strikes, "denied")
  ELSE Select(rtt)

-------------------------------------------------------------------------------
(* The control loop.                                                       *)

\* connectedOK: a device on its native network is armed again, which may fail.
ConnectedOK ==
  \/ disarmed' = FALSE /\ pending' = FALSE /\ UNCHANGED faults
  \/ disarmed /\ Fault("rearm") /\ disarmed' = TRUE /\ pending' = TRUE

\* Mutant: arming again is tried once.
ActConnected_Once(ep) ==
  LET changed == last.ep # ep IN
  /\ active' = ep
  /\ IF last.state # "connected" \/ changed THEN ConnectedOK
     ELSE pending' = FALSE /\ UNCHANGED <<disarmed, faults>>
  /\ last' = [state |-> "connected", ep |-> ep]

\* Mutant: a switch that failed is taken for done.
ActConnected_Forgets(ep) ==
  LET changed == last.ep # ep IN
  /\ \/ active' = IF changed THEN ep ELSE active
     \/ changed /\ faults < MaxFaults /\ active' = active
  /\ IF last.state # "connected" \/ changed \/ pending THEN ConnectedOK
     ELSE UNCHANGED <<disarmed, pending, faults>>
  /\ last' = [state |-> "connected", ep |-> ep]

\* act on a connected decision.  A switch that fails leaves the endpoint in
\* force, and everything else, for the next round.
ActConnected(ep) ==
  LET changed == last.ep # ep IN
  \/ /\ active' = IF changed THEN ep ELSE active
     /\ IF last.state # "connected" \/ changed \/ pending THEN ConnectedOK
        ELSE UNCHANGED <<disarmed, pending, faults>>
     /\ last' = [state |-> "connected", ep |-> ep]
  \/ /\ changed /\ Fault("switch")
     /\ UNCHANGED <<active, disarmed, pending, last>>

\* act on the two refusals.  The endpoint in force is left as it is; only the
\* terminal fail-open posture does something, once.
ActRefused(state) ==
  /\ pending' = FALSE
  /\ disarmed' = (disarmed \/ (state = "fail_closed" /\ last.state # state /\ posture.open))
  /\ last' = [state |-> state, ep |-> None]
  /\ UNCHANGED <<active, faults>>

\* cpEndpointSelector.evaluate: the Edge uses what was chosen, or nothing.
Adopt(d) ==
  /\ active' = IF d.state = "connected" THEN d.current ELSE None
  /\ last' = [state |-> d.state, ep |-> active']
  /\ UNCHANGED <<disarmed, pending, faults>>

\* evaluateOnce, on the health tick or, with lost, on a transport failure the
\* agent's data path reports.
Round(lost) ==
  /\ lost => posture.agent
  /\ \E rtt \in [Endpoints -> 1 .. 2] :
      LET d == Evaluate(rtt, lost) IN
      /\ current' = d.current /\ strikes' = d.strikes
      /\ sick' = IF d.state = "connected" /\ world[d.current] # "healthy"
                 THEN sick + 1 ELSE 0
      /\ IF ~posture.agent THEN Adopt(d)
         ELSE IF d.state = "connected" THEN ActConnected(d.current)
         ELSE ActRefused(d.state)
      /\ UNCHANGED <<posture, world, allowed, home>>

\* UpdateList: a current endpoint outside the list is forgotten.
UpdateList(l) ==
  /\ allowed' = l.eps
  /\ home' = IF l.home = None THEN home ELSE l.home
  /\ IF current # None /\ current \notin Range(l.eps)
     THEN current' = None /\ strikes' = 0
     ELSE UNCHANGED <<current, strikes>>

\* refreshList; a fetch that fails, or an empty list, changes nothing.
RefreshList ==
  /\ posture.agent
  /\ \E l \in Lists : UpdateList(l)
  /\ UNCHANGED <<posture, world, loop, faults>>

\* The process restarts: nothing of the choice is kept.
Restart ==
  /\ Fault("restart")
  /\ allowed' = Fresh(posture).allowed /\ home' = Fresh(posture).home
  /\ current' = Fresh(posture).current /\ strikes' = Fresh(posture).strikes
  /\ last' = Fresh(posture).last /\ active' = Fresh(posture).active
  /\ disarmed' = FALSE /\ pending' = FALSE /\ sick' = 0
  /\ UNCHANGED <<posture, world>>

\* What a probe of an endpoint finds from now on.
WorldChanges(ep, found) ==
  /\ world' = [world EXCEPT ![ep] = found]
  /\ UNCHANGED <<posture, selector, loop, faults>>

Next ==
  \/ \E lost \in BOOLEAN : Round(lost)
  \/ RefreshList
  \/ Restart
  \/ \E ep \in Endpoints, found \in {"healthy", "denied", "down"} : WorldChanges(ep, found)

Spec == Init /\ [][Next]_vars

\* The health ticker fires for as long as the agent runs.
FairSpec == Spec /\ WF_vars(Round(FALSE))

-------------------------------------------------------------------------------
(* Properties.                                                             *)

\* A chosen endpoint that has stopped working is kept for fewer than Strikes
\* rounds, whatever list updates, reported losses and failed switches come
\* between.
HoldIsBounded == sick < Strikes

\* A device on its native network while its region works again is one whose
\* next round arms it: no way out of the terminal fail-open forgets it.
DisarmedIsRetried == disarmed => last.state \in {"fail_closed", "denied"} \/ pending

\* What a process may newly settle on: an endpoint that works, with none of the
\* allowed ones turning the device away (a revoked device does not go looking for
\* one that has not heard), and none that works speaking a higher priority.
ChoiceIsRight ==
  [][current' \in {current, None} \/
       /\ current' \in Healthy
       /\ ~(posture.deny /\ AnyDenied)
       /\ \A ep \in Healthy : PriorityOf(ep) # 0 => PriorityOf(current') \in 1 .. PriorityOf(ep)]_vars

\* As long as one allowed endpoint keeps working and none turns the device away,
\* the device is, again and again, steering through one that works, through lists
\* that shrink, switches that fail, disarming and restarts.  An Edge, for which
\* being turned away is a control plane that does not lead, gets to the leader
\* whatever the others answer.
SteersAgain ==
  \A a \in Endpoints :
    <>[](a \in Healthy /\ ~(posture.deny /\ AnyDenied))
      => []<>(last.state = "connected" /\ active \in Healthy /\ ~disarmed)

\* "Never an out-of-boundary region": after a round, the endpoint in force is an
\* allowed one, or does not work.
InsideBoundary ==
  [][(last' # last \/ sick' # sick) =>
       active' \in Allowed \cup {None} \/ world[active'] # "healthy" \/ disarmed']_vars
===============================================================================

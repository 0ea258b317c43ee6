------------------------------- MODULE Enrolment -------------------------------
(***************************************************************************)
(* Enrolling devices on a fleet of Edges: POST /enroll                     *)
(* (cmd/dsse-edge/enroll_endpoint.go, enroll/enroll_server.go), the        *)
(* inventory ledgers of the control plane and of every Edge                *)
(* (enrolledinventory/ledger.go), the one-time tokens, the claim on an     *)
(* identity that all issuers share, the reports by which the control plane *)
(* learns of an enrolment and the bundles by which Edges learn of its      *)
(* decisions.                                                              *)
(*                                                                         *)
(* One organization; machines declare no reference.  An Edge's ledger is   *)
(* written through: a save that fails rolls the memory back, so memory and *)
(* disk agree whenever the ledger is unlocked.  Every token there will be  *)
(* is outstanding at first: one issued later is one nobody has presented.  *)
(***************************************************************************)
EXTENDS Integers, FiniteSets

CONSTANTS
  Ids,        \* identities
  Edges,      \* issuers
  Tokens,     \* enrolment tokens
  Requests,   \* enrolments that may be under way at once
  None,
  FaultKinds, \* what may go wrong
  MaxFaults,  \* bound: how many things go wrong in one behaviour
  MaxPermits  \* bound: permissions to enrol again, per identity

ASSUME EnrolmentAssumption ==
  /\ IsFiniteSet(Tokens) /\ IsFiniteSet(Ids)
  /\ None \notin Ids \cup Edges \cup Tokens
  /\ MaxFaults \in Nat /\ MaxPermits \in Nat

VARIABLES
  cp,       \* the control plane's ledger
  edge,     \* each Edge's ledger
  bundle,   \* the inventory an Edge has fetched and not applied, or None
  token,    \* "outstanding", or "closed": used, revoked or expired
  claim,    \* enrolled_identity_claims: the grant, or -1
  pc,       \* where each request is
  req,      \* the request: its Edge, identity, token and grant
  outbox,   \* Edge -> identities whose enrolment is still to be reported
  certs,    \* history: the certificates answered
  permits,  \* history: permissions given
  forgot,   \* history: the earlier enrolments that released claims stood for
  faults

ledgers == <<cp, edge, bundle>>
authority == <<token, claim>>
requests == <<pc, req>>
history == <<certs, permits, forgot>>

vars == <<ledgers, authority, requests, outbox, history, faults>>

PCs == {"idle", "spend", "claim", "persist", "report"}

\* The grants an identity can have been given.
Grants == 0 .. MaxPermits

\* A ledger entry.  "removed" is a tombstone; marked is DeviceEnrolledAt and
\* under is DeviceEnrolledNonce, the grant the marker was recorded under.
Entry == [st: {"absent", "enabled", "disabled", "removed"}, nonce: Grants,
          marked: BOOLEAN, under: Grants]

Absent == [st |-> "absent", nonce |-> 0, marked |-> FALSE, under |-> 0]

NoRequest == [edge |-> None, id |-> None, token |-> None, grant |-> 0]

Certificates == [id: Ids, token: Tokens, grant: Grants]

TypeOK ==
  /\ cp \in [Ids -> Entry]
  /\ edge \in [Edges -> [Ids -> Entry]]
  /\ bundle \in [Edges -> [Ids -> Entry] \cup {None}]
  /\ token \in [Tokens -> {"outstanding", "closed"}]
  /\ claim \in [Ids -> Grants \cup {-1}]
  /\ pc \in [Requests -> PCs]
  /\ req \in [Requests -> [edge: Edges \cup {None}, id: Ids \cup {None},
                           token: Tokens \cup {None}, grant: Grants]]
  /\ \A r \in Requests : pc[r] # "idle" => None \notin {req[r].edge, req[r].id, req[r].token}
  /\ outbox \in [Edges -> SUBSET Ids]
  /\ certs \subseteq Certificates
  /\ permits \in [Ids -> Grants]
  /\ forgot \in [Ids -> Nat]
  /\ faults \in 0 .. MaxFaults

Init ==
  /\ cp = [i \in Ids |-> Absent]
  /\ edge = [e \in Edges |-> cp]
  /\ bundle = [e \in Edges |-> None]
  /\ token = [t \in Tokens |-> "outstanding"]
  /\ claim = [i \in Ids |-> -1]
  /\ pc = [r \in Requests |-> "idle"]
  /\ req = [r \in Requests |-> NoRequest]
  /\ outbox = [e \in Edges |-> {}]
  /\ certs = {}
  /\ permits = [i \in Ids |-> 0]
  /\ forgot = [i \in Ids |-> 0]
  /\ faults = 0

Fault(kind) ==
  /\ kind \in FaultKinds /\ faults < MaxFaults
  /\ faults' = faults + 1

-------------------------------------------------------------------------------
(* The ledger's rules.                                                     *)

\* EnrollDeviceForTenantWithMachine and WouldRefuseEnrolment: an identity the
\* ledger holds as disabled, removed or already enrolled is refused.
Enrollable(en) == en.st \in {"absent", "enabled"} /\ ~en.marked

\* Mutant: an enrolment overwrites a disabled entry.
Writable_Disabled(en) == en.st # "removed"

\* enrollGroupMutateLocked for a device: neither a removal nor a disabled
\* identity is written over.
Writable(en) == en.st \in {"absent", "enabled"}

\* The entry a completed enrolment leaves.
Marked(en) == [en EXCEPT !.st = "enabled", !.marked = TRUE, !.under = en.nonce]

\* mergeAuthoritative, one identity: the Edge keeps its own marker unless the
\* control plane's grant is newer; an identity not named is dropped.
Merged(mine, theirs) ==
  IF theirs.st # "absent" /\ mine.marked /\ theirs.nonce <= mine.under
  THEN [theirs EXCEPT !.marked = TRUE, !.under = mine.under]
  ELSE theirs

\* List() is empty: the ledger holds no identity but tombstones.
NobodyListed(ledger) == \A i \in Ids : ledger[i].st \in {"absent", "removed"}

\* The ledger's mutex is held from the checks through the claim to the save.
Locked(e) == \E r \in Requests : pc[r] = "persist" /\ req[r].edge = e

-------------------------------------------------------------------------------
(* The administrator, at the control plane.                                *)

RestUnchanged == UNCHANGED <<edge, bundle, claim, requests, outbox, certs, forgot, faults>>

\* Store.Revoke, or the token's lifetime running out.
RevokeToken(t) ==
  /\ token[t] = "outstanding"
  /\ token' = [token EXCEPT ![t] = "closed"]
  /\ UNCHANGED <<cp, permits>> /\ RestUnchanged

\* EnrollGroupForTenant: creates the entry, or enables it again.
PreAdd(i) ==
  /\ cp[i].st \in {"absent", "disabled"}
  /\ cp' = [cp EXCEPT ![i].st = "enabled"]
  /\ UNCHANGED <<token, permits>> /\ RestUnchanged

\* setEnabledForTenant
SetEnabled(i, enabled) ==
  /\ cp[i].st = (IF enabled THEN "disabled" ELSE "enabled")
  /\ cp' = [cp EXCEPT ![i].st = IF enabled THEN "enabled" ELSE "disabled"]
  /\ UNCHANGED <<token, permits>> /\ RestUnchanged

\* RemoveChecked: the tombstone keeps the identity and nothing else, and the
\* tombstones whose lifetime is over are purged.
RemoveChecked(i) ==
  /\ cp[i].st \in {"enabled", "disabled"}
  /\ \E old \in SUBSET {j \in Ids : cp[j].st = "removed"} :
       cp' = [j \in Ids |-> IF j = i THEN [Absent EXCEPT !.st = "removed"]
                            ELSE IF j \in old THEN Absent ELSE cp[j]]
  /\ UNCHANGED <<token, permits>> /\ RestUnchanged

\* Mutant: a permission whose save failed stays in the entry.
AllowReenrolment_NoRollback(i) ==
  /\ cp[i].st = "enabled" /\ cp[i].nonce < MaxPermits
  /\ cp' = [cp EXCEPT ![i].nonce = @ + 1, ![i].marked = FALSE]
  /\ UNCHANGED <<token, permits>> /\ RestUnchanged

\* AllowReenrolment: lifts a removal, enables, and gives one more grant.
AllowReenrolment(i) ==
  /\ cp[i].st # "absent" /\ permits[i] < MaxPermits
  /\ cp' = [cp EXCEPT ![i].st = "enabled", ![i].nonce = @ + 1, ![i].marked = FALSE]
  /\ permits' = [permits EXCEPT ![i] = @ + 1]
  /\ UNCHANGED token /\ RestUnchanged

Administer ==
  \/ \E t \in Tokens : RevokeToken(t)
  \/ \E i \in Ids :
       \/ PreAdd(i) \/ RemoveChecked(i) \/ AllowReenrolment(i)
       \/ \E enabled \in BOOLEAN : SetEnabled(i, enabled)

-------------------------------------------------------------------------------
(* The bundle.                                                             *)

\* configBundleSource.apply: an empty inventory does not wipe a listed one.
\* A merge that cannot be saved leaves everything and is fetched again.
Applied(mine, theirs) ==
  IF (\A i \in Ids : theirs[i].st = "absent") /\ ~NobodyListed(mine) THEN mine
  ELSE [i \in Ids |-> Merged(mine[i], theirs[i])]

\* A poll: the control plane's inventory is fetched and applied.
Poll(e) ==
  /\ bundle[e] = None /\ ~Locked(e)
  /\ edge' = [edge EXCEPT ![e] = Applied(@, cp)]
  /\ UNCHANGED <<cp, bundle, authority, requests, outbox, history, faults>>

\* A poll in which much happens between the fetch and the merge.
FetchBundle(e) ==
  /\ bundle[e] = None /\ Fault("late")
  /\ bundle' = [bundle EXCEPT ![e] = cp]
  /\ UNCHANGED <<cp, edge, authority, requests, outbox, history>>

ApplyBundle(e) ==
  /\ bundle[e] # None /\ ~Locked(e)
  /\ edge' = [edge EXCEPT ![e] = Applied(@, bundle[e])]
  /\ bundle' = [bundle EXCEPT ![e] = None]
  /\ UNCHANGED <<cp, authority, requests, outbox, history, faults>>

-------------------------------------------------------------------------------
(* POST /enroll.                                                           *)

Return(r) ==
  /\ pc' = [pc EXCEPT ![r] = "idle"]
  /\ req' = [req EXCEPT ![r] = NoRequest]

Go(r, at) == pc' = [pc EXCEPT ![r] = at] /\ UNCHANGED req

\* AssignContext up to the spend: the token verifies, and the ledger would
\* not refuse.  A refusal here leaves everything as it was.
Assign(r, e, i, t) ==
  /\ pc[r] = "idle"
  /\ token[t] = "outstanding" /\ Enrollable(edge[e][i]) /\ ~Locked(e)
  /\ req' = [req EXCEPT ![r] = [edge |-> e, id |-> i, token |-> t, grant |-> 0]]
  /\ pc' = [pc EXCEPT ![r] = "spend"]
  /\ UNCHANGED <<ledgers, authority, outbox, history, faults>>

\* Mutant: a token is spent without looking whether it was.
Spend_Unconditional(r) ==
  /\ pc[r] = "spend"
  /\ token' = [token EXCEPT ![req[r].token] = "closed"]
  /\ Go(r, "claim")
  /\ UNCHANGED <<ledgers, claim, outbox, history, faults>>

\* Spend is one conditional update.  The answer may be lost on its way back.
Spend(r) ==
  LET t == req[r].token IN
  /\ pc[r] = "spend"
  /\ \/ /\ token[t] = "outstanding"
        /\ token' = [token EXCEPT ![t] = "closed"]
        /\ \/ Go(r, "claim") /\ UNCHANGED faults
           \/ Fault("spend") /\ Return(r)
     \/ /\ token[t] # "outstanding"
        /\ Return(r) /\ UNCHANGED <<token, faults>>
  /\ UNCHANGED <<ledgers, claim, outbox, history>>

\* The signer refuses the request after the token is spent.
SignFails(r) ==
  /\ pc[r] = "claim" /\ Fault("sign")
  /\ Return(r)
  /\ UNCHANGED <<ledgers, authority, outbox, history>>

\* Mutant: a claim is taken under the grant it was made under.
Claimable_Again(i, grant) == claim[i] < grant \/ (claim[i] = grant /\ grant > 0)

\* ClaimIdentity: taken when nobody holds it or this grant is newer.
Claimable(i, grant) == claim[i] < grant

\* EnrollDeviceForTenantWithMachine through the claim.  A claim that was taken
\* and whose answer is lost is not given back.
Claim(r) ==
  LET e == req[r].edge
      i == req[r].id
      grant == edge[e][i].nonce
  IN
  /\ pc[r] = "claim" /\ ~Locked(e)
  /\ \/ /\ Enrollable(edge[e][i]) /\ Claimable(i, grant)
        /\ claim' = [claim EXCEPT ![i] = grant]
        /\ \/ /\ pc' = [pc EXCEPT ![r] = "persist"]
              /\ req' = [req EXCEPT ![r].grant = grant]
              /\ UNCHANGED faults
           \/ Fault("claim") /\ Return(r)
     \/ /\ ~(Enrollable(edge[e][i]) /\ Claimable(i, grant))
        /\ Return(r) /\ UNCHANGED <<claim, faults>>
  /\ UNCHANGED <<ledgers, token, outbox, certs, permits, forgot>>

\* The entry is marked and saved, or the claim is given back: the row is
\* deleted if it is still the one this request took.
Persist(r) ==
  LET e == req[r].edge
      i == req[r].id
      grant == req[r].grant
  IN
  /\ pc[r] = "persist"
  /\ \/ /\ edge' = [edge EXCEPT ![e][i] = Marked(@)]
        /\ Go(r, "report")
        /\ UNCHANGED <<claim, forgot, faults>>
     \/ /\ Fault("save") /\ Return(r)
        /\ IF claim[i] = grant
           THEN /\ claim' = [claim EXCEPT ![i] = -1]
                /\ forgot' = [forgot EXCEPT ![i] = @ + grant]
           ELSE UNCHANGED <<claim, forgot>>
        /\ UNCHANGED edge
  /\ UNCHANGED <<cp, bundle, token, outbox, certs, permits>>

\* The save that fails, and the release that fails after it.
ReleaseFails(r) ==
  /\ pc[r] = "persist" /\ Fault("release")
  /\ Return(r)
  /\ UNCHANGED <<ledgers, authority, outbox, history>>

\* recordEnrolmentReport at the control plane: a disabled or removed identity
\* is refused, and the reporter gives the report up.
Recorded(i) ==
  cp' = IF Writable(cp[i]) THEN [cp EXCEPT ![i] = Marked(@)] ELSE cp

\* enrolmentCPReporter.Report, then the answer with the certificate.  A post
\* that fails, or whose answer is lost, is queued; the queue may fail too.
Report(r) ==
  LET e == req[r].edge
      i == req[r].id
  IN
  /\ pc[r] = "report"
  /\ \/ Recorded(i) /\ UNCHANGED <<outbox, faults>>
     \/ /\ Fault("post")
        /\ Recorded(i) \/ UNCHANGED cp
        /\ outbox' = [outbox EXCEPT ![e] = @ \cup {i}]
     \/ Fault("queue") /\ UNCHANGED <<cp, outbox>>
  /\ certs' = certs \cup {[id |-> i, token |-> req[r].token, grant |-> req[r].grant]}
  /\ Return(r)
  /\ UNCHANGED <<edge, bundle, authority, permits, forgot>>

\* drainOnce, one report: what the control plane answered is dropped from the
\* outbox; a rewrite that fails leaves it to be sent again.
Drain(e, i) ==
  /\ i \in outbox[e]
  /\ Recorded(i)
  /\ \/ outbox' = [outbox EXCEPT ![e] = @ \ {i}] /\ UNCHANGED faults
     \/ Fault("rewrite") /\ UNCHANGED outbox
  /\ UNCHANGED <<edge, bundle, authority, requests, history>>

\* The Edge dies with its requests and starts again: BackfillIdentityClaims
\* offers what its ledger holds as enrolled to the shared claims.
Restart(e) ==
  LET mine == {r \in Requests : pc[r] # "idle" /\ req[r].edge = e}
      offered(i) == edge[e][i].st \in {"enabled", "disabled"} /\ edge[e][i].marked
  IN
  /\ Fault("crash")
  /\ pc' = [r \in Requests |-> IF r \in mine THEN "idle" ELSE pc[r]]
  /\ req' = [r \in Requests |-> IF r \in mine THEN NoRequest ELSE req[r]]
  /\ bundle' = [bundle EXCEPT ![e] = None]
  /\ claim' = [i \in Ids |-> IF offered(i) /\ Claimable(i, edge[e][i].nonce)
                             THEN edge[e][i].nonce ELSE claim[i]]
  /\ UNCHANGED <<cp, edge, token, outbox, history>>

Serve(r) ==
  \/ \E e \in Edges, i \in Ids, t \in Tokens : Assign(r, e, i, t)
  \/ Spend(r) \/ SignFails(r) \/ Claim(r) \/ Persist(r) \/ ReleaseFails(r) \/ Report(r)

Next ==
  \/ Administer
  \/ \E r \in Requests : Serve(r)
  \/ \E e \in Edges :
       \/ Poll(e) \/ FetchBundle(e) \/ ApplyBundle(e) \/ Restart(e)
       \/ \E i \in Ids : Drain(e, i)

Spec == Init /\ [][Next]_vars

-------------------------------------------------------------------------------
(* Properties.                                                             *)

Of(i) == {c \in certs : c.id = i}

\* "One-time": no token ever stands behind two certificates, however many
\* requests present it at once and whatever answers are lost.
OneCertificatePerToken ==
  \A c, d \in certs : c.token = d.token => c = d

\* Two Edges racing for one identity, or an Edge whose ledger lags, never both
\* issue under the same grant, and none can later: a certificate leaves the
\* identity claimed at its grant or a newer one.  The exception is a claim
\* forgotten when a save failed.
OneCertificatePerGrant ==
  \A c \in certs : forgot[c.id] = 0 =>
    /\ claim[c.id] >= c.grant
    /\ \A d \in certs : c.id = d.id /\ c.grant = d.grant => c = d

\* What an administrator switched off stays off.  A removal is undone by the one
\* named act (or by its 90 days running out) and a disabled device by an act of
\* the administrator, neither by a report, a bundle or another enrolment.
OffStaysOff ==
  [][\A i \in Ids :
       /\ cp[i].st = "removed" /\ cp'[i].st # "removed" =>
            permits'[i] = permits[i] + 1 \/ cp'[i] = Absent
       /\ cp[i].st = "disabled" /\ cp'[i].st = "enabled" => Administer]_vars

\* The fleet keeps the promise of OneTimeEnrolment, where a released claim that
\* had replaced earlier ones counts as that many permissions.
Promise == INSTANCE OneTimeEnrolment WITH
  issued <- [i \in Ids |-> Cardinality(Of(i))],
  permitted <- [i \in Ids |-> 1 + permits[i] + forgot[i]]

OneTime == Promise!Spec

\* Nothing is under way anywhere.
Quiet == (\A r \in Requests : pc[r] = "idle") /\ (\A e \in Edges : outbox[e] = {})

\* "The one act that lifts a removal": a permission is newer than the standing
\* claim when it is given, so the identity can enrol under it.
PermissionBeatsClaim ==
  [][Quiet => \A i \in Ids : permits'[i] > permits[i] => cp'[i].nonce > claim[i]]_vars
===============================================================================

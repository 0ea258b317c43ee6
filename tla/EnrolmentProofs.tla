--------------------------- MODULE EnrolmentProofs ---------------------------
(***************************************************************************)
(* Proofs about Enrolment, for any identities, Edges, tokens and requests, *)
(* any kinds and number of faults and any number of permissions.           *)
(***************************************************************************)
EXTENDS Enrolment, FiniteSetTheorems, TLAPS

-----------------------------------------------------------------------------
(* Type correctness.                                                        *)

\* No copy of an entry carries a grant nobody permitted, and no claim is under
\* one: what keeps AllowReenrolment's counter within its bound.
GrantsWerePermitted ==
  \A i \in Ids :
    /\ cp[i].nonce <= permits[i] /\ claim[i] <= permits[i]
    /\ \A e \in Edges :
         /\ edge[e][i].nonce <= permits[i]
         /\ bundle[e] # None => bundle[e][i].nonce <= permits[i]

TypeInv == TypeOK /\ GrantsWerePermitted

\* A merged ledger is a ledger, and its grants are the control plane's or its own.
LEMMA AppliedType ==
  ASSUME NEW mine \in [Ids -> Entry], NEW theirs \in [Ids -> Entry]
  PROVE  /\ Applied(mine, theirs) \in [Ids -> Entry]
         /\ \A i \in Ids : Applied(mine, theirs)[i].nonce \in {mine[i].nonce, theirs[i].nonce}
<1>1. ASSUME NEW i \in Ids
      PROVE  Merged(mine[i], theirs[i]) \in Entry /\ Merged(mine[i], theirs[i]).nonce = theirs[i].nonce
  BY DEF Merged, Entry
<1> QED BY <1>1 DEF Applied

\* A marked entry is an entry under the same grant.
LEMMA MarkedType ==
  ASSUME NEW en \in Entry
  PROVE  Marked(en) \in Entry /\ Marked(en).nonce = en.nonce
BY DEF Marked, Entry

\* What recordEnrolmentReport leaves is a ledger with the same grants.
LEMMA RecordedType ==
  ASSUME TypeOK, NEW i \in Ids, Recorded(i)
  PROVE  cp' \in [Ids -> Entry] /\ \A j \in Ids : cp'[j].nonce = cp[j].nonce
BY MarkedType DEF Recorded, TypeOK

\* An ended request is idle and holds nothing.
LEMMA ReturnType ==
  ASSUME TypeOK, NEW r \in Requests, Return(r)
  PROVE  /\ pc' \in [Requests -> PCs]
         /\ req' \in [Requests -> [edge: Edges \cup {None}, id: Ids \cup {None},
                                   token: Tokens \cup {None}, grant: Grants]]
         /\ \A s \in Requests : pc'[s] # "idle" => None \notin {req'[s].edge, req'[s].id, req'[s].token}
BY EnrolmentAssumption DEF Return, TypeOK, PCs, NoRequest, Grants

\* A request under way has an Edge, an identity and a token.
LEMMA RequestType ==
  ASSUME TypeOK, NEW r \in Requests, pc[r] # "idle"
  PROVE  req[r].edge \in Edges /\ req[r].id \in Ids /\ req[r].token \in Tokens /\ req[r].grant \in Grants
BY DEF TypeOK

\* A fault stays within the bound.
LEMMA FaultType ==
  ASSUME TypeOK, NEW k, Fault(k)
  PROVE  faults' \in 0 .. MaxFaults
BY EnrolmentAssumption DEF Fault, TypeOK

\* The start of the system is well typed.
LEMMA TypeInit == Init => TypeInv
BY EnrolmentAssumption DEF Init, TypeInv, TypeOK, GrantsWerePermitted, Absent, Entry, Grants, NoRequest, PCs

\* The administrator's acts keep the types.
LEMMA TypeAdminister == TypeInv /\ Administer => TypeInv'
<1> SUFFICES ASSUME TypeInv, Administer PROVE TypeInv'
  OBVIOUS
<1> USE DEF TypeInv, RestUnchanged, requests
<1>1. ASSUME NEW t \in Tokens, RevokeToken(t) PROVE TypeInv'
  BY <1>1 DEF RevokeToken, TypeOK, GrantsWerePermitted
<1>2. ASSUME NEW i \in Ids, PreAdd(i) PROVE TypeInv'
  <2>1. cp[i] \in Entry /\ cp' = [cp EXCEPT ![i] = [cp[i] EXCEPT !.st = "enabled"]]
    BY <1>2 DEF PreAdd, TypeOK
  <2>2. [cp[i] EXCEPT !.st = "enabled"] \in Entry
        /\ [cp[i] EXCEPT !.st = "enabled"].nonce = cp[i].nonce
    BY <2>1 DEF Entry
  <2>3. cp' \in [Ids -> Entry] /\ \A j \in Ids : cp'[j].nonce = cp[j].nonce
    BY <2>1, <2>2 DEF TypeOK
  <2> QED BY <1>2, <2>3 DEF PreAdd, TypeOK, GrantsWerePermitted
<1>3. ASSUME NEW i \in Ids, NEW b \in BOOLEAN, SetEnabled(i, b) PROVE TypeInv'
  <2>1. PICK st \in {"enabled", "disabled"} : cp' = [cp EXCEPT ![i].st = st]
    BY <1>3 DEF SetEnabled
  <2>2. cp' \in [Ids -> Entry] /\ \A j \in Ids : cp'[j].nonce = cp[j].nonce
    <3>1. cp[i] \in Entry /\ cp' = [cp EXCEPT ![i] = [cp[i] EXCEPT !.st = st]]
      BY <2>1 DEF TypeOK
    <3>2. [cp[i] EXCEPT !.st = st] \in Entry /\ [cp[i] EXCEPT !.st = st].nonce = cp[i].nonce
      BY <3>1 DEF Entry
    <3> QED BY <3>1, <3>2 DEF TypeOK
  <2> QED BY <1>3, <2>2 DEF SetEnabled, TypeOK, GrantsWerePermitted
<1>4. ASSUME NEW i \in Ids, RemoveChecked(i) PROVE TypeInv'
  <2>1. PICK old : cp' = [j \in Ids |-> IF j = i THEN [Absent EXCEPT !.st = "removed"]
                                         ELSE IF j \in old THEN Absent ELSE cp[j]]
    BY <1>4 DEF RemoveChecked
  <2>2. [Absent EXCEPT !.st = "removed"] \in Entry /\ Absent \in Entry
        /\ [Absent EXCEPT !.st = "removed"].nonce = 0 /\ Absent.nonce = 0
    <3>1. 0 \in Grants
      BY EnrolmentAssumption DEF Grants
    <3> QED BY <3>1 DEF Absent, Entry
  <2>3. cp' \in [Ids -> Entry] /\ \A j \in Ids : cp'[j].nonce \in {0, cp[j].nonce}
    BY <2>1, <2>2 DEF TypeOK
  <2>4. \A j \in Ids : cp'[j].nonce <= permits[j]
    <3>1. \A j \in Ids : 0 <= permits[j] /\ cp[j].nonce <= permits[j]
      BY DEF TypeOK, GrantsWerePermitted, Grants
    <3> QED BY <2>3, <3>1
  <2> QED BY <1>4, <2>3, <2>4 DEF RemoveChecked, TypeOK, GrantsWerePermitted
<1>5. ASSUME NEW i \in Ids, AllowReenrolment(i) PROVE TypeInv'
  <2>1. cp[i].nonce + 1 \in Grants /\ permits[i] + 1 \in Grants
    BY <1>5, EnrolmentAssumption DEF AllowReenrolment, TypeOK, GrantsWerePermitted, Entry, Grants
  <2> DEFINE allowed == [cp[i] EXCEPT !.st = "enabled", !.nonce = @ + 1, !.marked = FALSE]
  <2>2. cp' = [cp EXCEPT ![i] = allowed] /\ permits' = [permits EXCEPT ![i] = permits[i] + 1]
    BY <1>5 DEF AllowReenrolment, TypeOK, Entry
  <2>3. allowed \in Entry /\ allowed.nonce = cp[i].nonce + 1
    <3>1. cp[i] \in Entry
      BY DEF TypeOK
    <3> QED BY <2>1, <3>1 DEF Entry
  <2> HIDE DEF allowed
  <2>4. /\ cp' \in [Ids -> Entry] /\ permits' \in [Ids -> Grants]
        /\ \A j \in Ids \ {i} : cp'[j] = cp[j] /\ permits'[j] = permits[j]
        /\ cp'[i].nonce = cp[i].nonce + 1 /\ permits'[i] = permits[i] + 1
    BY <2>1, <2>2, <2>3 DEF TypeOK
  <2>5. /\ permits[i] \in Int /\ cp[i].nonce \in Int /\ claim[i] \in Int
        /\ \A e \in Edges : /\ edge[e][i].nonce \in Int
                            /\ bundle[e] # None => bundle[e][i].nonce \in Int
    BY DEF TypeOK, Entry, Grants
  <2>6. GrantsWerePermitted'
    <3> SUFFICES ASSUME NEW j \in Ids
                 PROVE  /\ cp'[j].nonce <= permits'[j] /\ claim[j] <= permits'[j]
                        /\ \A e \in Edges :
                             /\ edge[e][j].nonce <= permits'[j]
                             /\ bundle[e] # None => bundle[e][j].nonce <= permits'[j]
      BY <1>5 DEF AllowReenrolment, GrantsWerePermitted
    <3>1. CASE j # i
      BY <2>4, <3>1 DEF GrantsWerePermitted
    <3>2. CASE j = i
      <4>1. permits'[i] >= permits[i] /\ cp'[i].nonce <= permits'[i]
        BY <2>4, <2>5 DEF GrantsWerePermitted
      <4>2. permits'[i] \in Int
        BY <2>4 DEF Grants
      <4>3. ASSUME NEW x \in Int, x <= permits[i] PROVE x <= permits'[i]
        BY <2>5, <4>1, <4>2, <4>3
      <4> HIDE DEF TypeInv
      <4>4. GrantsWerePermitted
        BY DEF TypeInv
      <4>5. claim[i] <= permits'[i]
        BY <2>5, <4>3, <4>4 DEF GrantsWerePermitted
      <4>6. ASSUME NEW e \in Edges PROVE edge[e][i].nonce <= permits'[i]
        BY <2>5, <4>3, <4>4 DEF GrantsWerePermitted
      <4>7. ASSUME NEW e \in Edges, bundle[e] # None PROVE bundle[e][i].nonce <= permits'[i]
        BY <2>5, <4>3, <4>4, <4>7 DEF GrantsWerePermitted
      <4> QED BY <3>2, <4>1, <4>5, <4>6, <4>7
    <3> QED BY <3>1, <3>2
  <2> QED BY <1>5, <2>4, <2>6 DEF AllowReenrolment, TypeOK
<1> QED BY <1>1, <1>2, <1>3, <1>4, <1>5 DEF Administer

\* The steps of an enrolment keep the types.
LEMMA TypeServe == ASSUME NEW r \in Requests PROVE TypeInv /\ Serve(r) => TypeInv'
<1> SUFFICES ASSUME TypeInv, Serve(r) PROVE TypeInv'
  OBVIOUS
<1> USE DEF TypeInv, ledgers, authority, history, requests
<1>1. ASSUME NEW e \in Edges, NEW i \in Ids, NEW t \in Tokens, Assign(r, e, i, t) PROVE TypeInv'
  <2> DEFINE Filed == [edge: Edges \cup {None}, id: Ids \cup {None},
                       token: Tokens \cup {None}, grant: Grants]
             q == [edge |-> e, id |-> i, token |-> t, grant |-> 0]
  <2>1. 0 \in Grants
    BY EnrolmentAssumption DEF Grants
  <2>2. q \in Filed /\ None \notin {q.edge, q.id, q.token}
    BY <2>1, EnrolmentAssumption
  <2>3. req \in [Requests -> Filed] /\ req' = [req EXCEPT ![r] = q]
    BY <1>1 DEF Assign, TypeOK
  <2> HIDE DEF q, Filed
  <2>4. req' \in [Requests -> Filed] /\ req'[r] = q /\ \A s \in Requests \ {r} : req'[s] = req[s]
    BY <2>2, <2>3
  <2>5. pc' \in [Requests -> PCs] /\ \A s \in Requests \ {r} : pc'[s] = pc[s]
    BY <1>1 DEF Assign, TypeOK, PCs
  <2>6. \A s \in Requests : pc'[s] # "idle" => None \notin {req'[s].edge, req'[s].id, req'[s].token}
    BY <2>2, <2>4, <2>5 DEF TypeOK
  <2> QED BY <1>1, <2>4, <2>5, <2>6 DEF Assign, TypeOK, GrantsWerePermitted, Filed
<1>2. CASE Spend(r)
  <2>1. req[r].token \in Tokens /\ token' \in [Tokens -> {"outstanding", "closed"}]
    <3>1. req[r].token \in Tokens
      BY <1>2, RequestType DEF Spend
    <3>2. token' = token \/ token' = [token EXCEPT ![req[r].token] = "closed"]
      BY <1>2 DEF Spend
    <3>3. token \in [Tokens -> {"outstanding", "closed"}]
      BY DEF TypeOK
    <3> QED BY <3>1, <3>2, <3>3
  <2>2. /\ faults' \in 0 .. MaxFaults
    BY <1>2, FaultType DEF Spend, TypeOK
  <2>3. CASE Return(r)
    BY <1>2, <2>1, <2>2, <2>3, ReturnType DEF Spend, TypeOK, GrantsWerePermitted
  <2>4. CASE Go(r, "claim")
    BY <1>2, <2>1, <2>2, <2>4 DEF Spend, Go, TypeOK, PCs, GrantsWerePermitted
  <2> QED BY <1>2, <2>3, <2>4 DEF Spend
<1>3. CASE SignFails(r)
  BY <1>3, ReturnType, FaultType DEF SignFails, TypeOK, GrantsWerePermitted
<1>4. CASE Claim(r)
  <2> DEFINE e == req[r].edge
             i == req[r].id
             grant == edge[e][i].nonce
  <2>1. e \in Edges /\ i \in Ids
    BY <1>4, RequestType DEF Claim
  <2>2. grant \in Grants /\ grant <= permits[i]
    BY <2>1 DEF TypeOK, GrantsWerePermitted, Entry
  <2>3. claim' = claim \/ claim' = [claim EXCEPT ![i] = grant]
    BY <1>4 DEF Claim
  <2>4. claim' \in [Ids -> Grants \cup {-1}] /\ \A j \in Ids : claim'[j] <= permits[j]
    BY <2>1, <2>2, <2>3 DEF TypeOK, GrantsWerePermitted
  <2>5. faults' \in 0 .. MaxFaults
    BY <1>4, FaultType DEF Claim, TypeOK
  <2>6. CASE Return(r)
    BY <1>4, <2>4, <2>5, <2>6, ReturnType DEF Claim, TypeOK, GrantsWerePermitted
  <2>7. CASE pc' = [pc EXCEPT ![r] = "persist"] /\ req' = [req EXCEPT ![r].grant = grant]
    <3>1. pc' \in [Requests -> PCs] /\ \A s \in Requests \ {r} : pc'[s] = pc[s]
      BY <2>7 DEF TypeOK, PCs
    <3>2. /\ req' \in [Requests -> [edge: Edges \cup {None}, id: Ids \cup {None},
                                  token: Tokens \cup {None}, grant: Grants]]
          /\ \A s \in Requests : /\ req'[s].edge = req[s].edge
                                /\ req'[s].id = req[s].id /\ req'[s].token = req[s].token
      <4> DEFINE Filed == [edge: Edges \cup {None}, id: Ids \cup {None},
                           token: Tokens \cup {None}, grant: Grants]
                 q == [req[r] EXCEPT !.grant = grant]
      <4>1. req \in [Requests -> Filed] /\ req[r] \in Filed
        BY DEF TypeOK
      <4>2. req' = [req EXCEPT ![r] = q]
        BY <2>7, <4>1
      <4> HIDE DEF grant
      <4>3. q \in Filed /\ q.edge = req[r].edge /\ q.id = req[r].id /\ q.token = req[r].token
        BY <2>2, <4>1
      <4> HIDE DEF q, Filed
      <4>4. req' \in [Requests -> Filed]
        BY <4>1, <4>2, <4>3
      <4>5. ASSUME NEW s \in Requests
            PROVE  /\ req'[s].edge = req[s].edge
                   /\ req'[s].id = req[s].id /\ req'[s].token = req[s].token
        BY <4>1, <4>2, <4>3
      <4> QED BY <4>4, <4>5 DEF Filed
    <3>3. \A s \in Requests : pc'[s] # "idle" => None \notin {req'[s].edge, req'[s].id, req'[s].token}
      BY <1>4, <3>1, <3>2 DEF Claim, TypeOK
    <3> QED BY <1>4, <2>4, <2>5, <3>1, <3>2, <3>3 DEF Claim, TypeOK, GrantsWerePermitted
  <2> QED BY <1>4, <2>6, <2>7 DEF Claim
<1>5. CASE Persist(r)
  <2> DEFINE e == req[r].edge
             i == req[r].id
             grant == req[r].grant
  <2>1. e \in Edges /\ i \in Ids /\ grant \in Grants
    BY <1>5, RequestType DEF Persist
  <2>2. CASE edge' = [edge EXCEPT ![e][i] = Marked(@)] /\ Go(r, "report") /\ UNCHANGED <<claim, forgot, faults>>
    <3>1. edge' \in [Edges -> [Ids -> Entry]]
      BY <2>1, <2>2, MarkedType DEF TypeOK
    <3>2. \A f \in Edges, j \in Ids : edge'[f][j].nonce = edge[f][j].nonce
      BY <2>1, <2>2, MarkedType DEF TypeOK
    <3> QED BY <1>5, <2>2, <3>1, <3>2 DEF Persist, Go, TypeOK, GrantsWerePermitted, PCs
  <2>3. CASE Fault("save") /\ Return(r) /\ UNCHANGED edge
    <3>1. /\ claim' \in [Ids -> Grants \cup {-1}]
          /\ \A j \in Ids : claim'[j] \in {claim[j], -1}
          /\ forgot' \in [Ids -> Nat]
      <4>1. grant \in Nat
        BY <2>1 DEF Grants
      <4>2. CASE UNCHANGED <<claim, forgot>>
        BY <4>2 DEF TypeOK
      <4>3. CASE claim' = [claim EXCEPT ![i] = -1] /\ forgot' = [forgot EXCEPT ![i] = @ + grant]
        BY <2>1, <4>1, <4>3 DEF TypeOK
      <4> QED BY <1>5, <4>2, <4>3 DEF Persist
    <3>2. ASSUME NEW j \in Ids PROVE claim'[j] <= permits[j]
      <4>1. permits[j] \in Nat
        BY DEF TypeOK, Grants
      <4>2. claim[j] <= permits[j]
        BY DEF GrantsWerePermitted
      <4> QED BY <3>1, <4>1, <4>2
    <3> QED BY <1>5, <2>3, <3>1, <3>2, ReturnType, FaultType DEF Persist, TypeOK, GrantsWerePermitted
  <2> QED BY <1>5, <2>2, <2>3 DEF Persist
<1>6. CASE ReleaseFails(r)
  BY <1>6, ReturnType, FaultType DEF ReleaseFails, TypeOK, GrantsWerePermitted
<1>7. CASE Report(r)
  <2> DEFINE e == req[r].edge
             i == req[r].id
  <2>1. e \in Edges /\ i \in Ids /\ req[r].token \in Tokens /\ req[r].grant \in Grants
    BY <1>7, RequestType DEF Report
  <2>2. cp' \in [Ids -> Entry] /\ \A j \in Ids : cp'[j].nonce = cp[j].nonce
    BY <1>7, <2>1, RecordedType DEF Report, TypeOK
  <2>3. outbox' \in [Edges -> SUBSET Ids]
    BY <1>7, <2>1 DEF Report, TypeOK
  <2>4. faults' \in 0 .. MaxFaults
    BY <1>7, FaultType DEF Report, TypeOK
  <2>5. certs' \subseteq Certificates
    BY <1>7, <2>1 DEF Report, TypeOK, Certificates
  <2> QED BY <1>7, <2>2, <2>3, <2>4, <2>5, ReturnType DEF Report, TypeOK, GrantsWerePermitted
<1> QED BY <1>1, <1>2, <1>3, <1>4, <1>5, <1>6, <1>7 DEF Serve

\* The bundles, the drain and the restart of an Edge keep the types.
LEMMA TypeEdge ==
  ASSUME NEW e \in Edges, TypeInv,
         Poll(e) \/ FetchBundle(e) \/ ApplyBundle(e) \/ Restart(e) \/ \E i \in Ids : Drain(e, i)
  PROVE  TypeInv'
<1> USE DEF TypeInv, ledgers, authority, history, requests
<1>1. CASE Poll(e)
  <2>1. /\ Applied(edge[e], cp) \in [Ids -> Entry]
        /\ \A i \in Ids : Applied(edge[e], cp)[i].nonce <= permits[i]
    <3>1. edge[e] \in [Ids -> Entry] /\ cp \in [Ids -> Entry]
      BY DEF TypeOK
    <3>2. \A i \in Ids : edge[e][i].nonce <= permits[i] /\ cp[i].nonce <= permits[i]
      BY DEF GrantsWerePermitted
    <3> QED BY <3>1, <3>2, AppliedType
  <2> QED BY <1>1, <2>1 DEF Poll, TypeOK, GrantsWerePermitted
<1>2. CASE FetchBundle(e)
  BY <1>2, FaultType DEF FetchBundle, TypeOK, GrantsWerePermitted
<1>3. CASE ApplyBundle(e)
  <2>1. bundle[e] \in [Ids -> Entry]
    BY <1>3 DEF ApplyBundle, TypeOK
  <2>2. /\ Applied(edge[e], bundle[e]) \in [Ids -> Entry]
        /\ \A i \in Ids : Applied(edge[e], bundle[e])[i].nonce <= permits[i]
    <3>1. edge[e] \in [Ids -> Entry]
      BY DEF TypeOK
    <3>2. \A i \in Ids : edge[e][i].nonce <= permits[i] /\ bundle[e][i].nonce <= permits[i]
      BY <1>3 DEF ApplyBundle, GrantsWerePermitted
    <3> QED BY <2>1, <3>1, <3>2, AppliedType
  <2> QED BY <1>3, <2>2 DEF ApplyBundle, TypeOK, GrantsWerePermitted
<1>4. CASE Restart(e)
  <2>1. pc' \in [Requests -> PCs] /\ \A s \in Requests : pc'[s] # "idle" => req'[s] = req[s] /\ pc[s] # "idle"
    BY <1>4 DEF Restart, TypeOK, PCs
  <2>2. req' \in [Requests -> [edge: Edges \cup {None}, id: Ids \cup {None},
                               token: Tokens \cup {None}, grant: Grants]]
    BY <1>4, EnrolmentAssumption DEF Restart, TypeOK, NoRequest, Grants
  <2>3. \A i \in Ids : claim'[i] \in {claim[i], edge[e][i].nonce}
    BY <1>4 DEF Restart
  <2>4. claim' \in [Ids -> Grants \cup {-1}] /\ \A i \in Ids : claim'[i] <= permits[i]
    BY <1>4, <2>3 DEF Restart, TypeOK, GrantsWerePermitted, Entry
  <2> QED BY <1>4, <2>1, <2>2, <2>4, FaultType DEF Restart, TypeOK, GrantsWerePermitted
<1>5. ASSUME NEW i \in Ids, Drain(e, i) PROVE TypeInv'
  <2>1. cp' \in [Ids -> Entry] /\ \A j \in Ids : cp'[j].nonce = cp[j].nonce
    BY <1>5, RecordedType DEF Drain
  <2>2. faults' \in 0 .. MaxFaults
    BY <1>5, FaultType DEF Drain, TypeOK
  <2>3. outbox' \in [Edges -> SUBSET Ids]
    BY <1>5 DEF Drain, TypeOK
  <2> QED BY <1>5, <2>1, <2>2, <2>3 DEF Drain, TypeOK, GrantsWerePermitted
<1> QED BY <1>1, <1>2, <1>3, <1>4, <1>5

\* Every step keeps the types.
LEMMA TypeNext == TypeInv /\ [Next]_vars => TypeInv'
<1>1. ASSUME TypeInv, UNCHANGED vars PROVE TypeInv'
  BY <1>1 DEF TypeInv, vars, TypeOK, GrantsWerePermitted, ledgers, authority, history, requests
<1> QED BY <1>1, TypeAdminister, TypeServe, TypeEdge DEF Next

\* The ledgers, the claims and the requests stay well typed, and no counter of
\* permissions passes its bound, through every step of administrator, Edge and
\* request.
THEOREM EnrolmentTypeCorrect == Spec => [](TypeOK /\ GrantsWerePermitted)
BY TypeInit, TypeNext, PTL DEF Spec, TypeInv
-----------------------------------------------------------------------------
(* One certificate per token.                                               *)

\* Past the spend, and past the claim.
Spent(r) == pc[r] \in {"claim", "persist", "report"}
Holding(r) == pc[r] \in {"persist", "report"}

\* A token behind a request past the spend, or behind a certificate, is closed
\* and is behind nothing else: the strengthening of OneCertificatePerToken.
TokensBackOne ==
  /\ \A r \in Requests : Spent(r) => token[req[r].token] = "closed"
  /\ \A r, s \in Requests : Spent(r) /\ Spent(s) /\ req[r].token = req[s].token => r = s
  /\ \A c \in certs :
       /\ token[c.token] = "closed"
       /\ \A r \in Requests : Spent(r) => req[r].token # c.token

\* While no claim of an identity was forgotten, its standing claim is at least as
\* new as the grant of every certificate and of every request that holds a
\* claim, and those grants differ: the strengthening of OneCertificatePerGrant.
ClaimsStand ==
  \A i \in Ids : forgot[i] = 0 =>
    /\ \A r \in Requests : Holding(r) /\ req[r].id = i => req[r].grant <= claim[i]
    /\ \A r, s \in Requests :
         Holding(r) /\ Holding(s) /\ req[r].id = i /\ req[s].id = i /\ req[r].grant = req[s].grant => r = s
    /\ \A r \in Requests, c \in certs :
         Holding(r) /\ req[r].id = i /\ c.id = i => req[r].grant # c.grant

\* The tokens behind the certificates and the claims held for an identity.
Backing(i) ==
  {t \in Tokens : \/ \E c \in certs : c.id = i /\ c.token = t
                  \/ \E r \in Requests : Holding(r) /\ req[r].id = i /\ req[r].token = t}

\* They are no more than the standing claim and the forgotten ones account for:
\* the strengthening of the promise of OneTimeEnrolment.
ClaimsPayForTokens ==
  \A i \in Ids : Cardinality(Backing(i)) <= claim[i] + 1 + forgot[i]
-----------------------------------------------------------------------------
(* What a step does to requests, tokens and claims.                         *)

\* A step that adds nothing to what backs a certificate: requests past the spend
\* may end, tokens may close and claims may grow newer.
Recedes ==
  /\ UNCHANGED <<certs, forgot>>
  /\ \A t \in Tokens : token[t] = "closed" => token'[t] = "closed"
  /\ \A i \in Ids : claim[i] <= claim'[i]
  /\ \A r \in Requests :
       /\ Spent(r)' => Spent(r) /\ req'[r] = req[r]
       /\ Holding(r)' => Holding(r)

\* An ended request is past nothing, and the others are where they were.
LEMMA ReturnRecedes ==
  ASSUME TypeOK, NEW r \in Requests, Return(r), NEW s \in Requests
  PROVE  /\ Spent(s)' => s # r /\ Spent(s) /\ req'[s] = req[s]
         /\ Holding(s)' => s # r /\ Holding(s) /\ req'[s] = req[s]
         /\ s # r => pc'[s] = pc[s] /\ req'[s] = req[s]
BY DEF Return, TypeOK, Spent, Holding

\* Only the four steps of an enrolment from the spend to the answer do more than
\* recede.
LEMMA OnlyServingAdvances ==
  ASSUME TypeInv, [Next]_vars
  PROVE  Recedes \/ \E r \in Requests : Spend(r) \/ Claim(r) \/ Persist(r) \/ Report(r)
<1> USE DEF ledgers, authority, history, requests
<1>a. TypeOK /\ \A i \in Ids : claim[i] \in Int
  BY DEF TypeInv, TypeOK, Grants
<1>0. ASSUME UNCHANGED <<pc, req, certs, forgot, claim>>, 
             \A t \in Tokens : token[t] = "closed" => token'[t] = "closed"
      PROVE  Recedes
  BY <1>a, <1>0 DEF Recedes, Spent, Holding
<1>1. CASE UNCHANGED vars
  BY <1>0, <1>1 DEF vars
<1>2. CASE Administer
  <2>1. UNCHANGED <<pc, req, certs, forgot, claim>>
    BY <1>2 DEF Administer, RevokeToken, PreAdd, SetEnabled, RemoveChecked, AllowReenrolment, RestUnchanged
  <2>2. token' = token \/ \E t \in Tokens : token' = [token EXCEPT ![t] = "closed"]
    BY <1>2 DEF Administer, RevokeToken, PreAdd, SetEnabled, RemoveChecked, AllowReenrolment
  <2> QED BY <1>0, <1>a, <2>1, <2>2 DEF TypeOK
<1>3. ASSUME NEW e \in Edges, Poll(e) \/ FetchBundle(e) \/ ApplyBundle(e) \/ \E i \in Ids : Drain(e, i)
      PROVE  Recedes
  BY <1>0, <1>3 DEF Poll, FetchBundle, ApplyBundle, Drain
<1>4. ASSUME NEW e \in Edges, Restart(e) PROVE Recedes
  <2>1. \A i \in Ids : claim'[i] = claim[i] \/ (claim'[i] = edge[e][i].nonce /\ claim[i] < edge[e][i].nonce)
    BY <1>4 DEF Restart, Claimable
  <2>2. \A i \in Ids : edge[e][i].nonce \in Int
    BY <1>a DEF TypeOK, Entry, Grants
  <2>3. \A i \in Ids : claim[i] <= claim'[i]
    BY <1>a, <2>1, <2>2
  <2>4. \A r \in Requests : pc'[r] # "idle" => pc'[r] = pc[r] /\ req'[r] = req[r]
    BY <1>4 DEF Restart
  <2> QED BY <1>4, <2>3, <2>4 DEF Restart, Recedes, Spent, Holding
<1>5. ASSUME NEW r \in Requests, NEW e \in Edges, NEW i \in Ids, NEW t \in Tokens, Assign(r, e, i, t)
      PROVE  Recedes
  <2>1. \A s \in Requests \ {r} : pc'[s] = pc[s] /\ req'[s] = req[s]
    BY <1>5, <1>a DEF Assign, TypeOK
  <2>2. pc'[r] = "spend"
    BY <1>5, <1>a DEF Assign, TypeOK
  <2> QED BY <1>5, <1>a, <2>1, <2>2 DEF Assign, Recedes, Spent, Holding
<1>6. ASSUME NEW r \in Requests, SignFails(r) \/ ReleaseFails(r) PROVE Recedes
  <2>1. Return(r) /\ UNCHANGED <<certs, forgot, token, claim>>
    BY <1>6 DEF SignFails, ReleaseFails
  <2> QED BY <1>a, <2>1, ReturnRecedes DEF Recedes
<1> QED BY <1>1, <1>2, <1>3, <1>4, <1>5, <1>6 DEF Next, Serve

\* Spend marks the outstanding token it presents, or the request recedes.
LEMMA SpendEffect ==
  ASSUME TypeInv, NEW r \in Requests, Spend(r)
  PROVE  \/ Recedes
         \/ /\ token[req[r].token] = "outstanding" /\ req[r].token \in Tokens
            /\ token' = [token EXCEPT ![req[r].token] = "closed"]
            /\ Go(r, "claim") /\ UNCHANGED <<claim, certs, forgot>>
<1> USE DEF ledgers, history
<1>1. TypeOK /\ req[r].token \in Tokens /\ \A i \in Ids : claim[i] \in Int
  BY RequestType DEF TypeInv, TypeOK, Spend, Grants
<1>2. CASE Return(r)
  <2>1. \A t \in Tokens : token[t] = "closed" => token'[t] = "closed"
    BY <1>1 DEF Spend, TypeOK
  <2>2. UNCHANGED <<certs, forgot, claim>>
    BY DEF Spend
  <2> QED BY <1>1, <1>2, <2>1, <2>2, ReturnRecedes DEF Recedes
<1> QED BY <1>1, <1>2 DEF Spend

\* Claim raises the shared claim to the grant of the Edge's own ledger and goes on
\* with that grant, or the request recedes.
LEMMA ClaimEffect ==
  ASSUME TypeInv, NEW r \in Requests, Claim(r)
  PROVE  \/ Recedes
         \/ \E grant \in Grants :
              /\ req[r].id \in Ids /\ pc[r] = "claim" /\ claim[req[r].id] < grant
              /\ claim' = [claim EXCEPT ![req[r].id] = grant]
              /\ pc' = [pc EXCEPT ![r] = "persist"]
              /\ req' = [req EXCEPT ![r].grant = grant]
              /\ UNCHANGED <<token, certs, forgot>>
<1> DEFINE e == req[r].edge
           i == req[r].id
           grant == edge[e][i].nonce
<1>1. TypeOK /\ e \in Edges /\ i \in Ids /\ grant \in Grants /\ pc[r] = "claim"
  BY RequestType DEF TypeInv, TypeOK, Claim, Entry
<1>2. CASE Return(r)
  <2>1. claim' = claim \/ (claim[i] < grant /\ claim' = [claim EXCEPT ![i] = grant])
    BY DEF Claim, Claimable
  <2>2. \A j \in Ids : claim[j] <= claim'[j]
    <3>1. \A j \in Ids : claim[j] \in Int
      BY <1>1 DEF TypeOK, Grants
    <3>2. grant \in Int
      BY <1>1 DEF Grants
    <3> HIDE DEF grant, i
    <3> QED BY <1>1, <2>1, <3>1, <3>2 DEF TypeOK
  <2>3. UNCHANGED <<certs, forgot, token>>
    BY DEF Claim
  <2> QED BY <1>1, <1>2, <2>2, <2>3, ReturnRecedes DEF Recedes
<1>3. CASE /\ Claimable(i, grant) /\ claim' = [claim EXCEPT ![i] = grant]
           /\ pc' = [pc EXCEPT ![r] = "persist"] /\ req' = [req EXCEPT ![r].grant = grant]
  BY <1>1, <1>3 DEF Claim, Claimable
<1> QED BY <1>2, <1>3 DEF Claim

\* Persist goes on to the answer, gives back the claim the request holds, or the
\* request recedes.
LEMMA PersistEffect ==
  ASSUME TypeInv, NEW r \in Requests, Persist(r)
  PROVE  \/ Recedes
         \/ /\ UNCHANGED <<req, token, claim, certs, forgot>> /\ pc[r] = "persist"
            /\ pc' = [pc EXCEPT ![r] = "report"]
         \/ /\ req[r].id \in Ids /\ req[r].grant \in Nat /\ pc[r] = "persist"
            /\ claim[req[r].id] = req[r].grant /\ claim' = [claim EXCEPT ![req[r].id] = -1]
            /\ forgot' = [forgot EXCEPT ![req[r].id] = @ + req[r].grant]
            /\ Return(r) /\ UNCHANGED <<token, certs>>
<1>1. TypeOK /\ req[r].id \in Ids /\ req[r].grant \in Nat /\ \A i \in Ids : claim[i] \in Int
  BY RequestType DEF TypeInv, TypeOK, Persist, Grants
<1>2. CASE Return(r) /\ UNCHANGED <<claim, forgot>>
  BY <1>1, <1>2, ReturnRecedes DEF Persist, Recedes
<1> QED BY <1>1, <1>2 DEF Persist, Go

\* Report is where the certificate is answered, under the grant that was claimed.
LEMMA ReportEffect ==
  ASSUME TypeInv, NEW r \in Requests, Report(r)
  PROVE  /\ pc[r] = "report" /\ req[r].id \in Ids /\ req[r].token \in Tokens /\ req[r].grant \in Grants
         /\ certs' = certs \cup {[id |-> req[r].id, token |-> req[r].token, grant |-> req[r].grant]}
         /\ Return(r) /\ UNCHANGED <<token, claim, permits, forgot>>
BY RequestType DEF TypeInv, Report, authority

-----------------------------------------------------------------------------
(* One certificate per token.                                               *)

TokenInv == TokensBackOne /\ OneCertificatePerToken

\* Every step keeps tokens behind one thing at a time.
LEMMA TokenNext ==
  ASSUME TypeInv, TokenInv, [Next]_vars
  PROVE  TokenInv'
<1>0. TypeOK
  BY DEF TypeInv
<1>1. CASE Recedes
  <2>1. /\ \A r \in Requests : Spent(r) => req[r].token \in Tokens
        /\ \A c \in certs : c.token \in Tokens
    BY <1>0, RequestType DEF Spent, TypeOK, Certificates
  <2>2. TokensBackOne'
    BY <1>1, <2>1 DEF Recedes, TokenInv, TokensBackOne
  <2> QED BY <1>1, <2>2 DEF Recedes, TokenInv, OneCertificatePerToken
<1>2. ASSUME NEW r \in Requests, Spend(r) PROVE TokenInv'
  <2> SUFFICES ASSUME /\ token[req[r].token] = "outstanding" /\ req[r].token \in Tokens
                      /\ token' = [token EXCEPT ![req[r].token] = "closed"]
                      /\ Go(r, "claim") /\ UNCHANGED <<claim, certs, forgot>>
               PROVE  TokenInv'
    BY <1>1, <1>2, SpendEffect
  <2>1. /\ \A s \in Requests \ {r} : Spent(s)' = Spent(s)
        /\ Spent(r)' /\ req' = req
    BY <1>0 DEF Go, TypeOK, Spent
  <2>2. \A t \in Tokens : token'[t] = IF t = req[r].token THEN "closed" ELSE token[t]
    BY <1>0 DEF TypeOK
  <2>3. /\ \A s \in Requests : Spent(s) => req[s].token \in Tokens /\ req[s].token # req[r].token
        /\ \A c \in certs : c.token \in Tokens /\ c.token # req[r].token
    BY <1>0, RequestType DEF Spent, TypeOK, Certificates, TokenInv, TokensBackOne
  <2>4. \A s \in Requests : Spent(s)' => token'[req'[s].token] = "closed"
    BY <2>1, <2>2, <2>3 DEF TokenInv, TokensBackOne
  <2>5. \A s, u \in Requests : Spent(s)' /\ Spent(u)' /\ req'[s].token = req'[u].token => s = u
    BY <2>1, <2>3 DEF TokenInv, TokensBackOne
  <2>6. \A c \in certs' : token'[c.token] = "closed" /\ \A s \in Requests : Spent(s)' => req'[s].token # c.token
    BY <2>1, <2>2, <2>3 DEF TokenInv, TokensBackOne
  <2> QED BY <2>4, <2>5, <2>6 DEF TokenInv, TokensBackOne, OneCertificatePerToken
<1>3. ASSUME NEW r \in Requests, Claim(r) PROVE TokenInv'
  <2> SUFFICES ASSUME NEW grant \in Grants,
                      /\ req[r].id \in Ids /\ pc[r] = "claim" /\ claim[req[r].id] < grant
                      /\ claim' = [claim EXCEPT ![req[r].id] = grant]
                      /\ pc' = [pc EXCEPT ![r] = "persist"]
                      /\ req' = [req EXCEPT ![r].grant = grant]
                      /\ UNCHANGED <<token, certs, forgot>>
               PROVE  TokenInv'
    BY <1>1, <1>3, ClaimEffect
  <2>1. \A s \in Requests : Spent(s)' = Spent(s) /\ req'[s].token = req[s].token
    BY <1>0 DEF TypeOK, Spent
  <2> QED BY <2>1 DEF TokenInv, TokensBackOne, OneCertificatePerToken
<1>4. ASSUME NEW r \in Requests, Persist(r) PROVE TokenInv'
  <2>1. ASSUME Return(r), UNCHANGED <<token, certs>> PROVE TokenInv'
    BY <1>0, <2>1, ReturnRecedes DEF TokenInv, TokensBackOne, OneCertificatePerToken
  <2>2. ASSUME UNCHANGED <<req, token, certs>>, pc[r] = "persist", pc' = [pc EXCEPT ![r] = "report"]
        PROVE  TokenInv'
    <3>1. \A s \in Requests : Spent(s)' = Spent(s)
      BY <1>0, <2>2 DEF TypeOK, Spent
    <3> QED BY <2>2, <3>1 DEF TokenInv, TokensBackOne, OneCertificatePerToken
  <2> QED BY <1>1, <1>4, <2>1, <2>2, PersistEffect
<1>5. ASSUME NEW r \in Requests, Report(r) PROVE TokenInv'
  <2> DEFINE c == [id |-> req[r].id, token |-> req[r].token, grant |-> req[r].grant]
  <2>1. /\ Spent(r) /\ certs' = certs \cup {c} /\ c.token = req[r].token
        /\ Return(r) /\ UNCHANGED token
    BY <1>5, ReportEffect DEF Spent
  <2> HIDE DEF c
  <2>2. token[c.token] = "closed" /\ \A d \in certs : d.token # c.token
    BY <2>1 DEF TokenInv, TokensBackOne
  <2>3. \A s \in Requests : Spent(s)' => req'[s].token # c.token
    BY <1>0, <2>1, ReturnRecedes DEF TokenInv, TokensBackOne
  <2>4. TokensBackOne'
    BY <1>0, <2>1, <2>2, <2>3, ReturnRecedes DEF TokenInv, TokensBackOne
  <2>5. OneCertificatePerToken'
    BY <2>1, <2>2 DEF TokenInv, OneCertificatePerToken
  <2> QED BY <2>4, <2>5 DEF TokenInv
<1> QED BY <1>1, <1>2, <1>3, <1>4, <1>5, OnlyServingAdvances

\* However many requests present a token at once, on however many Edges, and
\* whatever answers are lost, crashes happen or saves fail, Spend lets one
\* through: no token ever stands behind two certificates.
THEOREM OneCertificatePerTokenHolds == Spec => []OneCertificatePerToken
<1>1. Init => TokenInv
  BY DEF Init, TokenInv, TokensBackOne, OneCertificatePerToken, Spent
<1>2. TypeInv /\ TokenInv /\ [Next]_vars => TokenInv'
  BY TokenNext
<1>3. TokenInv => OneCertificatePerToken
  BY DEF TokenInv
<1> QED BY <1>1, <1>2, <1>3, TypeInit, TypeNext, PTL DEF Spec

-----------------------------------------------------------------------------
(* One certificate per grant.                                               *)

ClaimInv == ClaimsStand /\ OneCertificatePerGrant

\* Every step keeps the claim as new as what it stands for.
LEMMA ClaimNext ==
  ASSUME TypeInv, ClaimInv, [Next]_vars
  PROVE  ClaimInv'
<1>0. TypeOK
  BY DEF TypeInv
<1>a. /\ \A i \in Ids : claim[i] \in Int /\ forgot[i] \in Nat
      /\ \A r \in Requests : Holding(r) => req[r].id \in Ids /\ req[r].grant \in Nat
      /\ \A c \in certs : c.id \in Ids /\ c.grant \in Nat
  BY <1>0, RequestType DEF TypeOK, Grants, Certificates, Holding
<1>1. CASE Recedes
  <2>1. \A i \in Ids : claim[i] <= claim'[i] /\ claim'[i] \in Int
    <3>1. TypeOK'
      BY TypeNext DEF TypeInv
    <3> QED BY <1>1, <3>1 DEF Recedes, TypeOK, Grants
  <2>2. \A r \in Requests : Holding(r)' => Holding(r) /\ req'[r] = req[r]
    BY <1>1 DEF Recedes, Spent, Holding
  <2>3. ClaimsStand'
    <3> SUFFICES ASSUME NEW i \in Ids, forgot[i] = 0
                 PROVE  /\ \A r \in Requests : Holding(r)' /\ req'[r].id = i => req'[r].grant <= claim'[i]
                        /\ \A r, s \in Requests :
                             /\ Holding(r)' /\ Holding(s)' /\ req'[r].id = i /\ req'[s].id = i
                             /\ req'[r].grant = req'[s].grant
                             => r = s
                        /\ \A r \in Requests, c \in certs :
                             Holding(r)' /\ req'[r].id = i /\ c.id = i => req'[r].grant # c.grant
      BY <1>1 DEF Recedes, ClaimsStand
    <3> QED BY <1>a, <2>1, <2>2 DEF ClaimInv, ClaimsStand
  <2>4. OneCertificatePerGrant'
    BY <1>1, <1>a, <2>1 DEF Recedes, ClaimInv, OneCertificatePerGrant
  <2> QED BY <2>3, <2>4 DEF ClaimInv
<1>2. ASSUME NEW r \in Requests, Spend(r) PROVE ClaimInv'
  <2> SUFFICES ASSUME Go(r, "claim"), UNCHANGED <<claim, certs, forgot>>
               PROVE  ClaimInv'
    BY <1>1, <1>2, SpendEffect
  <2>1. \A s \in Requests : (Holding(s)' => Holding(s)) /\ req' = req
    BY <1>0 DEF Go, TypeOK, Holding
  <2> QED BY <2>1 DEF ClaimInv, ClaimsStand, OneCertificatePerGrant
<1>3. ASSUME NEW r \in Requests, Claim(r) PROVE ClaimInv'
  <2> DEFINE i == req[r].id
  <2> SUFFICES ASSUME NEW grant \in Grants,
                      /\ i \in Ids /\ pc[r] = "claim" /\ claim[i] < grant
                      /\ claim' = [claim EXCEPT ![i] = grant]
                      /\ pc' = [pc EXCEPT ![r] = "persist"]
                      /\ req' = [req EXCEPT ![r].grant = grant]
                      /\ UNCHANGED <<token, certs, forgot>>
               PROVE  ClaimInv'
    BY <1>1, <1>3, ClaimEffect
  <2>1. /\ \A s \in Requests \ {r} : Holding(s)' = Holding(s) /\ req'[s] = req[s]
        /\ req'[r].id = i /\ req'[r].grant = grant /\ ~Holding(r)
    BY <1>0 DEF TypeOK, Holding
  <2>2. /\ \A j \in Ids \ {i} : claim'[j] = claim[j]
        /\ claim'[i] = grant /\ grant \in Nat
    BY <1>0 DEF TypeOK, Grants
  <2> HIDE DEF i
  <2>3. \A s \in Requests : s # r /\ Holding(s) /\ req[s].id = i /\ forgot[i] = 0 => req[s].grant < grant
    BY <1>a, <2>2 DEF ClaimInv, ClaimsStand
  <2>4. \A c \in certs : c.id = i /\ forgot[i] = 0 => c.grant < grant
    BY <1>a, <2>2 DEF ClaimInv, OneCertificatePerGrant
  <2>5. ClaimsStand'
    <3> SUFFICES ASSUME NEW j \in Ids, forgot[j] = 0
                 PROVE  /\ \A s \in Requests : Holding(s)' /\ req'[s].id = j => req'[s].grant <= claim'[j]
                        /\ \A s, u \in Requests :
                             /\ Holding(s)' /\ Holding(u)' /\ req'[s].id = j /\ req'[u].id = j
                             /\ req'[s].grant = req'[u].grant
                             => s = u
                        /\ \A s \in Requests, c \in certs :
                             Holding(s)' /\ req'[s].id = j /\ c.id = j => req'[s].grant # c.grant
      BY DEF ClaimsStand
    <3>1. CASE j # i
      BY <2>1, <2>2, <3>1 DEF ClaimInv, ClaimsStand
    <3>2. CASE j = i
      <4>1. \A s \in Requests : s # r /\ Holding(s)' /\ req'[s].id = j => req'[s].grant < grant
        BY <2>1, <2>3, <3>2
      <4>2. \A s \in Requests : Holding(s)' => req'[s].grant \in Nat
        BY <1>a, <2>1, <2>2
      <4>3. \A s \in Requests : Holding(s)' /\ req'[s].id = j => req'[s].grant <= claim'[j]
        BY <2>1, <2>2, <3>2, <4>1, <4>2
      <4>4. \A s, u \in Requests :
              /\ Holding(s)' /\ Holding(u)' /\ req'[s].id = j /\ req'[u].id = j
              /\ req'[s].grant = req'[u].grant
              => s = u
        BY <2>1, <2>2, <3>2, <4>1, <4>2 DEF ClaimInv, ClaimsStand
      <4>5. \A s \in Requests, c \in certs :
              Holding(s)' /\ req'[s].id = j /\ c.id = j => req'[s].grant # c.grant
        BY <1>a, <2>1, <2>2, <2>4, <3>2 DEF ClaimInv, ClaimsStand
      <4> QED BY <4>3, <4>4, <4>5
    <3> QED BY <3>1, <3>2
  <2>6. OneCertificatePerGrant'
    BY <1>a, <2>2, <2>4 DEF ClaimInv, OneCertificatePerGrant
  <2> QED BY <2>5, <2>6 DEF ClaimInv
<1>4. ASSUME NEW r \in Requests, Persist(r) PROVE ClaimInv'
  <2>1. ASSUME UNCHANGED <<req, claim, certs, forgot>>, pc[r] = "persist", pc' = [pc EXCEPT ![r] = "report"]
        PROVE  ClaimInv'
    <3>1. \A s \in Requests : Holding(s)' = Holding(s)
      BY <1>0, <2>1 DEF TypeOK, Holding
    <3> QED BY <2>1, <3>1 DEF ClaimInv, ClaimsStand, OneCertificatePerGrant
  <2>2. ASSUME /\ req[r].id \in Ids /\ req[r].grant \in Nat /\ pc[r] = "persist"
               /\ claim[req[r].id] = req[r].grant /\ claim' = [claim EXCEPT ![req[r].id] = -1]
               /\ forgot' = [forgot EXCEPT ![req[r].id] = @ + req[r].grant]
               /\ Return(r) /\ UNCHANGED <<token, certs>>
        PROVE  ClaimInv'
    <3> DEFINE i == req[r].id
    <3>1. /\ \A j \in Ids \ {i} : claim'[j] = claim[j] /\ forgot'[j] = forgot[j]
          /\ forgot'[i] = forgot[i] + req[r].grant /\ i \in Ids /\ Holding(r)
      BY <1>0, <2>2 DEF TypeOK, Holding
    <3>2. \A s \in Requests : Holding(s)' => s # r /\ Holding(s) /\ req'[s] = req[s]
      BY <1>0, <2>2, ReturnRecedes
    \* A claim of grant 0 that is given back stood for nothing else.
    <3>3. ASSUME forgot'[i] = 0
          PROVE  /\ \A s \in Requests : s # r /\ Holding(s) => req[s].id # i
                 /\ \A c \in certs : c.id # i
      <4>1. forgot[i] = 0 /\ req[r].grant = 0 /\ claim[i] = 0
        BY <1>a, <2>2, <3>1, <3>3
      <4>2. ASSUME NEW s \in Requests, s # r, Holding(s), req[s].id = i PROVE FALSE
        <5>1. req[s].grant = 0
          BY <1>a, <3>1, <4>1, <4>2 DEF ClaimInv, ClaimsStand
        <5> QED BY <3>1, <4>1, <4>2, <5>1 DEF ClaimInv, ClaimsStand
      <4>3. ASSUME NEW c \in certs, c.id = i PROVE FALSE
        <5>1. c.grant = 0
          BY <1>a, <3>1, <4>1, <4>3 DEF ClaimInv, OneCertificatePerGrant
        <5> QED BY <3>1, <4>1, <4>3, <5>1 DEF ClaimInv, ClaimsStand
      <4> QED BY <4>2, <4>3
    <3> HIDE DEF i
    <3>4. ClaimsStand'
      <4> SUFFICES ASSUME NEW j \in Ids, forgot'[j] = 0
                   PROVE  /\ \A s \in Requests : Holding(s)' /\ req'[s].id = j => req'[s].grant <= claim'[j]
                          /\ \A s, u \in Requests :
                               /\ Holding(s)' /\ Holding(u)' /\ req'[s].id = j /\ req'[u].id = j
                               /\ req'[s].grant = req'[u].grant
                               => s = u
                          /\ \A s \in Requests, c \in certs :
                               Holding(s)' /\ req'[s].id = j /\ c.id = j => req'[s].grant # c.grant
        BY <2>2 DEF ClaimsStand
      <4>1. CASE j = i
        BY <3>2, <3>3, <4>1
      <4>2. CASE j # i
        BY <3>1, <3>2, <4>2 DEF ClaimInv, ClaimsStand
      <4> QED BY <4>1, <4>2
    <3>5. OneCertificatePerGrant'
      BY <1>a, <2>2, <3>1, <3>3 DEF ClaimInv, OneCertificatePerGrant
    <3> QED BY <3>4, <3>5 DEF ClaimInv
  <2> QED BY <1>1, <1>4, <2>1, <2>2, PersistEffect
<1>5. ASSUME NEW r \in Requests, Report(r) PROVE ClaimInv'
  <2> DEFINE c == [id |-> req[r].id, token |-> req[r].token, grant |-> req[r].grant]
  <2>1. /\ Holding(r) /\ certs' = certs \cup {c} /\ c.id = req[r].id /\ c.grant = req[r].grant
        /\ Return(r) /\ UNCHANGED <<claim, forgot>>
    BY <1>5, ReportEffect DEF Holding
  <2> HIDE DEF c
  <2>2. \A s \in Requests : Holding(s)' => s # r /\ Holding(s) /\ req'[s] = req[s]
    BY <1>0, <2>1, ReturnRecedes
  <2>3. ClaimsStand'
    BY <2>1, <2>2 DEF ClaimInv, ClaimsStand
  <2>4. forgot[c.id] = 0 => claim[c.id] >= c.grant /\ \A d \in certs : d.id = c.id => d.grant # c.grant
    BY <1>a, <2>1 DEF ClaimInv, ClaimsStand
  <2>5. OneCertificatePerGrant'
    BY <2>1, <2>4 DEF ClaimInv, OneCertificatePerGrant
  <2> QED BY <2>3, <2>5 DEF ClaimInv
<1> QED BY <1>1, <1>2, <1>3, <1>4, <1>5, OnlyServingAdvances

\* Two Edges racing for one identity, or an Edge whose ledger lags behind the
\* shared claims, never both issue under one grant; a certificate leaves the
\* identity claimed at its grant or a newer one, unless a failed save forgot it.
THEOREM OneCertificatePerGrantHolds == Spec => []OneCertificatePerGrant
<1>1. Init => ClaimInv
  BY DEF Init, ClaimInv, ClaimsStand, OneCertificatePerGrant, Holding
<1>2. TypeInv /\ ClaimInv /\ [Next]_vars => ClaimInv'
  BY ClaimNext
<1>3. ClaimInv => OneCertificatePerGrant
  BY DEF ClaimInv
<1> QED BY <1>1, <1>2, <1>3, TypeInit, TypeNext, PTL DEF Spec
-----------------------------------------------------------------------------
(* The promise of OneTimeEnrolment.                                         *)

\* A set of tokens is finite, and a subset of it is no larger.
LEMMA BackingCount ==
  ASSUME NEW S \in SUBSET Tokens
  PROVE  /\ IsFiniteSet(S) /\ Cardinality(S) \in Nat
         /\ \A T \in SUBSET S : Cardinality(T) <= Cardinality(S)
         /\ \A t \in S : \A T \in SUBSET (S \ {t}) : Cardinality(T) <= Cardinality(S) - 1
         /\ \A t : \A T \in SUBSET (S \cup {t}) : Cardinality(T) <= Cardinality(S) + 1
<1>1. IsFiniteSet(S) /\ Cardinality(S) \in Nat
  BY FS_Subset, FS_CardinalityType, EnrolmentAssumption
<1>2. \A T \in SUBSET S : Cardinality(T) <= Cardinality(S)
  BY <1>1, FS_Subset
<1>3. ASSUME NEW t \in S, NEW T \in SUBSET (S \ {t}) PROVE Cardinality(T) <= Cardinality(S) - 1
  <2>1. IsFiniteSet(S \ {t}) /\ Cardinality(S \ {t}) = Cardinality(S) - 1
    BY <1>1, FS_RemoveElement
  <2> QED BY <2>1, FS_Subset
<1>4. ASSUME NEW t, NEW T \in SUBSET (S \cup {t}) PROVE Cardinality(T) <= Cardinality(S) + 1
  <2>1. IsFiniteSet(S \cup {t}) /\ Cardinality(S \cup {t}) \in {Cardinality(S), Cardinality(S) + 1}
    BY <1>1, FS_AddElement
  <2>2. Cardinality(T) <= Cardinality(S \cup {t}) /\ IsFiniteSet(T)
    BY <2>1, FS_Subset
  <2>3. Cardinality(T) \in Nat
    BY <2>2, FS_CardinalityType
  <2> QED BY <1>1, <2>1, <2>2, <2>3
<1> QED BY <1>1, <1>2, <1>3, <1>4

\* Every step pays for the tokens it adds with a newer claim, and a claim given
\* back leaves its debt in forgot.
LEMMA BackingNext ==
  ASSUME TypeInv, TokenInv, ClaimsPayForTokens, [Next]_vars
  PROVE  ClaimsPayForTokens'
<1>0. TypeOK
  BY DEF TypeInv
<1>a. /\ \A i \in Ids : claim[i] \in Int /\ forgot[i] \in Nat
      /\ \A i \in Ids : claim'[i] \in Int /\ forgot'[i] \in Nat
  BY TypeNext DEF TypeInv, TypeOK, Grants
<1>b. \A i \in Ids : Backing(i) \in SUBSET Tokens
  BY DEF Backing
<1>1. ASSUME NEW i \in Ids, Backing(i)' \subseteq Backing(i), claim[i] + forgot[i] <= claim'[i] + forgot'[i]
      PROVE  Cardinality(Backing(i)') <= claim'[i] + 1 + forgot'[i]
  <2>1. Cardinality(Backing(i)') <= Cardinality(Backing(i)) /\ Cardinality(Backing(i)) \in Nat
    BY <1>1, <1>b, BackingCount
  <2>2. IsFiniteSet(Backing(i)')
    BY <1>1, <1>b, BackingCount
  <2>3. Cardinality(Backing(i)') \in Nat
    BY <2>2, FS_CardinalityType
  <2> QED BY <1>1, <1>a, <2>1, <2>3 DEF ClaimsPayForTokens
<1>2. ASSUME \A i \in Ids : Backing(i)' \subseteq Backing(i) /\ claim[i] + forgot[i] <= claim'[i] + forgot'[i]
      PROVE  ClaimsPayForTokens'
  BY <1>1, <1>2 DEF ClaimsPayForTokens
<1>3. CASE Recedes
  <2>1. \A r \in Requests : Holding(r)' => Holding(r) /\ req'[r] = req[r]
    BY <1>3 DEF Recedes, Spent, Holding
  <2>2. \A i \in Ids : Backing(i)' \subseteq Backing(i)
    BY <1>3, <2>1 DEF Recedes, Backing
  <2>3. \A i \in Ids : claim[i] + forgot[i] <= claim'[i] + forgot'[i]
    BY <1>3, <1>a DEF Recedes
  <2> QED BY <1>2, <2>2, <2>3
<1>4. ASSUME NEW r \in Requests, Spend(r) PROVE ClaimsPayForTokens'
  <2> SUFFICES ASSUME Go(r, "claim"), UNCHANGED <<claim, certs, forgot>>
               PROVE  ClaimsPayForTokens'
    BY <1>3, <1>4, SpendEffect
  <2>1. \A s \in Requests : (Holding(s)' => Holding(s)) /\ req' = req
    BY <1>0 DEF Go, TypeOK, Holding
  <2>2. \A i \in Ids : Backing(i)' \subseteq Backing(i)
    BY <2>1 DEF Backing
  <2>3. \A i \in Ids : claim[i] + forgot[i] <= claim'[i] + forgot'[i]
    BY <1>a
  <2> QED BY <1>2, <2>2, <2>3
<1>5. ASSUME NEW r \in Requests, Claim(r) PROVE ClaimsPayForTokens'
  <2>0. PICK i \in Ids, t \in Tokens : i = req[r].id /\ t = req[r].token
    BY <1>0, <1>5, RequestType DEF Claim
  <2> SUFFICES ASSUME NEW grant \in Grants,
                      /\ pc[r] = "claim" /\ claim[i] < grant
                      /\ claim' = [claim EXCEPT ![i] = grant]
                      /\ pc' = [pc EXCEPT ![r] = "persist"]
                      /\ req' = [req EXCEPT ![r].grant = grant]
                      /\ UNCHANGED <<token, certs, forgot>>
               PROVE  ClaimsPayForTokens'
    BY <1>3, <1>5, <2>0, ClaimEffect
  <2>1. /\ \A s \in Requests \ {r} : Holding(s)' = Holding(s) /\ req'[s] = req[s]
        /\ req'[r].id = i /\ req'[r].token = t
    BY <1>0, <2>0 DEF TypeOK, Holding
  <2>2. \A j \in Ids \ {i} : claim'[j] = claim[j] /\ forgot'[j] = forgot[j] /\ Backing(j)' \subseteq Backing(j)
    BY <1>0, <2>1 DEF TypeOK, Backing
  <2>3. Backing(i)' \subseteq Backing(i) \cup {t}
    BY <2>1 DEF Backing
  <2>4. claim[i] + 1 <= claim'[i] /\ forgot'[i] = forgot[i]
    BY <1>0, <1>a DEF TypeOK, Grants
  <2>5. Cardinality(Backing(i)') <= Cardinality(Backing(i)) + 1 /\ Cardinality(Backing(i)) \in Nat
    BY <1>b, <2>3, BackingCount
  <2>6. Cardinality(Backing(i)') \in Nat
    <3>1. Backing(i)' \subseteq Tokens
      BY DEF Backing
    <3> QED BY <3>1, BackingCount
  <2>7. Cardinality(Backing(i)') <= claim'[i] + 1 + forgot'[i]
    BY <1>a, <2>4, <2>5, <2>6 DEF ClaimsPayForTokens
  <2>8. \A j \in Ids \ {i} : Cardinality(Backing(j)') <= claim'[j] + 1 + forgot'[j]
    BY <1>1, <1>a, <2>2
  <2> QED BY <2>7, <2>8 DEF ClaimsPayForTokens
<1>6. ASSUME NEW r \in Requests, Persist(r) PROVE ClaimsPayForTokens'
  <2>1. ASSUME UNCHANGED <<req, claim, certs, forgot>>, pc[r] = "persist", pc' = [pc EXCEPT ![r] = "report"]
        PROVE  ClaimsPayForTokens'
    <3>1. \A s \in Requests : Holding(s)' = Holding(s)
      BY <1>0, <2>1 DEF TypeOK, Holding
    <3>2. \A i \in Ids : Backing(i)' \subseteq Backing(i)
      BY <2>1, <3>1 DEF Backing
    <3>3. \A i \in Ids : claim[i] + forgot[i] <= claim'[i] + forgot'[i]
      BY <1>a, <2>1
    <3> QED BY <1>2, <3>2, <3>3
  <2>2. ASSUME /\ req[r].id \in Ids /\ req[r].grant \in Nat /\ pc[r] = "persist"
               /\ claim[req[r].id] = req[r].grant /\ claim' = [claim EXCEPT ![req[r].id] = -1]
               /\ forgot' = [forgot EXCEPT ![req[r].id] = @ + req[r].grant]
               /\ Return(r) /\ UNCHANGED <<token, certs>>
        PROVE  ClaimsPayForTokens'
    <3>0. PICK i \in Ids, t \in Tokens : i = req[r].id /\ t = req[r].token
      BY <1>0, <2>2, RequestType
    <3>1. /\ \A j \in Ids \ {i} : claim'[j] = claim[j] /\ forgot'[j] = forgot[j]
          /\ forgot'[i] = forgot[i] + claim[i] /\ claim'[i] = -1
          /\ Holding(r) /\ Spent(r)
      BY <1>0, <2>2, <3>0 DEF TypeOK, Holding, Spent
    <3>2. \A s \in Requests : Holding(s)' => s # r /\ Holding(s) /\ Spent(s) /\ req'[s] = req[s]
      BY <1>0, <2>2, ReturnRecedes DEF Holding, Spent
    <3>3. \A j \in Ids : Backing(j)' \subseteq Backing(j)
      BY <2>2, <3>2 DEF Backing
    <3>4. t \in Backing(i)
      BY <3>0, <3>1 DEF Backing
    <3>5. t \notin Backing(i)'
      BY <2>2, <3>0, <3>1, <3>2 DEF Backing, TokenInv, TokensBackOne
    <3>6. Cardinality(Backing(i)') <= Cardinality(Backing(i)) - 1 /\ Cardinality(Backing(i)) \in Nat
      <4>1. Backing(i)' \in SUBSET (Backing(i) \ {t})
        BY <3>3, <3>5
      <4> QED BY <1>b, <3>4, <4>1, BackingCount
    <3>7. Cardinality(Backing(i)') \in Nat
      <4>1. Backing(i)' \subseteq Tokens
        BY DEF Backing
      <4> QED BY <4>1, BackingCount
    <3>8. Cardinality(Backing(i)') <= claim'[i] + 1 + forgot'[i]
      BY <1>a, <3>1, <3>6, <3>7 DEF ClaimsPayForTokens
    <3>9. \A j \in Ids \ {i} : Cardinality(Backing(j)') <= claim'[j] + 1 + forgot'[j]
      BY <1>1, <1>a, <3>1, <3>3
    <3> QED BY <3>8, <3>9 DEF ClaimsPayForTokens
  <2> QED BY <1>3, <1>6, <2>1, <2>2, PersistEffect
<1>7. ASSUME NEW r \in Requests, Report(r) PROVE ClaimsPayForTokens'
  <2> DEFINE c == [id |-> req[r].id, token |-> req[r].token, grant |-> req[r].grant]
  <2>1. /\ Holding(r) /\ certs' = certs \cup {c} /\ c.id = req[r].id /\ c.token = req[r].token
        /\ Return(r) /\ UNCHANGED <<claim, forgot>>
    BY <1>7, ReportEffect DEF Holding
  <2> HIDE DEF c
  <2>2. \A s \in Requests : Holding(s)' => s # r /\ Holding(s) /\ req'[s] = req[s]
    BY <1>0, <2>1, ReturnRecedes
  <2>3. \A i \in Ids : Backing(i)' \subseteq Backing(i)
    BY <2>1, <2>2 DEF Backing
  <2>4. \A i \in Ids : claim[i] + forgot[i] <= claim'[i] + forgot'[i]
    BY <1>a, <2>1
  <2> QED BY <1>2, <2>3, <2>4
<1> QED BY <1>3, <1>4, <1>5, <1>6, <1>7, OnlyServingAdvances

PromiseInv == TypeInv /\ TokenInv /\ ClaimsPayForTokens

\* No identity has more certificates than were permitted.
IssuedAsPermitted ==
  \A i \in Ids : /\ IsFiniteSet(Of(i)) /\ Cardinality(Of(i)) \in Nat
                /\ Cardinality(Of(i)) <= 1 + permits[i] + forgot[i]

\* An identity has no more certificates than tokens behind it.
LEMMA CertificatesAreBacked == PromiseInv => IssuedAsPermitted
<1> SUFFICES ASSUME TypeInv, TokenInv, ClaimsPayForTokens, NEW i \in Ids
             PROVE  /\ IsFiniteSet(Of(i)) /\ Cardinality(Of(i)) \in Nat
                    /\ Cardinality(Of(i)) <= 1 + permits[i] + forgot[i]
  BY DEF PromiseInv, IssuedAsPermitted
<1> DEFINE f == [c \in Of(i) |-> c.token]
<1>1. Backing(i) \in SUBSET Tokens
  BY DEF Backing
<1>2. f \in Injection(Of(i), Backing(i))
  <2>1. \A c \in Of(i) : c.token \in Backing(i)
    BY DEF Of, Backing, TypeInv, TypeOK, Certificates
  <2>2. f \in [Of(i) -> Backing(i)]
    BY <2>1
  <2>3. \A c, d \in Of(i) : f[c] = f[d] => c = d
    BY DEF Of, TokenInv, OneCertificatePerToken
  <2> QED BY <2>2, <2>3 DEF Injection, IsInjective
<1>3. IsFiniteSet(Backing(i)) /\ Cardinality(Backing(i)) \in Nat
  BY <1>1, BackingCount
<1>4. IsFiniteSet(Of(i)) /\ Cardinality(Of(i)) <= Cardinality(Backing(i))
  BY <1>2, <1>3, FS_Injection
<1>5. Cardinality(Of(i)) \in Nat
  BY <1>4, FS_CardinalityType
<1>6. claim[i] <= permits[i] /\ claim[i] \in Int /\ permits[i] \in Int /\ forgot[i] \in Nat
  BY DEF TypeInv, TypeOK, GrantsWerePermitted, Grants
<1> QED BY <1>3, <1>4, <1>5, <1>6 DEF ClaimsPayForTokens

\* The empty fleet has issued nothing.
LEMMA PromiseInit == Init => PromiseInv /\ Promise!Init
<1> SUFFICES ASSUME Init PROVE PromiseInv /\ Promise!Init
  OBVIOUS
<1>1. TypeInv
  BY TypeInit
<1>2. TokenInv
  BY DEF Init, TokenInv, TokensBackOne, OneCertificatePerToken, Spent
<1>3. \A i \in Ids : Of(i) = {} /\ Backing(i) = {} /\ claim[i] = -1 /\ forgot[i] = 0 /\ permits[i] = 0
  BY DEF Init, Of, Backing, Holding
<1>4. ClaimsPayForTokens
  BY <1>3, FS_EmptySet DEF ClaimsPayForTokens
<1>5. Promise!Init
  BY <1>3, FS_EmptySet DEF Promise!Init
<1> QED BY <1>1, <1>2, <1>4, <1>5 DEF PromiseInv

\* Two functions that agree everywhere but at i.
LEMMA DifferAt ==
  ASSUME NEW S, NEW f \in [S -> Int], NEW g \in [S -> Int], NEW i \in S,
         \A j \in S \ {i} : g[j] = f[j]
  PROVE  g = [f EXCEPT ![i] = g[i]]
OBVIOUS

\* A step issues one certificate within what is permitted, or permits more, or
\* is not seen by the promise.
LEMMA PromiseStep ==
  ASSUME PromiseInv, IssuedAsPermitted', [Next]_vars
  PROVE  [Promise!Next]_<<[i \in Ids |-> Cardinality(Of(i))], [i \in Ids |-> 1 + permits[i] + forgot[i]]>>
<1> DEFINE issued == [i \in Ids |-> Cardinality(Of(i))]
           permitted == [i \in Ids |-> 1 + permits[i] + forgot[i]]
<1> USE DEF ledgers, authority, history, requests
<1>a. TypeOK /\ \A i \in Ids : permits[i] \in Nat /\ forgot[i] \in Nat
  BY DEF PromiseInv, TypeInv, TypeOK, Grants
<1>1. CASE UNCHANGED <<certs, permits, forgot>>
  BY <1>1 DEF Of
<1>2. ASSUME NEW i \in Ids, AllowReenrolment(i) PROVE Promise!Permit(i)
  <2>1. /\ UNCHANGED <<certs, forgot>> /\ permits' = [permits EXCEPT ![i] = @ + 1]
    BY <1>2 DEF AllowReenrolment, RestUnchanged
  <2>2. issued' = issued
    BY <2>1 DEF Of
  <2>3. permits'[i] = permits[i] + 1 /\ \A j \in Ids \ {i} : permits'[j] = permits[j]
    BY <1>a, <2>1 DEF TypeOK
  <2>4. permitted' = [permitted EXCEPT ![i] = permitted'[i]] /\ permitted'[i] >= permitted[i]
    <3>1. permitted \in [Ids -> Int] /\ permitted' \in [Ids -> Int]
      BY <1>a, <2>1, <2>3
    <3>2. \A j \in Ids \ {i} : permitted'[j] = permitted[j]
      BY <2>1, <2>3
    <3>3. permitted'[i] >= permitted[i]
      BY <1>a, <2>1, <2>3
    <3> HIDE DEF permitted
    <3> QED BY <3>1, <3>2, <3>3, DifferAt
  <2> QED BY <2>2, <2>4 DEF Promise!Permit
<1>3. ASSUME NEW r \in Requests, Persist(r)
      PROVE  UNCHANGED <<certs, permits, forgot>> \/ \E i \in Ids : Promise!Permit(i)
  <2>0. PICK i \in Ids, grant \in Nat : i = req[r].id /\ grant = req[r].grant
    BY <1>3, <1>a, RequestType DEF Persist, Grants
  <2>1. UNCHANGED <<certs, permits>>
    BY <1>3 DEF Persist
  <2>2. forgot' = forgot \/ forgot' = [forgot EXCEPT ![i] = @ + grant]
    BY <1>3, <2>0 DEF Persist
  <2>3. issued' = issued
    BY <2>1 DEF Of
  <2>4. ASSUME forgot' = [forgot EXCEPT ![i] = @ + grant] PROVE Promise!Permit(i)
    <3>1. forgot'[i] = forgot[i] + grant /\ \A j \in Ids \ {i} : forgot'[j] = forgot[j]
      BY <1>a, <2>4 DEF TypeOK
    <3>2. permitted' = [permitted EXCEPT ![i] = permitted'[i]] /\ permitted'[i] >= permitted[i]
      <4>1. permitted \in [Ids -> Int] /\ permitted' \in [Ids -> Int]
        BY <1>a, <2>1, <3>1
      <4>2. \A j \in Ids \ {i} : permitted'[j] = permitted[j]
        BY <2>1, <3>1
      <4>3. permitted'[i] >= permitted[i]
        BY <1>a, <2>1, <3>1
      <4> HIDE DEF permitted
      <4> QED BY <4>1, <4>2, <4>3, DifferAt
    <3> QED BY <2>3, <3>2 DEF Promise!Permit
  <2> QED BY <2>1, <2>2, <2>4
<1>4. ASSUME NEW r \in Requests, Report(r)
      PROVE  (\E i \in Ids : Promise!Issue(i)) \/ UNCHANGED <<issued, permitted>>
  <2>i. PICK i \in Ids : i = req[r].id
    BY <1>4, ReportEffect DEF PromiseInv
  <2>c. PICK c : c = [id |-> i, token |-> req[r].token, grant |-> req[r].grant]
    OBVIOUS
  <2>1. /\ certs' = certs \cup {c} /\ c.id = i /\ UNCHANGED <<permits, forgot>>
    BY <1>4, <2>i, <2>c, ReportEffect DEF PromiseInv
  <2>2. \A j \in Ids \ {i} : Of(j)' = Of(j)
    BY <2>1 DEF Of
  <2>3. Of(i)' = Of(i) \cup {c}
    BY <2>1 DEF Of
  <2>4. IsFiniteSet(Of(i)) /\ Cardinality(Of(i)) \in Nat
    BY <2>1, CertificatesAreBacked DEF IssuedAsPermitted
  <2>5. Cardinality(Of(i)') \in {Cardinality(Of(i)), Cardinality(Of(i)) + 1}
    BY <2>3, <2>4, FS_AddElement
  <2>6. Cardinality(Of(i)') <= permitted[i]
    BY <2>1 DEF IssuedAsPermitted
  <2>7. UNCHANGED permitted
    BY <2>1
  <2>8. CASE Cardinality(Of(i)') = Cardinality(Of(i))
    BY <2>1, <2>2, <2>7, <2>8
  <2>9. CASE Cardinality(Of(i)') = Cardinality(Of(i)) + 1
    <3>1. issued' = [issued EXCEPT ![i] = @ + 1]
      BY <2>1, <2>2, <2>9
    <3>2. issued[i] < permitted[i]
      BY <1>a, <2>1, <2>4, <2>6, <2>9
    <3> QED BY <2>7, <3>1, <3>2 DEF Promise!Issue
  <2> QED BY <2>5, <2>8, <2>9
<1>5. \/ UNCHANGED <<certs, permits, forgot>>
      \/ \E i \in Ids : AllowReenrolment(i)
      \/ \E r \in Requests : Persist(r) \/ Report(r)
  <2>1. CASE UNCHANGED vars
    BY <2>1 DEF vars
  <2>2. CASE Administer
    BY <2>2 DEF Administer, RevokeToken, PreAdd, SetEnabled, RemoveChecked, RestUnchanged
  <2>3. ASSUME NEW r \in Requests, Serve(r)
        PROVE  UNCHANGED <<certs, permits, forgot>> \/ Persist(r) \/ Report(r)
    BY <2>3 DEF Serve, Assign, Spend, SignFails, Claim, ReleaseFails
  <2>4. ASSUME NEW e \in Edges,
               Poll(e) \/ FetchBundle(e) \/ ApplyBundle(e) \/ Restart(e) \/ \E i \in Ids : Drain(e, i)
        PROVE  UNCHANGED <<certs, permits, forgot>>
    BY <2>4 DEF Poll, FetchBundle, ApplyBundle, Restart, Drain
  <2> QED BY <2>1, <2>2, <2>3, <2>4 DEF Next
<1> QED BY <1>1, <1>2, <1>3, <1>4, <1>5 DEF Promise!Next

\* The fleet issues an identity one certificate, and one more for every permission
\* to enrol again, where a claim given back by a failed save counts as the
\* permissions it had replaced: the refinement of OneTimeEnrolment.
THEOREM OneTimeHolds == Spec => OneTime
<1>1. PromiseInv /\ [Next]_vars => PromiseInv'
  BY TypeNext, TokenNext, BackingNext DEF PromiseInv
<1> QED BY <1>1, PromiseInit, CertificatesAreBacked, PromiseStep, PTL DEF Spec, OneTime, Promise!Spec

-----------------------------------------------------------------------------
(* What was switched off stays off.                                         *)

\* A report, a bundle or another enrolment never switches an identity back on:
\* a removal ends by AllowReenrolment or by its lifetime, a disabled device is
\* enabled by the administrator.
THEOREM OffStaysOffHolds == Spec => OffStaysOff
<1> DEFINE Off == \A i \in Ids :
       /\ cp[i].st = "removed" /\ cp'[i].st # "removed" =>
            permits'[i] = permits[i] + 1 \/ cp'[i] = Absent
       /\ cp[i].st = "disabled" /\ cp'[i].st = "enabled" => Administer
<1> USE DEF ledgers, authority, history, requests
<1>1. ASSUME TypeInv, [Next]_vars PROVE [Off]_vars
  <2>0. TypeOK
    BY <1>1 DEF TypeInv
  <2>1. CASE UNCHANGED cp
    BY <2>1
  <2>2. ASSUME NEW i \in Ids, Recorded(i) PROVE Off
    <3>1. \A j \in Ids : cp'[j] = cp[j] \/ cp[j].st \in {"absent", "enabled"}
      BY <2>0, <2>2 DEF Recorded, Writable, TypeOK
    <3> QED BY <3>1
  <2>3. CASE Administer
    <3>1. ASSUME NEW t \in Tokens, RevokeToken(t) PROVE Off
      BY <2>3, <3>1 DEF RevokeToken
    <3>2. ASSUME NEW i \in Ids, PreAdd(i) PROVE Off
      BY <2>0, <2>3, <3>2 DEF PreAdd, TypeOK
    <3>3. ASSUME NEW i \in Ids, NEW b \in BOOLEAN, SetEnabled(i, b) PROVE Off
      BY <2>0, <2>3, <3>3 DEF SetEnabled, TypeOK
    <3>4. ASSUME NEW i \in Ids, RemoveChecked(i) PROVE Off
      BY <2>0, <2>3, <3>4 DEF RemoveChecked, TypeOK
    <3>5. ASSUME NEW i \in Ids, AllowReenrolment(i) PROVE Off
      BY <2>0, <2>3, <3>5 DEF AllowReenrolment, TypeOK
    <3> QED BY <2>3, <3>1, <3>2, <3>3, <3>4, <3>5 DEF Administer
  <2>4. ASSUME NEW r \in Requests, Serve(r) PROVE Off
    <3>1. CASE Report(r)
      BY <2>0, <2>1, <2>2, <3>1, RequestType DEF Report
    <3>2. CASE UNCHANGED cp
      BY <3>2
    <3> QED BY <2>4, <3>1, <3>2 DEF Serve, Assign, Spend, SignFails, Claim, Persist, ReleaseFails
  <2>5. ASSUME NEW e \in Edges,
               Poll(e) \/ FetchBundle(e) \/ ApplyBundle(e) \/ Restart(e) \/ \E i \in Ids : Drain(e, i)
        PROVE  Off
    BY <2>1, <2>2, <2>5 DEF Poll, FetchBundle, ApplyBundle, Restart, Drain
  <2> QED BY <1>1, <2>1, <2>3, <2>4, <2>5 DEF Next, vars
<1> QED BY <1>1, TypeInit, TypeNext, PTL DEF Spec, OffStaysOff
===============================================================================

-------------------------- MODULE UpdateIngestProofs --------------------------
(***************************************************************************)
(* Proofs about UpdateIngest, for any events, handlers and bound on the    *)
(* receipts, either store, any kinds and number of faults.                 *)
(***************************************************************************)
EXTENDS UpdateIngest, CollectionLemmas

-----------------------------------------------------------------------------
(* The queue of receipts.                                                   *)

\* Keep leaves the entries that are not gone, each once and in a queue.
LEMMA KeepQueue ==
  ASSUME NEW q \in Seq(Slots), NEW gone
  PROVE  LET rest == DOMAIN q \ gone IN
         /\ Keep(q, gone) \in Seq(Slots) /\ Len(Keep(q, gone)) = Cardinality(rest)
         /\ \A m \in DOMAIN Keep(q, gone) : Nth(rest, m) \in rest /\ Keep(q, gone)[m] = q[Nth(rest, m)]
         /\ \A l, m \in DOMAIN Keep(q, gone) : Nth(rest, l) = Nth(rest, m) => l = m
         /\ \A i \in rest : \E m \in DOMAIN Keep(q, gone) : Keep(q, gone)[m] = q[i]
<1> DEFINE rest == DOMAIN q \ gone
           n == Cardinality(rest)
<1>1. rest \in SUBSET Nat /\ IsFiniteSet(rest)
  <2>1. DOMAIN q = 1 .. Len(q) /\ Len(q) \in Nat
    OBVIOUS
  <2>2. IsFiniteSet(1 .. Len(q))
    BY <2>1, FS_Interval
  <2> QED BY <2>1, <2>2, FS_Subset
<1>2. n \in Nat
  BY <1>1, FS_CardinalityType
<1>3. /\ \A m \in 1 .. n : Nth(rest, m) \in rest /\ Rank(rest, Nth(rest, m)) = m
      /\ \A i \in rest : Rank(rest, i) \in 1 .. n /\ Nth(rest, Rank(rest, i)) = i
  BY <1>1, NthMember
<1>4. Keep(q, gone) = [m \in 1 .. n |-> q[Nth(rest, m)]]
  BY DEF Keep
<1> HIDE DEF n
<1>5. ASSUME NEW m \in 1 .. n PROVE q[Nth(rest, m)] \in Slots
  <2>1. Nth(rest, m) \in DOMAIN q
    BY <1>3
  <2> QED BY <2>1, ElementOfSeq
<1>6. Keep(q, gone) \in Seq(Slots) /\ Len(Keep(q, gone)) = n /\ DOMAIN Keep(q, gone) = 1 .. n
  <2> DEFINE kept == [m \in 1 .. n |-> q[Nth(rest, m)]]
  <2>1. kept \in [1 .. n -> Slots]
    BY <1>5
  <2>2. kept \in Seq(Slots)
    <3> HIDE DEF kept
    <3>1. [1 .. n -> Slots] \in {[1 .. l -> Slots] : l \in Nat}
      BY <1>2
    <3> QED BY <2>1, <3>1, SeqDef
  <2>3. DOMAIN kept = 1 .. n
    OBVIOUS
  <2> HIDE DEF kept
  <2>4. Len(kept) = n
    BY <1>2, <2>2, <2>3
  <2>5. Keep(q, gone) = kept
    BY <1>4 DEF kept
  <2> QED BY <2>2, <2>3, <2>4, <2>5
<1>7. \A m \in DOMAIN Keep(q, gone) : Nth(rest, m) \in rest /\ Keep(q, gone)[m] = q[Nth(rest, m)]
  BY <1>3, <1>4, <1>6
<1>8. \A l, m \in DOMAIN Keep(q, gone) : Nth(rest, l) = Nth(rest, m) => l = m
  BY <1>3, <1>6
<1>9. ASSUME NEW i \in rest PROVE \E m \in DOMAIN Keep(q, gone) : Keep(q, gone)[m] = q[i]
  <2>1. Rank(rest, i) \in 1 .. n /\ Nth(rest, Rank(rest, i)) = i
    BY <1>3
  <2> QED BY <1>6, <1>7, <2>1
<1> QED BY <1>6, <1>7, <1>8, <1>9 DEF n
-----------------------------------------------------------------------------
(* A reservation.                                                           *)

\* The values of a function on a finite set are finitely many.
LEMMA FiniteImage ==
  ASSUME NEW S, IsFiniteSet(S), NEW f, NEW T, T = {f[x] : x \in S}
  PROVE  IsFiniteSet(T)
<1> DEFINE g == [x \in S |-> f[x]]
<1>1. g \in [S -> T] /\ \A t \in T : \E x \in S : g[x] = t
  OBVIOUS
<1>2. g \in Surjection(S, T)
  BY <1>1 DEF Surjection
<1> QED BY <1>2, FS_Surjection

\* FreshGen is a generation that nobody has.
LEMMA FreshGenIsFresh ==
  ASSUME TypeOK
  PROVE  /\ FreshGen \in Nat
         /\ \A x \in DOMAIN ids : ids[x].gen # FreshGen
         /\ \A i \in DOMAIN order : order[i].gen # FreshGen
         /\ \A r \in Requests : receipt[r] # FreshGen
<1> DEFINE A == {ids[k].gen : k \in DOMAIN ids}
           B == {order[i].gen : i \in DOMAIN order}
           C == {receipt[r] : r \in Requests}
           used == A \cup B \cup C
           n == Cardinality(used)
<1>1. IsFiniteSet(A)
  <2>1. IsFiniteSet(DOMAIN ids)
    BY IngestAssumption, FS_Subset DEF TypeOK
  <2> DEFINE f == [k \in DOMAIN ids |-> ids[k].gen]
  <2>2. A = {f[k] : k \in DOMAIN ids}
    OBVIOUS
  <2> HIDE DEF f, A
  <2> QED BY <2>1, <2>2, FiniteImage
<1>2. IsFiniteSet(B)
  <2>1. DOMAIN order = 1 .. Len(order) /\ Len(order) \in Nat
    BY DEF TypeOK
  <2>2. IsFiniteSet(DOMAIN order)
    BY <2>1, FS_Interval
  <2> DEFINE f == [i \in DOMAIN order |-> order[i].gen]
  <2>3. B = {f[i] : i \in DOMAIN order}
    OBVIOUS
  <2> HIDE DEF f, B
  <2> QED BY <2>2, <2>3, FiniteImage
<1>3. IsFiniteSet(C)
  BY IngestAssumption, FiniteImage
<1> HIDE DEF A, B, C
<1>4. IsFiniteSet(used)
  BY <1>1, <1>2, <1>3, FS_Union
<1> HIDE DEF used
<1>5. n \in Nat
  BY <1>4, FS_CardinalityType
<1> HIDE DEF n
<1>6. \E g \in 1 .. n + 1 : g \notin used
  <2> SUFFICES ASSUME 1 .. n + 1 \in SUBSET used PROVE FALSE
    OBVIOUS
  <2>1. Cardinality(1 .. n + 1) <= n
    BY <1>4, FS_Subset DEF n
  <2>2. Cardinality(1 .. n + 1) = n + 1
    BY <1>5, FS_Interval
  <2> QED BY <1>5, <2>1, <2>2
<1>7. FreshGen = CHOOSE g \in 1 .. n + 1 : g \notin used
  BY DEF FreshGen, n, used, A, B, C
<1>8. FreshGen \in 1 .. n + 1 /\ FreshGen \notin used
  BY <1>6, <1>7
<1>9. FreshGen \in Nat
  BY <1>5, <1>8
<1> QED BY <1>8, <1>9 DEF used, A, B, C

\* One uncommitted receipt is added under a fresh generation, none that is
\* uncommitted is taken, and the ones that are taken are remembered.
Reserved(r, k, g) ==
  /\ receipt' = [receipt EXCEPT ![r] = g]
  /\ \A x \in DOMAIN ids : ids[x].gen # g
  /\ \A s \in Requests : receipt[s] # g
  /\ k \in DOMAIN ids' /\ ids'[k] = [gen |-> g, committed |-> FALSE]
  /\ DOMAIN ids' \subseteq DOMAIN ids \cup {k}
  /\ \A x \in DOMAIN ids' \ {k} : ids'[x] = ids[x]
  /\ \A x \in DOMAIN ids : ~ids[x].committed => x \in DOMAIN ids'
  /\ ids' \in [DOMAIN ids' -> Receipts] /\ order' \in Seq(Slots)
  /\ forgotten' = forgotten \cup (DOMAIN ids \ DOMAIN ids')

\* That is what Reserve does.
LEMMA ReserveEffect ==
  ASSUME TypeOK, NEW r \in Requests, NEW k \in Keys, k \notin DOMAIN ids, Reserve(r, k)
  PROVE  \E g \in Nat : Reserved(r, k, g)
<1> DEFINE g    == FreshGen
           t    == [x \in DOMAIN ids \cup {k} |->
                      IF x = k THEN [gen |-> g, committed |-> FALSE] ELSE ids[x]]
           q    == Append(order, [key |-> k, gen |-> g])
           gone == Evicted(t, q)
           lost == {q[i].key : i \in {j \in gone : Live(t, q[j])}}
<1>1. /\ g \in Nat
      /\ \A x \in DOMAIN ids : ids[x].gen # g
      /\ \A i \in DOMAIN order : order[i].gen # g
      /\ \A s \in Requests : receipt[s] # g
  BY FreshGenIsFresh
<1>2. /\ ids' = Forget(t, q, gone) /\ order' = Keep(q, gone)
      /\ receipt' = [receipt EXCEPT ![r] = g]
      /\ forgotten' = forgotten \cup (DOMAIN t \ DOMAIN ids')
  BY DEF Reserve
<1> HIDE DEF g
<1>3. q \in Seq(Slots)
  BY <1>1 DEF TypeOK, Slots
<1>4. /\ DOMAIN t = DOMAIN ids \cup {k} /\ t[k] = [gen |-> g, committed |-> FALSE]
      /\ \A x \in DOMAIN ids : t[x] = ids[x] /\ ids[x] \in Receipts
  BY DEF TypeOK
<1>5. \A i \in gone : ~InFlight(t, q[i])
  BY DEF Evicted
<1> HIDE DEF t, q, gone
<1>6. ids' = [x \in DOMAIN t \ lost |-> t[x]]
  BY <1>2 DEF Forget, Restrict
<1>7. \A x \in lost : x \in DOMAIN t /\ t[x].committed
  BY <1>5 DEF InFlight, Live
<1> HIDE DEF lost
<1>8. DOMAIN ids' = (DOMAIN ids \cup {k}) \ lost /\ \A x \in DOMAIN ids' : ids'[x] = t[x]
  BY <1>4, <1>6
<1>9. k \notin lost /\ \A x \in DOMAIN ids : ~ids[x].committed => x \notin lost
  BY <1>4, <1>7
<1>10. ids' \in [DOMAIN ids' -> Receipts]
  <2>1. \A x \in DOMAIN t : t[x] \in Receipts
    <3>1. [gen |-> g, committed |-> FALSE] \in Receipts
      BY <1>1 DEF Receipts
    <3> QED BY <1>4, <3>1
  <2> QED BY <1>6, <2>1
<1>11. order' \in Seq(Slots)
  BY <1>2, <1>3, KeepQueue
<1>12. forgotten' = forgotten \cup (DOMAIN ids \ DOMAIN ids')
  BY <1>2, <1>4, <1>8, <1>9
<1>13. k \in DOMAIN ids' /\ ids'[k] = [gen |-> g, committed |-> FALSE]
  BY <1>4, <1>8, <1>9
<1>14. /\ DOMAIN ids' \subseteq DOMAIN ids \cup {k}
       /\ \A x \in DOMAIN ids' \ {k} : ids'[x] = ids[x]
       /\ \A x \in DOMAIN ids : ~ids[x].committed => x \in DOMAIN ids'
  BY <1>4, <1>8, <1>9
<1> QED BY <1>1, <1>2, <1>10, <1>11, <1>12, <1>13, <1>14 DEF Reserved

-----------------------------------------------------------------------------
(* Type correctness.                                                        *)

\* A handler that returns holds nothing.
LEMMA ReturnType ==
  ASSUME TypeOK, NEW r \in Requests, Return(r)
  PROVE  /\ pc' \in [Requests -> PCs]
         /\ event' \in [Requests -> Events \cup {None}] /\ receipt' \in [Requests -> Nat \cup {None}]
         /\ \A s \in Requests : pc'[s] # "idle" => event'[s] \in Events /\ receipt'[s] \in Nat
         /\ pc'[r] = "idle"
         /\ \A s \in Requests \ {r} : pc'[s] = pc[s] /\ event'[s] = event[s] /\ receipt'[s] = receipt[s]
BY DEF Return, Go, TypeOK, PCs

\* An answer changes only what the device holds and awaits.
LEMMA AnsweredType ==
  ASSUME TypeOK, NEW r \in Requests, NEW k \in Keys, NEW b \in BOOLEAN, Answered(r, k, b)
  PROVE  /\ held' \subseteq Keys /\ waiting' \in [Keys -> Requests \cup {None}]
         /\ held \ {k} \subseteq held' /\ held' \subseteq held /\ (~b => held' = held)
BY DEF Answered, TypeOK

\* A fault stays within the bound.
LEMMA FaultType ==
  ASSUME TypeOK, NEW f, Fault(f)
  PROVE  faults' \in 0 .. MaxFaults
BY IngestAssumption DEF Fault, TypeOK

\* What a handler at work is about.
LEMMA EventType ==
  ASSUME TypeOK, NEW r \in Requests, pc[r] # "idle"
  PROVE  event[r] \in Events /\ event[r].key \in Keys /\ event[r].drops \in Counts /\ receipt[r] \in Nat
BY DEF TypeOK, Events

\* What the log says of one event.
Lines == [lines : 0 .. MaxLines, first : Counts \cup {None}]

\* One more line is about its own event alone, says what was sent if it is the
\* first of the live file, and is there whatever else happens.
LEMMA LoggedEffect ==
  ASSUME TypeOK, NEW r \in Requests, pc[r] # "idle"
  PROVE  LET k == event[r].key IN
         /\ Logged(event[r]) \in [Keys -> Lines]
         /\ Logged(event[r])[k].lines = Min({audit[k].lines + 1, MaxLines})
         /\ Logged(event[r])[k].lines > 0
         /\ Logged(event[r])[k].first \in {audit[k].first, event[r].drops}
         /\ \A x \in Keys : x # k => Logged(event[r])[x] = audit[x]
<1> DEFINE k == event[r].key
           one == [lines |-> Min({audit[k].lines + 1, MaxLines}),
                   first |-> IF audit[k].first = None THEN event[r].drops ELSE audit[k].first]
<1>1. k \in Keys /\ event[r].drops \in Counts
  BY EventType
<1>2. audit \in [Keys -> Lines] /\ audit[k] \in Lines
  BY <1>1 DEF TypeOK, Lines
<1>3. ASSUME NEW n \in 0 .. MaxLines PROVE Min({n + 1, MaxLines}) \in 0 .. MaxLines /\ Min({n + 1, MaxLines}) > 0
  BY DEF Min, MaxLines
<1>4. Min({audit[k].lines + 1, MaxLines}) \in 0 .. MaxLines /\ Min({audit[k].lines + 1, MaxLines}) > 0
  BY <1>2, <1>3 DEF Lines
<1>5. one \in Lines
  BY <1>1, <1>2, <1>4 DEF Lines
<1>6. Logged(event[r]) = [audit EXCEPT ![k] = one]
  BY DEF Logged
<1>7. one.lines = Min({audit[k].lines + 1, MaxLines}) /\ one.first \in {audit[k].first, event[r].drops}
  OBVIOUS
<1> HIDE DEF one, k
<1>8. [audit EXCEPT ![k] = one][k] = one
  BY <1>1, <1>2
<1>9. [audit EXCEPT ![k] = one] \in [Keys -> Lines] /\ \A x \in Keys : x # k => [audit EXCEPT ![k] = one][x] = audit[x]
  BY <1>1, <1>2, <1>5
<1> QED BY <1>4, <1>6, <1>7, <1>8, <1>9 DEF k

\* The ways an append ends.
LEMMA AppendEnds ==
  ASSUME TypeOK, NEW r \in Requests, AppendAudit(r)
  PROVE  /\ pc[r] = "audit" /\ audit' \in {audit, Logged(event[r])} /\ torn' \in BOOLEAN
         /\ \/ audit' = Logged(event[r]) /\ Go(r, "telemetry") /\ UNCHANGED <<held, waiting, faults>>
            \/ Fault("audit") /\ Refuse(r)
BY DEF AppendAudit, TypeOK

\* A rotation leaves every line where it was counted.
LEMMA RotateEffect ==
  ASSUME TypeOK, Rotate
  PROVE  /\ audit' \in [Keys -> Lines]
         /\ \A k \in Keys : audit'[k].lines = audit[k].lines /\ audit'[k].first = None
BY DEF Rotate, TypeOK, Lines

\* The Edge starts well typed.
LEMMA TypeInit == Init => TypeOK
<1> SUFFICES ASSUME Init PROVE TypeOK
  OBVIOUS
<1>1. DOMAIN ids = {} /\ ids \in [DOMAIN ids -> Receipts] /\ order \in Seq(Slots)
  BY DEF Init
<1>2. DOMAIN telemetry = {} /\ telemetry \in [DOMAIN telemetry -> Counts]
  BY DEF Init
<1>3. audit \in [Keys -> Lines] /\ drops \in [Keys -> Counts]
  BY IngestAssumption DEF Init, Counts, MaxLines, Lines
<1>4. torn \in BOOLEAN
  BY DEF Init
<1> QED BY <1>1, <1>2, <1>3, <1>4, IngestAssumption DEF Init, TypeOK, PCs, Lines

\* Every step keeps the types.
LEMMA TypeNext == TypeOK /\ [Next]_vars => TypeOK'
<1> SUFFICES ASSUME TypeOK, [Next]_vars PROVE TypeOK'
  OBVIOUS
<1> USE DEF table, handler, stores, device
<1>1. CASE UNCHANGED vars
  BY <1>1 DEF vars, TypeOK
<1>2. ASSUME NEW k \in Keys, DropsGrow(k) PROVE TypeOK'
  <2>1. drops' \in [Keys -> Counts]
    BY <1>2, IngestAssumption DEF DropsGrow, TypeOK, Counts
  <2> QED BY <1>2, <2>1 DEF DropsGrow, TypeOK
<1>3. ASSUME NEW k \in Keys, NEW r \in Requests, Deliver(r, k) PROVE TypeOK'
  <2>1. faults' \in 0 .. MaxFaults
    BY <1>3, FaultType DEF Deliver, TypeOK
  <2>2. CASE k \in DOMAIN ids
    BY <1>3, <2>1, <2>2 DEF Deliver, TypeOK
  <2>3. CASE k \notin DOMAIN ids
    <3>1. /\ Reserve(r, k) /\ pc' = [pc EXCEPT ![r] = "audit"]
          /\ event' = [event EXCEPT ![r] = [key |-> k, drops |-> drops[k]]]
          /\ waiting' = [waiting EXCEPT ![k] = r] /\ UNCHANGED <<held, backend, stores, drops>>
      BY <1>3, <2>3 DEF Deliver, Go
    <3>0. PICK g \in Nat : Reserved(r, k, g)
      BY <2>3, <3>1, ReserveEffect
    <3>2. /\ receipt' = [receipt EXCEPT ![r] = g]
          /\ DOMAIN ids' \subseteq DOMAIN ids \cup {k}
          /\ ids' \in [DOMAIN ids' -> Receipts] /\ order' \in Seq(Slots)
          /\ forgotten' = forgotten \cup (DOMAIN ids \ DOMAIN ids')
      BY <3>0 DEF Reserved
    <3>3. [key |-> k, drops |-> drops[k]] \in Events
      BY DEF TypeOK, Events
    <3>4. /\ pc' \in [Requests -> PCs] /\ event' \in [Requests -> Events \cup {None}]
          /\ receipt' \in [Requests -> Nat \cup {None}]
          /\ \A s \in Requests : pc'[s] # "idle" => event'[s] \in Events /\ receipt'[s] \in Nat
      BY <3>1, <3>2, <3>3 DEF TypeOK, PCs
    <3>5. waiting' \in [Keys -> Requests \cup {None}] /\ forgotten' \subseteq Keys /\ DOMAIN ids' \subseteq Keys
      BY <3>1, <3>2 DEF TypeOK
    <3> QED BY <2>1, <3>1, <3>2, <3>4, <3>5 DEF TypeOK
  <2> QED BY <2>2, <2>3
<1>4. ASSUME NEW r \in Requests, NEW l \in PCs, pc[r] # "idle", Go(r, l)
      PROVE  /\ pc' \in [Requests -> PCs]
             /\ UNCHANGED handler =>
                  \A s \in Requests : pc'[s] # "idle" => event'[s] \in Events /\ receipt'[s] \in Nat
  BY <1>4 DEF Go, TypeOK
<1>5. ASSUME NEW r \in Requests, pc[r] # "idle", Refuse(r)
      PROVE  /\ held' \subseteq Keys /\ waiting' \in [Keys -> Requests \cup {None}]
             /\ Go(r, "release") /\ "release" \in PCs
  BY <1>5, EventType, AnsweredType DEF Refuse, PCs
<1>6. ASSUME NEW r \in Requests, AppendAudit(r) PROVE TypeOK'
  <2>0. /\ pc[r] # "idle" /\ UNCHANGED <<backend, table, handler, telemetry, outbox, drops, forgotten>>
        /\ "telemetry" \in PCs
    BY <1>6 DEF AppendAudit, PCs
  <2>1. audit' \in [Keys -> Lines] /\ torn' \in BOOLEAN
    BY <1>6, <2>0, AppendEnds, LoggedEffect DEF TypeOK, Lines
  <2>2. CASE Fault("audit") /\ Refuse(r)
    BY <1>4, <1>5, <2>0, <2>1, <2>2, FaultType DEF TypeOK, Lines
  <2>3. CASE Go(r, "telemetry") /\ UNCHANGED <<held, waiting, faults>>
    BY <1>4, <2>0, <2>1, <2>3 DEF TypeOK, Lines
  <2> QED BY <1>6, <2>2, <2>3, AppendEnds
<1>7. ASSUME NEW r \in Requests, RecordUpdate(r) PROVE TypeOK'
  <2>0. /\ pc[r] # "idle" /\ UNCHANGED <<backend, table, handler, audit, torn, outbox, drops, forgotten>>
        /\ "domain" \in PCs
    BY <1>7 DEF RecordUpdate, PCs
  <2>1. CASE Refuse(r) /\ UNCHANGED telemetry /\ (UNCHANGED faults \/ Fault("telemetry"))
    BY <1>4, <1>5, <2>0, <2>1, FaultType DEF TypeOK
  <2>2. CASE /\ telemetry' = [x \in DOMAIN telemetry \cup {event[r].key} |->
                               IF x \in DOMAIN telemetry THEN telemetry[x] ELSE event[r].drops]
             /\ Go(r, "domain") /\ UNCHANGED <<held, waiting, faults>>
    <3>1. DOMAIN telemetry' \subseteq Keys /\ telemetry' \in [DOMAIN telemetry' -> Counts]
      BY <2>0, <2>2, EventType DEF TypeOK
    <3> QED BY <1>4, <2>0, <2>2, <3>1 DEF TypeOK
  <2> QED BY <1>7, <2>1, <2>2 DEF RecordUpdate
<1>8. ASSUME NEW r \in Requests, AppendDomainEvent(r) PROVE TypeOK'
  <2>0. /\ pc[r] # "idle" /\ UNCHANGED <<backend, table, handler, audit, torn, telemetry, drops, forgotten>>
        /\ "commit" \in PCs
    BY <1>8 DEF AppendDomainEvent, PCs
  <2>1. CASE Fault("domain") /\ Refuse(r) /\ UNCHANGED outbox
    BY <1>4, <1>5, <2>0, <2>1, FaultType DEF TypeOK
  <2>2. CASE outbox' = outbox \cup {event[r].key} /\ Go(r, "commit") /\ UNCHANGED <<held, waiting, faults>>
    <3>1. outbox' \subseteq Keys
      <4>1. event[r].key \in Keys
        BY <2>0, EventType
      <4>2. outbox \subseteq Keys
        BY DEF TypeOK
      <4> QED BY <2>2, <4>1, <4>2
    <3> QED BY <1>4, <2>0, <2>2, <3>1 DEF TypeOK
  <2> QED BY <1>8, <2>1, <2>2 DEF AppendDomainEvent
<1>9. ASSUME NEW r \in Requests, Accept(r) PROVE TypeOK'
  <2>1. DOMAIN ids' = DOMAIN ids /\ ids' \in [DOMAIN ids' -> Receipts]
    BY <1>9 DEF Accept, Commit, TypeOK, Receipts
  <2>2. pc[r] # "idle" /\ Return(r) /\ Answered(r, event[r].key, TRUE)
    BY <1>9 DEF Accept
  <2>3. held' \subseteq Keys /\ waiting' \in [Keys -> Requests \cup {None}]
    BY <2>2, EventType, AnsweredType
  <2> QED BY <1>9, <2>1, <2>2, <2>3, ReturnType DEF Accept, TypeOK
<1>10. ASSUME NEW r \in Requests, Release(r) PROVE TypeOK'
  <2>1. DOMAIN ids' \subseteq DOMAIN ids /\ ids' \in [DOMAIN ids' -> Receipts]
    BY <1>10 DEF Release, Restrict, TypeOK
  <2>2. event[r].key \in Keys
    BY <1>10, EventType DEF Release
  <2> QED BY <1>10, <2>1, <2>2, ReturnType DEF Release, TypeOK
<1>11. CASE Restart
  <2>1. DOMAIN ids' = {} /\ ids' \in [DOMAIN ids' -> Receipts] /\ order' \in Seq(Slots)
    BY <1>11 DEF Restart
  <2>2. DOMAIN telemetry' \subseteq Keys /\ telemetry' \in [DOMAIN telemetry' -> Counts]
    BY <1>11 DEF Restart, Rebuilt, Hydrated, TypeOK
  <2>3. faults' \in 0 .. MaxFaults
    BY <1>11, FaultType DEF Restart
  <2> QED BY <1>11, <2>1, <2>2, <2>3 DEF Restart, TypeOK, PCs
<1>12. CASE Rotate
  <2>1. faults' \in 0 .. MaxFaults
    BY <1>12, FaultType DEF Rotate
  <2> QED BY <1>12, <2>1, RotateEffect DEF Rotate, TypeOK, Lines
<1> QED BY <1>1, <1>2, <1>3, <1>6, <1>7, <1>8, <1>9, <1>10, <1>11, <1>12 DEF Next, HandlerStep

\* The receipts, the eviction queue and the stores stay well typed.
THEOREM IngestTypeCorrect == Spec => []TypeOK
BY TypeInit, TypeNext, PTL DEF Spec
-----------------------------------------------------------------------------
(* Who holds which receipt.                                                 *)

\* Two requests at work hold different receipts, and a receipt under a request's
\* generation is that request's own, uncommitted: the strengthening that makes
\* WriterHoldsReceipt and NoOrphanedReceipt inductive together.
ReceiptsAreOwned ==
  /\ \A r, s \in Requests : pc[r] # "idle" /\ pc[s] # "idle" /\ receipt[r] = receipt[s] => r = s
  /\ \A r \in Requests, k \in DOMAIN ids :
       pc[r] # "idle" /\ ids[k].gen = receipt[r] => event[r].key = k /\ ~ids[k].committed

ReceiptInv == ReceiptsAreOwned /\ WriterHoldsReceipt /\ NoOrphanedReceipt

\* The start, where nobody holds anything.
LEMMA ReceiptInit == Init => ReceiptInv
BY DEF Init, ReceiptInv, ReceiptsAreOwned, WriterHoldsReceipt, NoOrphanedReceipt, Writing

\* Every step keeps the receipts with their requests.
LEMMA ReceiptNext ==
  ASSUME TypeOK, ReceiptInv, [Next]_vars
  PROVE  ReceiptInv'
<1> USE DEF table, handler, stores, device
<1>1. ASSUME UNCHANGED <<ids, event, receipt>>,
             \A r \in Requests : /\ pc'[r] # "idle" <=> pc[r] # "idle"
                                 /\ pc'[r] \in Writing => pc[r] \in Writing
      PROVE  ReceiptInv'
  BY <1>1 DEF ReceiptInv, ReceiptsAreOwned, WriterHoldsReceipt, NoOrphanedReceipt, InFlight, Live
<1>2. ASSUME NEW r \in Requests, NEW l \in {"telemetry", "domain", "commit", "release"},
             pc[r] \in Writing, Go(r, l), UNCHANGED <<ids, event, receipt>>
      PROVE  ReceiptInv'
  <2>1. \A s \in Requests : /\ pc'[s] # "idle" <=> pc[s] # "idle"
                            /\ pc'[s] \in Writing => pc[s] \in Writing
    BY <1>2 DEF Go, TypeOK, Writing
  <2> QED BY <1>1, <1>2, <2>1
<1>3. CASE UNCHANGED vars
  BY <1>1, <1>3 DEF vars
<1>4. ASSUME NEW k \in Keys, DropsGrow(k) PROVE ReceiptInv'
  BY <1>1, <1>4 DEF DropsGrow
<1>5. ASSUME NEW k \in Keys, NEW r \in Requests, Deliver(r, k) PROVE ReceiptInv'
  <2>1. CASE k \in DOMAIN ids
    BY <1>1, <1>5, <2>1 DEF Deliver
  <2>2. CASE k \notin DOMAIN ids
    <3>1. /\ Reserve(r, k) /\ pc' = [pc EXCEPT ![r] = "audit"] /\ pc[r] = "idle"
          /\ event' = [event EXCEPT ![r] = [key |-> k, drops |-> drops[k]]]
      BY <1>5, <2>2 DEF Deliver, Go
    <3>0. PICK g \in Nat : Reserved(r, k, g)
      BY <2>2, <3>1, ReserveEffect
    <3>2. /\ receipt' = [receipt EXCEPT ![r] = g]
          /\ \A x \in DOMAIN ids : ids[x].gen # g
          /\ \A s \in Requests : receipt[s] # g
          /\ k \in DOMAIN ids' /\ ids'[k] = [gen |-> g, committed |-> FALSE]
          /\ DOMAIN ids' \subseteq DOMAIN ids \cup {k}
          /\ \A x \in DOMAIN ids' \ {k} : ids'[x] = ids[x]
          /\ \A x \in DOMAIN ids : ~ids[x].committed => x \in DOMAIN ids'
      BY <3>0 DEF Reserved
    <3>3. /\ pc'[r] = "audit" /\ event'[r].key = k /\ receipt'[r] = g
          /\ \A s \in Requests \ {r} :
               pc'[s] = pc[s] /\ event'[s] = event[s] /\ receipt'[s] = receipt[s]
      <4>1. DOMAIN pc = Requests /\ DOMAIN event = Requests /\ DOMAIN receipt = Requests
        BY DEF TypeOK
      <4> QED BY <3>1, <3>2, <4>1
    <3>4. ReceiptsAreOwned'
      <4>1. \A s, u \in Requests : pc'[s] # "idle" /\ pc'[u] # "idle" /\ receipt'[s] = receipt'[u] => s = u
        BY <3>2, <3>3 DEF ReceiptInv, ReceiptsAreOwned
      <4>2. ASSUME NEW s \in Requests, NEW x \in DOMAIN ids', pc'[s] # "idle", ids'[x].gen = receipt'[s]
            PROVE  event'[s].key = x /\ ~ids'[x].committed
        <5>1. CASE x = k
          BY <3>2, <3>3, <4>2, <5>1 DEF ReceiptInv, ReceiptsAreOwned
        <5>2. CASE x # k
          BY <3>2, <3>3, <4>2, <5>2 DEF ReceiptInv, ReceiptsAreOwned
        <5> QED BY <5>1, <5>2
      <4> QED BY <4>1, <4>2 DEF ReceiptsAreOwned
    <3>5. WriterHoldsReceipt'
      <4> SUFFICES ASSUME NEW s \in Requests, pc'[s] \in Writing
                   PROVE  event'[s].key \in DOMAIN ids' /\ ids'[event'[s].key].gen = receipt'[s]
                          /\ ~ids'[event'[s].key].committed
        BY DEF WriterHoldsReceipt, InFlight, Live
      <4>1. CASE s = r
        BY <3>2, <3>3, <4>1
      <4>2. CASE s # r
        <5>1. /\ event[s].key \in DOMAIN ids /\ ids[event[s].key].gen = receipt[s]
              /\ ~ids[event[s].key].committed
          BY <3>3, <4>2 DEF ReceiptInv, WriterHoldsReceipt, InFlight, Live
        <5> QED BY <2>2, <3>2, <3>3, <4>2, <5>1
      <4> QED BY <4>1, <4>2
    <3>6. NoOrphanedReceipt'
      <4> SUFFICES ASSUME NEW x \in DOMAIN ids', ~ids'[x].committed
                   PROVE  \E s \in Requests : pc'[s] # "idle" /\ event'[s].key = x /\ receipt'[s] = ids'[x].gen
        BY DEF NoOrphanedReceipt
      <4>1. CASE x = k
        BY <3>2, <3>3, <4>1
      <4>2. CASE x # k
        <5>1. x \in DOMAIN ids /\ ids'[x] = ids[x]
          BY <3>2, <4>2
        <5>2. PICK s \in Requests : pc[s] # "idle" /\ event[s].key = x /\ receipt[s] = ids[x].gen
          BY <5>1 DEF ReceiptInv, NoOrphanedReceipt
        <5> QED BY <3>1, <3>3, <5>1, <5>2
      <4> QED BY <4>1, <4>2
    <3> QED BY <3>4, <3>5, <3>6 DEF ReceiptInv
  <2> QED BY <2>1, <2>2
<1>6. ASSUME NEW r \in Requests, AppendAudit(r) PROVE ReceiptInv'
  BY <1>2, <1>6 DEF AppendAudit, Refuse, Writing
<1>7. ASSUME NEW r \in Requests, RecordUpdate(r) PROVE ReceiptInv'
  BY <1>2, <1>7 DEF RecordUpdate, Refuse, Writing
<1>8. ASSUME NEW r \in Requests, AppendDomainEvent(r) PROVE ReceiptInv'
  BY <1>2, <1>8 DEF AppendDomainEvent, Refuse, Writing
<1>9. ASSUME NEW r \in Requests, Accept(r) PROVE ReceiptInv'
  <2> DEFINE k == event[r].key
  <2>1. /\ pc[r] = "commit" /\ Return(r)
        /\ k \in DOMAIN ids /\ ids[k].gen = receipt[r] /\ ~ids[k].committed
    BY <1>9 DEF Accept, ReceiptInv, WriterHoldsReceipt, InFlight, Live, Writing
  <2>2. ids' = [ids EXCEPT ![k].committed = TRUE]
    BY <1>9, <2>1 DEF Accept, Commit, Live
  <2>3. /\ DOMAIN ids' = DOMAIN ids /\ \A x \in DOMAIN ids : x # k => ids'[x] = ids[x]
        /\ ids'[k].committed /\ ids'[k].gen = ids[k].gen
    BY <2>1, <2>2 DEF TypeOK, Receipts
  <2> HIDE DEF k
  <2>4. /\ pc'[r] = "idle"
        /\ \A s \in Requests \ {r} : pc'[s] = pc[s] /\ event'[s] = event[s] /\ receipt'[s] = receipt[s]
    BY <2>1, ReturnType
  <2>5. \A s \in Requests \ {r} : pc[s] # "idle" => receipt[s] # ids[k].gen
    BY <2>1 DEF ReceiptInv, ReceiptsAreOwned
  <2>6. ReceiptsAreOwned'
    BY <2>3, <2>4, <2>5 DEF ReceiptInv, ReceiptsAreOwned
  <2>7. WriterHoldsReceipt'
    BY <2>3, <2>4, <2>5 DEF ReceiptInv, WriterHoldsReceipt, InFlight, Live, Writing
  <2>8. NoOrphanedReceipt'
    <3> SUFFICES ASSUME NEW x \in DOMAIN ids', ~ids'[x].committed
                 PROVE  \E s \in Requests : pc'[s] # "idle" /\ event'[s].key = x /\ receipt'[s] = ids'[x].gen
      BY DEF NoOrphanedReceipt
    <3>1. x # k /\ x \in DOMAIN ids /\ ids'[x] = ids[x]
      BY <2>3
    <3>2. PICK s \in Requests : pc[s] # "idle" /\ event[s].key = x /\ receipt[s] = ids[x].gen
      BY <3>1 DEF ReceiptInv, NoOrphanedReceipt
    <3>3. s # r
      BY <3>1, <3>2 DEF k
    <3> QED BY <2>4, <3>1, <3>2, <3>3
  <2> QED BY <2>6, <2>7, <2>8 DEF ReceiptInv
<1>10. ASSUME NEW r \in Requests, Release(r) PROVE ReceiptInv'
  <2> DEFINE k == event[r].key
             mine == k \in DOMAIN ids /\ ids[k].gen = receipt[r] /\ ~ids[k].committed
  <2>1. /\ pc[r] = "release" /\ Return(r)
        /\ mine => ids' = Restrict(ids, DOMAIN ids \ {k})
        /\ ~mine => ids' = ids
    BY <1>10 DEF Release, InFlight, Live
  <2>2. /\ DOMAIN ids' \subseteq DOMAIN ids /\ \A x \in DOMAIN ids' : ids'[x] = ids[x]
        /\ \A x \in DOMAIN ids : x \notin DOMAIN ids' => mine /\ x = k
        /\ mine => k \notin DOMAIN ids'
    BY <2>1 DEF Restrict
  <2>3. /\ pc'[r] = "idle"
        /\ \A s \in Requests \ {r} : pc'[s] = pc[s] /\ event'[s] = event[s] /\ receipt'[s] = receipt[s]
    BY <2>1, ReturnType
  <2>4. ReceiptsAreOwned'
    BY <2>2, <2>3 DEF ReceiptInv, ReceiptsAreOwned
  <2>5. WriterHoldsReceipt'
    <3> SUFFICES ASSUME NEW s \in Requests, pc'[s] \in Writing
                 PROVE  event'[s].key \in DOMAIN ids' /\ ids'[event'[s].key].gen = receipt'[s]
                        /\ ~ids'[event'[s].key].committed
      BY DEF WriterHoldsReceipt, InFlight, Live
    <3>1. s # r /\ pc[s] \in Writing /\ pc[s] # "idle"
      BY <2>3 DEF Writing
    <3>2. /\ event[s].key \in DOMAIN ids /\ ids[event[s].key].gen = receipt[s]
          /\ ~ids[event[s].key].committed
      BY <3>1 DEF ReceiptInv, WriterHoldsReceipt, InFlight, Live
    <3>3. receipt[s] # receipt[r]
      BY <2>1, <3>1 DEF ReceiptInv, ReceiptsAreOwned
    <3> QED BY <2>2, <2>3, <3>1, <3>2, <3>3
  <2>6. NoOrphanedReceipt'
    <3> SUFFICES ASSUME NEW x \in DOMAIN ids', ~ids'[x].committed
                 PROVE  \E s \in Requests : pc'[s] # "idle" /\ event'[s].key = x /\ receipt'[s] = ids'[x].gen
      BY DEF NoOrphanedReceipt
    <3>1. x \in DOMAIN ids /\ ids'[x] = ids[x]
      BY <2>2
    <3>2. PICK s \in Requests : pc[s] # "idle" /\ event[s].key = x /\ receipt[s] = ids[x].gen
      BY <3>1 DEF ReceiptInv, NoOrphanedReceipt
    <3>3. s # r
      BY <2>2, <3>1, <3>2
    <3> QED BY <2>3, <3>1, <3>2, <3>3
  <2> QED BY <2>4, <2>5, <2>6 DEF ReceiptInv
<1>11. CASE Restart
  <2>1. DOMAIN ids' = {} /\ \A r \in Requests : pc'[r] = "idle"
    BY <1>11 DEF Restart
  <2> QED BY <2>1 DEF ReceiptInv, ReceiptsAreOwned, WriterHoldsReceipt, NoOrphanedReceipt, Writing
<1>12. CASE Rotate
  BY <1>1, <1>12 DEF Rotate
<1> QED BY <1>3, <1>4, <1>5, <1>6, <1>7, <1>8, <1>9, <1>10, <1>11, <1>12 DEF Next, HandlerStep

\* A request that is recording an event holds its uncommitted receipt: whatever
\* the eviction scan, a stale queue entry or another request's release does, no
\* second request records the same event at the same time.
THEOREM WriterHoldsReceiptHolds == Spec => []WriterHoldsReceipt
<1>1. ReceiptInv => WriterHoldsReceipt
  BY DEF ReceiptInv
<1> QED BY <1>1, ReceiptInit, ReceiptNext, TypeInit, TypeNext, PTL DEF Spec

\* No event is left that no request can record: an uncommitted receipt has a
\* request behind it.
THEOREM NoOrphanedReceiptHolds == Spec => []NoOrphanedReceipt
<1>1. ReceiptInv => NoOrphanedReceipt
  BY DEF ReceiptInv
<1> QED BY <1>1, ReceiptInit, ReceiptNext, TypeInit, TypeNext, PTL DEF Spec

-----------------------------------------------------------------------------
(* Audited once.                                                            *)

\* Until its receipt is lost, an event on record keeps its receipt, and the
\* request about to audit it is the first: the strengthening of AuditedOnce.
FirstLineIsReceipted ==
  /\ \A k \in Keys \ forgotten : Audited(k) => k \in DOMAIN ids
  /\ \A r \in Requests : pc[r] = "audit" /\ event[r].key \notin forgotten => ~Audited(event[r].key)

AuditInv == FirstLineIsReceipted /\ AuditedOnce

\* Every step keeps one line for an event whose receipt was not lost.
LEMMA AuditNext ==
  ASSUME TypeOK, ReceiptInv, AuditInv, [Next]_vars
  PROVE  AuditInv'
<1> USE DEF table, handler, stores, device
<1>1. ASSUME UNCHANGED audit, forgotten \subseteq forgotten',
             \A k \in DOMAIN ids : k \notin forgotten' => k \in DOMAIN ids',
             \A r \in Requests : pc'[r] = "audit" => pc[r] = "audit" /\ event'[r] = event[r]
      PROVE  AuditInv'
  BY <1>1 DEF AuditInv, FirstLineIsReceipted, AuditedOnce, Audited
<1>2. CASE UNCHANGED vars
  BY <1>1, <1>2 DEF vars
<1>3. ASSUME NEW k \in Keys, DropsGrow(k) PROVE AuditInv'
  BY <1>1, <1>3 DEF DropsGrow
<1>4. ASSUME NEW k \in Keys, NEW r \in Requests, Deliver(r, k) PROVE AuditInv'
  <2>1. CASE k \in DOMAIN ids
    BY <1>1, <1>4, <2>1 DEF Deliver
  <2>2. CASE k \notin DOMAIN ids
    <3>1. /\ Reserve(r, k) /\ pc' = [pc EXCEPT ![r] = "audit"] /\ UNCHANGED audit
          /\ event' = [event EXCEPT ![r] = [key |-> k, drops |-> drops[k]]]
      BY <1>4, <2>2 DEF Deliver, Go
    <3>2. forgotten' = forgotten \cup (DOMAIN ids \ DOMAIN ids')
      BY <2>2, <3>1, ReserveEffect DEF Reserved
    <3>3. event'[r].key = k /\ \A s \in Requests \ {r} : pc'[s] = pc[s] /\ event'[s] = event[s]
      BY <3>1 DEF TypeOK
    <3>4. k \notin forgotten => ~Audited(k)
      BY <2>2 DEF AuditInv, FirstLineIsReceipted
    <3> QED BY <3>1, <3>2, <3>3, <3>4 DEF AuditInv, FirstLineIsReceipted, AuditedOnce, Audited
  <2> QED BY <2>1, <2>2
<1>5. ASSUME NEW r \in Requests, AppendAudit(r) PROVE AuditInv'
  <2> DEFINE k == event[r].key
  <2>0. /\ pc[r] = "audit" /\ k \in Keys /\ k \in DOMAIN ids
        /\ UNCHANGED <<ids, event, forgotten>>
    BY <1>5, EventType DEF AppendAudit, ReceiptInv, WriterHoldsReceipt, Writing, InFlight, Live
  <2>1. CASE UNCHANGED audit
    <3>1. \A s \in Requests : pc'[s] = "audit" => pc[s] = "audit"
      BY <1>5, AppendEnds DEF Refuse, Go, TypeOK
    <3> QED BY <1>1, <2>0, <2>1, <3>1
  <2>2. CASE audit' = Logged(event[r])
    <3>1. /\ \A x \in Keys : x # k => audit'[x] = audit[x]
          /\ audit'[k].lines = Min({audit[k].lines + 1, MaxLines})
      BY <2>0, <2>2, LoggedEffect
    <3>2. \A s \in Requests : pc'[s] = "audit" => s # r /\ pc[s] = "audit"
      BY <1>5, AppendEnds DEF Refuse, Go, TypeOK
    <3>3. \A s \in Requests : pc'[s] = "audit" => event[s].key # k /\ event[s].key \in Keys
      <4>1. ASSUME NEW s \in Requests, pc[s] = "audit", event[s].key = k PROVE s = r
        <5>1. receipt[s] = ids[k].gen /\ receipt[r] = ids[k].gen
          BY <2>0, <4>1 DEF ReceiptInv, WriterHoldsReceipt, Writing, InFlight, Live
        <5> QED BY <2>0, <4>1, <5>1 DEF ReceiptInv, ReceiptsAreOwned
      <4> QED BY <3>2, <4>1, EventType
    <3>4. k \notin forgotten => ~(audit'[k].lines > 1)
      <4>1. ASSUME k \notin forgotten PROVE audit[k].lines = 0
        BY <2>0, <4>1 DEF AuditInv, FirstLineIsReceipted, Audited, TypeOK
      <4>2. Min({0 + 1, MaxLines}) = 1
        BY DEF Min, MaxLines
      <4> QED BY <3>1, <4>1, <4>2
    <3> QED BY <2>0, <3>1, <3>2, <3>3, <3>4 DEF AuditInv, FirstLineIsReceipted, AuditedOnce, Audited
  <2> QED BY <1>5, <2>1, <2>2, AppendEnds
<1>6. ASSUME NEW r \in Requests, RecordUpdate(r) PROVE AuditInv'
  <2>1. \A s \in Requests : pc'[s] = "audit" => pc[s] = "audit"
    BY <1>6 DEF RecordUpdate, Refuse, Go, TypeOK
  <2> QED BY <1>1, <1>6, <2>1 DEF RecordUpdate
<1>7. ASSUME NEW r \in Requests, AppendDomainEvent(r) PROVE AuditInv'
  <2>1. \A s \in Requests : pc'[s] = "audit" => pc[s] = "audit"
    BY <1>7 DEF AppendDomainEvent, Refuse, Go, TypeOK
  <2> QED BY <1>1, <1>7, <2>1 DEF AppendDomainEvent
<1>8. ASSUME NEW r \in Requests, Accept(r) PROVE AuditInv'
  <2>1. \A s \in Requests : pc'[s] = "audit" => pc[s] = "audit" /\ event'[s] = event[s]
    BY <1>8, ReturnType DEF Accept
  <2>2. DOMAIN ids' = DOMAIN ids
    BY <1>8 DEF Accept, Commit
  <2> QED BY <1>1, <1>8, <2>1, <2>2 DEF Accept
<1>9. ASSUME NEW r \in Requests, Release(r) PROVE AuditInv'
  <2>1. \A s \in Requests : pc'[s] = "audit" => pc[s] = "audit" /\ event'[s] = event[s]
    BY <1>9, ReturnType DEF Release
  <2>2. forgotten' = forgotten \cup {event[r].key} /\ DOMAIN ids \ {event[r].key} \subseteq DOMAIN ids'
    BY <1>9 DEF Release, Restrict
  <2> QED BY <1>1, <1>9, <2>1, <2>2 DEF Release
<1>10. CASE Restart
  BY <1>10 DEF Restart, AuditInv, FirstLineIsReceipted, AuditedOnce
<1>11. CASE Rotate
  BY <1>11, RotateEffect, EventType DEF Rotate, AuditInv, FirstLineIsReceipted, AuditedOnce, Audited
<1> QED BY <1>2, <1>3, <1>4, <1>5, <1>6, <1>7, <1>8, <1>9, <1>10, <1>11 DEF Next, HandlerStep

\* However often a device sends again while its first request is at work, an event
\* has a second audit line only if its receipt was lost to a failure, to the cap or
\* to a restart.
THEOREM AuditedOnceHolds == Spec => []AuditedOnce
<1>1. Init => AuditInv
  BY DEF Init, AuditInv, FirstLineIsReceipted, AuditedOnce, Audited
<1>2. AuditInv => AuditedOnce
  BY DEF AuditInv
<1> QED BY <1>1, <1>2, AuditNext, ReceiptInit, ReceiptNext, TypeInit, TypeNext, PTL DEF Spec
-----------------------------------------------------------------------------
(* A report repeated as it was first sent.                                  *)

\* An event whose drop count never grew says zero wherever it was written: the
\* strengthening of UnchangedReportIsTaken.
UnchangedSaysZero ==
  \A k \in Keys : drops[k] = 0 =>
    /\ audit[k].first \in {0, None}
    /\ k \in DOMAIN telemetry => telemetry[k] = 0
    /\ \A r \in Requests : pc[r] # "idle" /\ event[r].key = k => event[r].drops = 0

\* Every step writes what the device sent.
LEMMA UnchangedNext ==
  ASSUME TypeOK, UnchangedSaysZero, [Next]_vars
  PROVE  UnchangedSaysZero'
<1> USE DEF table, handler, stores, device
<1>1. ASSUME UNCHANGED <<drops, audit, telemetry>>,
             \A r \in Requests : pc'[r] # "idle" => pc[r] # "idle" /\ event'[r] = event[r]
      PROVE  UnchangedSaysZero'
  BY <1>1 DEF UnchangedSaysZero
<1>2. ASSUME NEW r \in Requests, NEW l, Go(r, l), pc[r] # "idle", UNCHANGED event
      PROVE  \A s \in Requests : pc'[s] # "idle" => pc[s] # "idle" /\ event'[s] = event[s]
  BY <1>2 DEF Go, TypeOK
<1>3. CASE UNCHANGED vars
  BY <1>1, <1>3 DEF vars
<1>4. ASSUME NEW k \in Keys, DropsGrow(k) PROVE UnchangedSaysZero'
  <2>1. \A x \in Keys : drops'[x] = 0 => drops[x] = 0
    BY <1>4 DEF DropsGrow, TypeOK, Counts
  <2> QED BY <1>4, <2>1 DEF DropsGrow, UnchangedSaysZero
<1>5. ASSUME NEW k \in Keys, NEW r \in Requests, Deliver(r, k) PROVE UnchangedSaysZero'
  <2>1. CASE k \in DOMAIN ids
    BY <1>1, <1>5, <2>1 DEF Deliver
  <2>2. CASE k \notin DOMAIN ids
    <3>1. /\ UNCHANGED <<drops, audit, telemetry>> /\ pc' = [pc EXCEPT ![r] = "audit"]
          /\ event' = [event EXCEPT ![r] = [key |-> k, drops |-> drops[k]]]
      BY <1>5, <2>2 DEF Deliver, Go
    <3>2. /\ event'[r].key = k /\ event'[r].drops = drops[k]
          /\ \A s \in Requests \ {r} : pc'[s] = pc[s] /\ event'[s] = event[s]
      BY <3>1 DEF TypeOK
    <3> QED BY <3>1, <3>2 DEF UnchangedSaysZero
  <2> QED BY <2>1, <2>2
<1>6. ASSUME NEW r \in Requests, AppendAudit(r) PROVE UnchangedSaysZero'
  <2>0. pc[r] # "idle" /\ event[r].key \in Keys /\ UNCHANGED <<drops, telemetry, event>>
    BY <1>6, EventType DEF AppendAudit
  <2>1. \A s \in Requests : pc'[s] # "idle" => pc[s] # "idle" /\ event'[s] = event[s]
    BY <1>2, <1>6, <2>0 DEF AppendAudit, Refuse
  <2>2. \A x \in Keys : audit'[x].first = audit[x].first \/ (x = event[r].key /\ audit'[x].first = event[r].drops)
    BY <1>6, <2>0, AppendEnds, LoggedEffect
  <2> QED BY <2>0, <2>1, <2>2 DEF UnchangedSaysZero
<1>7. ASSUME NEW r \in Requests, RecordUpdate(r) PROVE UnchangedSaysZero'
  <2>0. pc[r] # "idle" /\ event[r].key \in Keys /\ UNCHANGED <<drops, audit, event>>
    BY <1>7, EventType DEF RecordUpdate
  <2>1. \A s \in Requests : pc'[s] # "idle" => pc[s] # "idle" /\ event'[s] = event[s]
    BY <1>2, <1>7, <2>0 DEF RecordUpdate, Refuse
  <2>2. \A x \in DOMAIN telemetry' : \/ x \in DOMAIN telemetry /\ telemetry'[x] = telemetry[x]
                                     \/ x = event[r].key /\ telemetry'[x] = event[r].drops
    BY <1>7 DEF RecordUpdate
  <2> QED BY <2>0, <2>1, <2>2 DEF UnchangedSaysZero
<1>8. ASSUME NEW r \in Requests, AppendDomainEvent(r) PROVE UnchangedSaysZero'
  BY <1>1, <1>2, <1>8 DEF AppendDomainEvent, Refuse
<1>9. ASSUME NEW r \in Requests, Accept(r) \/ Release(r) PROVE UnchangedSaysZero'
  <2>1. Return(r) /\ UNCHANGED <<drops, audit, telemetry>>
    BY <1>9 DEF Accept, Release
  <2>2. \A s \in Requests : pc'[s] # "idle" => pc[s] # "idle" /\ event'[s] = event[s]
    BY <2>1, ReturnType
  <2> QED BY <1>1, <2>1, <2>2
<1>10. CASE Restart
  <2>1. \A k \in DOMAIN telemetry' : \/ k \in DOMAIN telemetry /\ telemetry'[k] = telemetry[k]
                                     \/ telemetry'[k] = audit[k].first /\ audit[k].first # None
    BY <1>10 DEF Restart, Rebuilt, Hydrated
  <2> QED BY <1>10, <2>1 DEF Restart, UnchangedSaysZero
<1>11. CASE Rotate
  BY <1>11, RotateEffect DEF Rotate, UnchangedSaysZero
<1> QED BY <1>3, <1>4, <1>5, <1>6, <1>7, <1>8, <1>9, <1>10, <1>11 DEF Next, HandlerStep

\* A report repeated as it was first sent is never refused by the telemetry store,
\* whatever part of it an earlier delivery recorded and whatever a restart
\* rebuilt from the audit log.
THEOREM UnchangedReportIsTakenHolds == Spec => []UnchangedReportIsTaken
<1>1. Init => UnchangedSaysZero
  BY DEF Init, UnchangedSaysZero
<1>2. TypeOK /\ UnchangedSaysZero => UnchangedReportIsTaken
  BY EventType DEF UnchangedSaysZero, UnchangedReportIsTaken, Recordable
<1> QED BY <1>1, <1>2, UnchangedNext, TypeInit, TypeNext, PTL DEF Spec

-----------------------------------------------------------------------------
(* The promise of ReportReceipt.                                            *)

\* The stores are written in order, a request is as far as its place says, and
\* what a receipt takes for recorded is in all three: telemetry has forgotten
\* only what no receipt of this process speaks of.
WrittenInOrder ==
  /\ \A k \in Keys : audit[k].first # None => Audited(k)
  /\ \A k \in DOMAIN telemetry : Audited(k)
  /\ \A r \in Requests :
       /\ pc[r] = "telemetry" => Audited(event[r].key)
       /\ pc[r] = "domain" => event[r].key \in DOMAIN telemetry
       /\ pc[r] = "commit" => event[r].key \in outbox \cap DOMAIN telemetry
  /\ \A k \in DOMAIN ids : ids[k].committed => k \in outbox \cap DOMAIN telemetry

\* Every step writes the next store only after the one before it.
LEMMA WrittenNext ==
  ASSUME TypeOK, WrittenInOrder, [Next]_vars
  PROVE  WrittenInOrder'
<1> USE DEF table, handler, stores, device
<1>1. ASSUME UNCHANGED <<audit, telemetry, outbox>>,
             \A r \in Requests : pc'[r] \in {"telemetry", "domain", "commit"} => pc'[r] = pc[r] /\ event'[r] = event[r],
             \A k \in DOMAIN ids' : ids'[k].committed => k \in outbox \cap DOMAIN telemetry
      PROVE  WrittenInOrder'
  BY <1>1 DEF WrittenInOrder, Audited
<1>2. ASSUME NEW r \in Requests, pc[r] # "idle", Refuse(r), UNCHANGED event
      PROVE  \A s \in Requests : pc'[s] \in {"telemetry", "domain", "commit"} => pc'[s] = pc[s] /\ event'[s] = event[s]
  BY <1>2 DEF Refuse, Answered, Go, TypeOK
<1>3. CASE UNCHANGED vars
  BY <1>1, <1>3 DEF vars, WrittenInOrder
<1>4. ASSUME NEW k \in Keys, DropsGrow(k) PROVE WrittenInOrder'
  BY <1>1, <1>4 DEF DropsGrow, WrittenInOrder
<1>5. ASSUME NEW k \in Keys, NEW r \in Requests, Deliver(r, k) PROVE WrittenInOrder'
  <2>1. CASE k \in DOMAIN ids
    BY <1>1, <1>5, <2>1 DEF Deliver, WrittenInOrder
  <2>2. CASE k \notin DOMAIN ids
    <3>1. /\ Reserve(r, k) /\ pc' = [pc EXCEPT ![r] = "audit"]
          /\ event' = [event EXCEPT ![r] = [key |-> k, drops |-> drops[k]]]
          /\ UNCHANGED <<audit, telemetry, outbox>>
      BY <1>5, <2>2 DEF Deliver, Go
    <3>2. \A x \in DOMAIN ids' : ids'[x].committed => x \in DOMAIN ids /\ ids[x].committed
      <4>1. PICK g \in Nat : Reserved(r, k, g)
        BY <2>2, <3>1, ReserveEffect
      <4>2. \A x \in DOMAIN ids' : x # k => x \in DOMAIN ids /\ ids'[x] = ids[x]
        BY <4>1 DEF Reserved
      <4>3. ~ids'[k].committed
        BY <4>1 DEF Reserved
      <4> QED BY <4>2, <4>3
    <3>3. \A s \in Requests : pc'[s] \in {"telemetry", "domain", "commit"} => pc'[s] = pc[s] /\ event'[s] = event[s]
      BY <3>1 DEF TypeOK
    <3> QED BY <1>1, <3>1, <3>2, <3>3 DEF WrittenInOrder
  <2> QED BY <2>1, <2>2
<1>6. ASSUME NEW r \in Requests, AppendAudit(r) PROVE WrittenInOrder'
  <2>0. pc[r] = "audit" /\ event[r].key \in Keys /\ UNCHANGED <<ids, event, telemetry, outbox>>
    BY <1>6, EventType DEF AppendAudit
  <2>1. CASE Refuse(r) /\ UNCHANGED audit
    BY <1>1, <1>2, <2>0, <2>1 DEF WrittenInOrder
  <2>2. CASE audit' = Logged(event[r])
    <3>1. /\ Audited(event[r].key)' /\ \A x \in Keys : Audited(x) => Audited(x)'
          /\ \A x \in Keys : x # event[r].key => audit'[x] = audit[x]
      <4>1. /\ audit'[event[r].key].lines > 0
            /\ \A x \in Keys : x # event[r].key => audit'[x] = audit[x]
        BY <2>0, <2>2, LoggedEffect
      <4> QED BY <2>0, <4>1 DEF Audited
    <3>2. pc'[r] \in {"telemetry", "release"} /\ \A s \in Requests \ {r} : pc'[s] = pc[s]
      BY <1>6, AppendEnds DEF Refuse, Go, TypeOK
    <3>3. \A s \in Requests : pc'[s] = "telemetry" => event[s].key \in Keys
      BY <2>0, <3>2, EventType
    <3>4. \A k \in Keys : audit'[k].first # None => Audited(k)'
      BY <2>0, <3>1 DEF WrittenInOrder, Audited
    <3> QED BY <2>0, <2>2, <3>1, <3>2, <3>3, <3>4 DEF WrittenInOrder, TypeOK
  <2> QED BY <1>6, <2>1, <2>2, AppendEnds
<1>7. ASSUME NEW r \in Requests, RecordUpdate(r) PROVE WrittenInOrder'
  <2>0. pc[r] = "telemetry" /\ event[r].key \in Keys /\ UNCHANGED <<ids, event, audit, outbox>>
    BY <1>7, EventType DEF RecordUpdate
  <2>1. CASE Refuse(r) /\ UNCHANGED telemetry
    BY <1>1, <1>2, <2>0, <2>1 DEF WrittenInOrder
  <2>2. CASE DOMAIN telemetry' = DOMAIN telemetry \cup {event[r].key} /\ Go(r, "domain")
    <3>1. pc'[r] = "domain" /\ \A s \in Requests \ {r} : pc'[s] = pc[s]
      BY <2>2 DEF Go, TypeOK
    <3> QED BY <2>0, <2>2, <3>1 DEF WrittenInOrder, Audited
  <2> QED BY <1>7, <2>1, <2>2 DEF RecordUpdate
<1>8. ASSUME NEW r \in Requests, AppendDomainEvent(r) PROVE WrittenInOrder'
  <2>0. pc[r] = "domain" /\ UNCHANGED <<ids, event, audit, telemetry>>
    BY <1>8 DEF AppendDomainEvent
  <2>1. CASE Refuse(r) /\ UNCHANGED outbox
    BY <1>1, <1>2, <2>0, <2>1 DEF WrittenInOrder
  <2>2. CASE outbox' = outbox \cup {event[r].key} /\ Go(r, "commit")
    <3>1. pc'[r] = "commit" /\ \A s \in Requests \ {r} : pc'[s] = pc[s]
      BY <2>2 DEF Go, TypeOK
    <3> QED BY <2>0, <2>2, <3>1 DEF WrittenInOrder, Audited
  <2> QED BY <1>8, <2>1, <2>2 DEF AppendDomainEvent
<1>9. ASSUME NEW r \in Requests, Accept(r) PROVE WrittenInOrder'
  <2>1. /\ pc[r] = "commit" /\ Return(r) /\ event[r].key \in outbox \cap DOMAIN telemetry
        /\ UNCHANGED <<audit, telemetry, outbox>>
    BY <1>9 DEF Accept, WrittenInOrder
  <2>2. \A k \in DOMAIN ids' : /\ k \in DOMAIN ids
                               /\ ids'[k].committed => ids[k].committed \/ k = event[r].key
    BY <1>9 DEF Accept, Commit, Live, TypeOK, Receipts
  <2>3. \A s \in Requests : pc'[s] \in {"telemetry", "domain", "commit"} => pc'[s] = pc[s] /\ event'[s] = event[s]
    BY <2>1, ReturnType
  <2> QED BY <1>1, <2>1, <2>2, <2>3 DEF WrittenInOrder
<1>10. ASSUME NEW r \in Requests, Release(r) PROVE WrittenInOrder'
  <2>1. \A k \in DOMAIN ids' : k \in DOMAIN ids /\ ids'[k] = ids[k]
    BY <1>10 DEF Release, Restrict
  <2>2. \A s \in Requests : pc'[s] \in {"telemetry", "domain", "commit"} => pc'[s] = pc[s] /\ event'[s] = event[s]
    BY <1>10, ReturnType DEF Release
  <2> QED BY <1>1, <1>10, <2>1, <2>2 DEF Release, WrittenInOrder
<1>11. CASE Restart
  <2>1. /\ DOMAIN ids' = {} /\ \A r \in Requests : pc'[r] = "idle"
        /\ UNCHANGED <<audit, outbox>>
    BY <1>11 DEF Restart
  <2>2. telemetry' = telemetry \/ \A k \in DOMAIN telemetry' : k \in Keys /\ Audited(k)
    BY <1>11 DEF Restart, Rebuilt, Hydrated, WrittenInOrder
  <2> QED BY <2>1, <2>2 DEF WrittenInOrder, Audited, TypeOK
<1>12. CASE Rotate
  <2>1. \A k \in Keys : (Audited(k)' <=> Audited(k)) /\ audit'[k].first = None
    BY <1>12, RotateEffect DEF Audited
  <2>2. UNCHANGED <<ids, pc, event, telemetry, outbox>>
    BY <1>12 DEF Rotate
  <2>3. \A r \in Requests : pc[r] = "telemetry" => event[r].key \in Keys
    BY EventType
  <2> QED BY <2>1, <2>2, <2>3 DEF WrittenInOrder, TypeOK
<1> QED BY <1>3, <1>4, <1>5, <1>6, <1>7, <1>8, <1>9, <1>10, <1>11, <1>12 DEF Next, HandlerStep

\* A step is one step of the promise, or is not seen by it.
LEMMA PromiseStep ==
  ASSUME TypeOK, WrittenInOrder, TypeOK', WrittenInOrder', [Next]_vars
  PROVE  [Promise!Next]_(Promise!vars)
<1> DEFINE logged == {k \in Keys : Audited(k)}
           shown == DOMAIN telemetry
           taken == Keys \ held
           kept == backend = "postgres"
<1> USE DEF table, handler, stores, device
<1>0. ASSUME UNCHANGED <<backend, logged, telemetry, outbox, held>> PROVE UNCHANGED Promise!vars
  BY <1>0 DEF Promise!vars
<1>1. ASSUME NEW k \in Keys, logged' = logged \cup {k}, UNCHANGED <<backend, telemetry, outbox, held>>
      PROVE  Promise!Log(k)
  BY <1>1 DEF Promise!Log
<1>2. ASSUME NEW k \in Keys, k \in logged, shown' = shown \cup {k}, UNCHANGED <<backend, logged, outbox, held>>
      PROVE  Promise!Show(k)
  BY <1>2 DEF Promise!Show
<1>3. ASSUME NEW k \in Keys, k \in logged \cap shown, outbox' = outbox \cup {k},
             UNCHANGED <<backend, logged, telemetry, held>>
      PROVE  Promise!Tell(k)
  BY <1>3 DEF Promise!Tell
<1>4. ASSUME NEW k \in Keys, k \in logged \cap shown \cap outbox, held' = held \ {k},
             UNCHANGED <<backend, logged, telemetry, outbox>>
      PROVE  Promise!Acknowledge(k)
  <2>1. taken' = taken \cup {k}
    BY <1>4
  <2> QED BY <1>4, <2>1 DEF Promise!Acknowledge
<1>5. ASSUME backend # "postgres", shown' \in SUBSET logged, UNCHANGED <<backend, logged, outbox, held>>
      PROVE  Promise!Rebuild
  BY <1>5 DEF Promise!Rebuild
<1>6. ASSUME UNCHANGED audit PROVE UNCHANGED logged
  BY <1>6 DEF Audited
<1>7. \A k \in shown : k \in Keys /\ k \in logged
  BY DEF WrittenInOrder, TypeOK
<1>8. ASSUME UNCHANGED vars PROVE UNCHANGED Promise!vars
  BY <1>0, <1>6, <1>8 DEF vars
<1>9. ASSUME NEW k \in Keys, DropsGrow(k) PROVE UNCHANGED Promise!vars
  BY <1>0, <1>6, <1>9 DEF DropsGrow
<1>10. ASSUME NEW k \in Keys, NEW r \in Requests, Deliver(r, k) PROVE UNCHANGED Promise!vars \/ Promise!Acknowledge(k)
  <2>1. UNCHANGED <<backend, logged, telemetry, outbox>>
    BY <1>6, <1>10 DEF Deliver
  <2>2. UNCHANGED held \/ (k \in logged \cap shown \cap outbox /\ held' = held \ {k})
    BY <1>7, <1>10 DEF Deliver, WrittenInOrder
  <2> HIDE DEF logged, shown
  <2> QED BY <1>0, <1>4, <2>1, <2>2 DEF shown
<1>11. ASSUME NEW r \in Requests, AppendAudit(r) PROVE UNCHANGED Promise!vars \/ \E k \in Keys : Promise!Log(k)
  <2>1. UNCHANGED <<backend, telemetry, outbox, held>> /\ event[r].key \in Keys
    BY <1>11, EventType DEF AppendAudit, Refuse, Answered
  <2>2. CASE UNCHANGED audit
    BY <1>0, <1>6, <2>1, <2>2
  <2>3. CASE audit' = Logged(event[r])
    <3>1. logged' = logged \cup {event[r].key}
      <4>1. /\ audit'[event[r].key].lines > 0
            /\ \A x \in Keys : x # event[r].key => audit'[x] = audit[x]
        BY <1>11, <2>3, LoggedEffect DEF AppendAudit
      <4> QED BY <2>1, <4>1 DEF Audited
    <3> QED BY <1>1, <2>1, <3>1
  <2> QED BY <1>11, <2>2, <2>3, AppendEnds
<1>12. ASSUME NEW r \in Requests, RecordUpdate(r) PROVE UNCHANGED Promise!vars \/ \E k \in Keys : Promise!Show(k)
  <2>1. UNCHANGED <<backend, logged, outbox, held>> /\ event[r].key \in Keys /\ event[r].key \in logged
    BY <1>6, <1>12, EventType DEF RecordUpdate, Refuse, Answered, WrittenInOrder
  <2>2. UNCHANGED telemetry \/ shown' = shown \cup {event[r].key}
    BY <1>12 DEF RecordUpdate
  <2> HIDE DEF logged
  <2> QED BY <1>0, <1>2, <2>1, <2>2
<1>13. ASSUME NEW r \in Requests, AppendDomainEvent(r) PROVE UNCHANGED Promise!vars \/ \E k \in Keys : Promise!Tell(k)
  <2>1. /\ UNCHANGED <<backend, logged, telemetry, held>> /\ event[r].key \in Keys
        /\ event[r].key \in logged \cap shown
    BY <1>6, <1>7, <1>13, EventType DEF AppendDomainEvent, Refuse, Answered, WrittenInOrder
  <2>2. UNCHANGED outbox \/ outbox' = outbox \cup {event[r].key}
    BY <1>13 DEF AppendDomainEvent
  <2> HIDE DEF logged
  <2> QED BY <1>0, <1>3, <2>1, <2>2
<1>14. ASSUME NEW r \in Requests, Accept(r) PROVE UNCHANGED Promise!vars \/ \E k \in Keys : Promise!Acknowledge(k)
  <2>1. /\ UNCHANGED <<backend, logged, telemetry, outbox>> /\ event[r].key \in Keys
        /\ event[r].key \in logged \cap shown \cap outbox
    BY <1>6, <1>7, <1>14, EventType DEF Accept, WrittenInOrder
  <2>2. UNCHANGED held \/ held' = held \ {event[r].key}
    BY <1>14 DEF Accept, Answered
  <2> HIDE DEF logged
  <2> QED BY <1>0, <1>4, <2>1, <2>2
<1>15. ASSUME NEW r \in Requests, Release(r) PROVE UNCHANGED Promise!vars
  BY <1>0, <1>6, <1>15 DEF Release
<1>16. ASSUME Rotate PROVE UNCHANGED Promise!vars
  <2>1. UNCHANGED logged
    BY <1>16, RotateEffect DEF Audited
  <2> QED BY <1>0, <1>16, <2>1 DEF Rotate
<1>17. ASSUME Restart PROVE UNCHANGED Promise!vars \/ Promise!Rebuild
  <2>1. UNCHANGED <<backend, logged, outbox, held>>
    BY <1>6, <1>17 DEF Restart
  <2>2. CASE backend = "postgres"
    <3>1. UNCHANGED telemetry
      BY <1>17, <2>2 DEF Restart, Rebuilt
    <3> QED BY <1>0, <2>1, <3>1
  <2>3. CASE backend # "postgres"
    <3>1. shown' \in SUBSET logged
      BY <1>17, <2>3 DEF Restart, Rebuilt, Hydrated, WrittenInOrder
    <3> QED BY <1>5, <2>1, <2>3, <3>1
  <2> QED BY <2>2, <2>3
<1> QED BY <1>8, <1>9, <1>10, <1>11, <1>12, <1>13, <1>14, <1>15, <1>16, <1>17 DEF Next, HandlerStep, Promise!Next

\* A report is acknowledged only when it is in the audit log, the telemetry store
\* and the domain outbox, written in that order, through failed and torn writes,
\* rotations of the log, late answers and restarts; and only a store in memory
\* forgets, as the process starts: the refinement of ReportReceipt.
THEOREM PromiseKeptHolds == Spec => PromiseKept
<1>1. Init => WrittenInOrder /\ Promise!Init
  BY DEF Init, WrittenInOrder, Audited, Promise!Init
<1> QED BY <1>1, PromiseStep, WrittenNext, TypeInit, TypeNext, PTL DEF Spec, PromiseKept, Promise!Spec
-----------------------------------------------------------------------------
(* The receipts are bounded.                                                *)

\* The larger of two numbers.
LEMMA MaxOfTwo ==
  ASSUME NEW a \in Nat, NEW b \in Nat
  PROVE  Max({a, b}) \in Nat /\ a <= Max({a, b}) /\ b <= Max({a, b})
BY DEF Max

\* The eviction drops what is over the bound, or everything that may go.
LEMMA EvictedCount ==
  ASSUME NEW t, NEW q \in Seq(Slots)
  PROVE  LET busy == {i \in DOMAIN q : InFlight(t, q[i])}
             rest == DOMAIN q \ Evicted(t, q)
         IN  IsFiniteSet(busy) /\ (Cardinality(rest) <= MaxSeen \/ rest = busy)
<1> DEFINE free == {i \in DOMAIN q : ~InFlight(t, q[i])}
           busy == {i \in DOMAIN q : InFlight(t, q[i])}
           gone == Evicted(t, q)
           rest == DOMAIN q \ gone
           over == Len(q) - MaxSeen
<1> SUFFICES IsFiniteSet(busy) /\ (Cardinality(rest) <= MaxSeen \/ rest = busy)
  OBVIOUS
<1>1. DOMAIN q = 1 .. Len(q) /\ Len(q) \in Nat /\ MaxSeen \in Nat
  BY IngestAssumption
<1>2. IsFiniteSet(DOMAIN q) /\ Cardinality(DOMAIN q) = Len(q)
  <2>1. /\ IsFiniteSet(1 .. Len(q))
        /\ Cardinality(1 .. Len(q)) = IF 1 > Len(q) THEN 0 ELSE Len(q) - 1 + 1
    BY <1>1, FS_Interval
  <2>2. Cardinality(1 .. Len(q)) = Len(q)
    BY <1>1, <2>1
  <2> QED BY <1>1, <2>1, <2>2
<1>3. IsFiniteSet(free) /\ IsFiniteSet(busy) /\ free \in SUBSET Nat
  BY <1>1, <1>2, FS_Subset
<1>4. gone = {i \in free : Rank(free, i) + MaxSeen <= Len(q)}
  BY DEF Evicted
<1> HIDE DEF free, gone
<1>5. Cardinality(free) \in Nat
  BY <1>3, FS_CardinalityType
<1>6. \A i \in free : Rank(free, i) \in Nat
  BY <1>3, <1>5, NthMember
<1>7. CASE Len(q) <= MaxSeen
  <2>1. Cardinality(rest) <= Cardinality(DOMAIN q)
    BY <1>2, FS_Subset
  <2>2. IsFiniteSet(rest)
    BY <1>2, FS_Subset
  <2>3. Cardinality(rest) \in Nat
    BY <2>2, FS_CardinalityType
  <2> QED BY <1>1, <1>2, <1>3, <1>7, <2>1, <2>3
<1>8. CASE ~(Len(q) <= MaxSeen)
  <2>1. over \in Nat
    BY <1>1, <1>8
  <2>2. gone = {i \in free : Rank(free, i) <= over}
    BY <1>1, <1>4, <1>6
  <2>3. CASE over <= Cardinality(free)
    <3>1. Cardinality(gone) = over
      BY <1>3, <2>1, <2>2, <2>3, RankCount
    <3>2. DOMAIN q \cap gone = gone
      BY <2>2 DEF free
    <3>3. Cardinality(rest) = Cardinality(DOMAIN q) - Cardinality(gone)
      <4>1. Cardinality(DOMAIN q \ gone) = Cardinality(DOMAIN q) - Cardinality(DOMAIN q \cap gone)
        BY <1>2, FS_Difference
      <4> QED BY <3>2, <4>1
    <3>4. Cardinality(rest) = MaxSeen
      BY <1>1, <1>2, <3>1, <3>3
    <3> HIDE DEF rest, busy
    <3> QED BY <1>1, <1>3, <3>4
  <2>4. CASE ~(over <= Cardinality(free))
    <3>1. \A i \in free : Rank(free, i) <= over
      <4>1. \A i \in free : Rank(free, i) \in 1 .. Cardinality(free)
        BY <1>3, NthMember
      <4> QED BY <1>5, <2>1, <2>4, <4>1
    <3>2. gone = free
      BY <2>2, <3>1
    <3>3. rest = busy
      BY <3>2 DEF free
    <3> QED BY <1>3, <3>3
  <2> QED BY <2>3, <2>4
<1> QED BY <1>7, <1>8 DEF gone

\* The queue holds a generation once, and every receipt is in it: the
\* strengthening of ReceiptsAreBounded.
QueueInv ==
  /\ \A i, j \in DOMAIN order : order[i].gen = order[j].gen => i = j
  /\ ReceiptsAreBounded

\* A reservation keeps the queue within the bound.
LEMMA QueueReserve ==
  ASSUME TypeOK, QueueInv, NEW r \in Requests, NEW k \in Keys, k \notin DOMAIN ids,
         Reserve(r, k), NoOrphanedReceipt'
  PROVE  QueueInv'
<1> DEFINE g    == FreshGen
           t    == [x \in DOMAIN ids \cup {k} |->
                      IF x = k THEN [gen |-> g, committed |-> FALSE] ELSE ids[x]]
           new  == [key |-> k, gen |-> g]
           q    == Append(order, new)
           gone == Evicted(t, q)
           rest == DOMAIN q \ gone
           lost == {q[i].key : i \in {j \in gone : Live(t, q[j])}}
<1>1. g \in Nat /\ \A i \in DOMAIN order : order[i].gen # g
  BY FreshGenIsFresh
<1>2. ids' = Forget(t, q, gone) /\ order' = Keep(q, gone)
  BY DEF Reserve
<1> HIDE DEF g
<1>3. new \in Slots /\ order \in Seq(Slots)
  BY <1>1 DEF TypeOK, Slots
<1>4. new.key = k /\ new.gen = g
  OBVIOUS
<1> HIDE DEF new
<1>5. /\ q \in Seq(Slots) /\ DOMAIN q = 1 .. Len(order) + 1 /\ q[Len(order) + 1] = new
      /\ Len(order) \in Nat /\ DOMAIN order = 1 .. Len(order)
      /\ \A i \in DOMAIN order : q[i] = order[i]
  BY <1>3
<1>6. /\ DOMAIN t = DOMAIN ids \cup {k} /\ t[k].gen = g
      /\ \A x \in DOMAIN ids : t[x] = ids[x]
  OBVIOUS
<1> HIDE DEF t, q
<1>7. \A i, j \in DOMAIN q : q[i].gen = q[j].gen => i = j
  <2>1. \A i \in DOMAIN q : i \in DOMAIN order \/ i = Len(order) + 1
    BY <1>5
  <2> QED BY <1>1, <1>4, <1>5, <2>1 DEF QueueInv
<1>8. \A x \in DOMAIN t : \E i \in DOMAIN q : q[i].key = x /\ q[i].gen = t[x].gen
  <2>1. ASSUME NEW x \in DOMAIN ids PROVE \E i \in DOMAIN q : q[i].key = x /\ q[i].gen = t[x].gen
    <3>1. PICK i \in DOMAIN order : Live(ids, order[i]) /\ order[i].key = x
      BY DEF QueueInv, ReceiptsAreBounded
    <3>2. i \in DOMAIN q /\ q[i] = order[i]
      BY <1>5
    <3> QED BY <1>6, <3>1, <3>2 DEF Live
  <2>2. Len(order) + 1 \in DOMAIN q
    BY <1>5
  <2> QED BY <1>4, <1>5, <1>6, <2>1, <2>2
<1>9. ids' = [x \in DOMAIN t \ lost |-> t[x]]
  BY <1>2 DEF Forget, Restrict
<1>10. \A i \in gone : i \in DOMAIN q /\ ~InFlight(t, q[i])
  BY DEF Evicted
<1>11. IsFiniteSet({i \in DOMAIN q : InFlight(t, q[i])})
       /\ (Cardinality(rest) <= MaxSeen \/ rest = {i \in DOMAIN q : InFlight(t, q[i])})
  BY <1>5, EvictedCount
<1> HIDE DEF gone
<1>12. /\ order' \in Seq(Slots) /\ Len(order') = Cardinality(rest)
       /\ \A m \in DOMAIN order' : Nth(rest, m) \in rest /\ order'[m] = q[Nth(rest, m)]
       /\ \A l, m \in DOMAIN order' : Nth(rest, l) = Nth(rest, m) => l = m
       /\ \A i \in rest : \E m \in DOMAIN order' : order'[m] = q[i]
  <2>1. q \in Seq(Slots)
    BY <1>5
  <2>2. order' = Keep(q, gone)
    BY <1>2
  <2>3. /\ Keep(q, gone) \in Seq(Slots) /\ Len(Keep(q, gone)) = Cardinality(rest)
        /\ \A m \in DOMAIN Keep(q, gone) : Nth(rest, m) \in rest /\ Keep(q, gone)[m] = q[Nth(rest, m)]
        /\ \A l, m \in DOMAIN Keep(q, gone) : Nth(rest, l) = Nth(rest, m) => l = m
        /\ \A i \in rest : \E m \in DOMAIN Keep(q, gone) : Keep(q, gone)[m] = q[i]
    BY <2>1, KeepQueue, Zenon
  <2> HIDE DEF rest
  <2> QED BY <2>2, <2>3, Zenon
<1>13. \A i, j \in DOMAIN order' : order'[i].gen = order'[j].gen => i = j
  <2> SUFFICES ASSUME NEW i \in DOMAIN order', NEW j \in DOMAIN order', order'[i].gen = order'[j].gen
               PROVE  i = j
    OBVIOUS
  <2>1. /\ Nth(rest, i) \in DOMAIN q /\ order'[i] = q[Nth(rest, i)]
        /\ Nth(rest, j) \in DOMAIN q /\ order'[j] = q[Nth(rest, j)]
    BY <1>12
  <2>2. Nth(rest, i) = Nth(rest, j)
    BY <1>7, <2>1
  <2> QED BY <1>12, <2>2
<1>14. ASSUME NEW x \in DOMAIN ids'
       PROVE  \E m \in DOMAIN order' : Live(ids', order'[m]) /\ order'[m].key = x
  <2>1. x \in DOMAIN t /\ x \notin lost /\ ids'[x] = t[x]
    BY <1>9
  <2>2. PICK i \in DOMAIN q : q[i].key = x /\ q[i].gen = t[x].gen
    BY <1>8, <2>1
  <2>3. i \in rest
    BY <2>1, <2>2 DEF Live
  <2>4. PICK m \in DOMAIN order' : order'[m] = q[i]
    BY <1>12, <2>3
  <2> QED BY <2>1, <2>2, <2>4 DEF Live
<1>15. Len(order') <= Max({MaxSeen, Cardinality(Requests)})
  <2>0. MaxSeen \in Nat /\ Cardinality(Requests) \in Nat /\ IsFiniteSet(Requests)
    BY IngestAssumption, FS_CardinalityType
  <2>1. Len(order') \in Nat
    BY <1>12
  <2>2. CASE Cardinality(rest) <= MaxSeen
    BY <1>12, <2>0, <2>1, <2>2, MaxOfTwo
  <2>3. CASE rest = {i \in DOMAIN q : InFlight(t, q[i])}
    <3>1. ASSUME NEW i \in rest PROVE \E s \in Requests : receipt'[s] = q[i].gen
      <4>1. q[i].key \in DOMAIN t /\ t[q[i].key].gen = q[i].gen /\ ~t[q[i].key].committed
        BY <2>3 DEF InFlight, Live
      <4>2. q[i].key \notin lost
        <5> SUFFICES ASSUME NEW j \in gone, Live(t, q[j]), q[j].key = q[i].key PROVE FALSE
          OBVIOUS
        <5> QED BY <1>10, <4>1 DEF InFlight, Live
      <4>3. q[i].key \in DOMAIN ids' /\ ids'[q[i].key] = t[q[i].key]
        BY <1>9, <4>1, <4>2
      <4> QED BY <4>1, <4>3 DEF NoOrphanedReceipt
    <3> DEFINE f == [i \in rest |-> CHOOSE s \in Requests : receipt'[s] = q[i].gen]
    <3>2. f \in [rest -> Requests] /\ \A i \in rest : receipt'[f[i]] = q[i].gen
      BY <3>1
    <3> HIDE DEF f
    <3>3. \A i, j \in rest : f[i] = f[j] => i = j
      BY <1>7, <3>2
    <3>4. f \in Injection(rest, Requests)
      BY <3>2, <3>3 DEF Injection, IsInjective
    <3>5. Cardinality(rest) <= Cardinality(Requests)
      BY <2>0, <3>4, FS_Injection
    <3> QED BY <1>12, <2>0, <2>1, <3>5, MaxOfTwo
  <2> QED BY <1>11, <2>2, <2>3
<1> QED BY <1>13, <1>14, <1>15 DEF QueueInv, ReceiptsAreBounded

\* Every step keeps the queue within the bound and every receipt in it.
LEMMA QueueNext ==
  ASSUME TypeOK, QueueInv, NoOrphanedReceipt', [Next]_vars
  PROVE  QueueInv'
<1> USE DEF table, handler, stores, device
<1>1. ASSUME UNCHANGED order, \A k \in DOMAIN ids' : k \in DOMAIN ids /\ ids'[k].gen = ids[k].gen
      PROVE  QueueInv'
  BY <1>1 DEF QueueInv, ReceiptsAreBounded, Live
<1>2. CASE UNCHANGED vars
  BY <1>1, <1>2 DEF vars
<1>3. ASSUME NEW k \in Keys, DropsGrow(k) PROVE QueueInv'
  BY <1>1, <1>3 DEF DropsGrow
<1>4. ASSUME NEW k \in Keys, NEW r \in Requests, Deliver(r, k) PROVE QueueInv'
  BY <1>1, <1>4, QueueReserve DEF Deliver
<1>5. ASSUME NEW r \in Requests, AppendAudit(r) \/ RecordUpdate(r) \/ AppendDomainEvent(r) PROVE QueueInv'
  BY <1>1, <1>5 DEF AppendAudit, RecordUpdate, AppendDomainEvent
<1>6. ASSUME NEW r \in Requests, Accept(r) PROVE QueueInv'
  <2>1. \A k \in DOMAIN ids' : k \in DOMAIN ids /\ ids'[k].gen = ids[k].gen
    BY <1>6 DEF Accept, Commit, TypeOK, Receipts
  <2> QED BY <1>1, <1>6, <2>1 DEF Accept
<1>7. ASSUME NEW r \in Requests, Release(r) PROVE QueueInv'
  <2>1. \A k \in DOMAIN ids' : k \in DOMAIN ids /\ ids'[k] = ids[k]
    BY <1>7 DEF Release, Restrict
  <2> QED BY <1>1, <1>7, <2>1 DEF Release
<1>8. CASE Restart
  <2>1. DOMAIN ids' = {} /\ Len(order') = 0 /\ DOMAIN order' = {}
    BY <1>8 DEF Restart
  <2>2. 0 <= Max({MaxSeen, Cardinality(Requests)})
    BY IngestAssumption, FS_CardinalityType, MaxOfTwo
  <2> QED BY <2>1, <2>2 DEF QueueInv, ReceiptsAreBounded
<1>9. CASE Rotate
  BY <1>1, <1>9 DEF Rotate
<1> QED BY <1>2, <1>3, <1>4, <1>5, <1>6, <1>7, <1>8, <1>9 DEF Next, HandlerStep

\* However many reports arrive and fail, the receipts stay within
\* seenAgentUpdateEventsMax or within the number of requests at work, and every
\* receipt is in the queue that can drop it.
THEOREM ReceiptsAreBoundedHolds == Spec => []ReceiptsAreBounded
<1>1. Init => QueueInv
  <2> SUFFICES ASSUME Init PROVE QueueInv
    OBVIOUS
  <2>1. DOMAIN ids = {} /\ Len(order) = 0 /\ DOMAIN order = {}
    BY DEF Init
  <2>2. 0 <= Max({MaxSeen, Cardinality(Requests)})
    BY IngestAssumption, FS_CardinalityType, MaxOfTwo
  <2> QED BY <2>1, <2>2 DEF QueueInv, ReceiptsAreBounded
<1>2. ReceiptInv => NoOrphanedReceipt
  BY DEF ReceiptInv
<1>3. QueueInv => ReceiptsAreBounded
  BY DEF QueueInv
<1> QED BY <1>1, <1>2, <1>3, QueueNext, ReceiptInit, ReceiptNext, TypeInit, TypeNext, PTL DEF Spec
===============================================================================

----------------------------- MODULE UpdateIngest -----------------------------
(***************************************************************************)
(* The Edge's ingest of update reports: POST /devices/{id}/agent-update    *)
(* (cmd/dsse-edge/main.go) with the receipts of connector_runtime.go.      *)
(*                                                                         *)
(* A request reserves the event, appends it to the audit log, records it   *)
(* in the telemetry store, appends the domain event, commits the receipt   *)
(* and answers.  Requests run at the same time; a device that hears nothing *)
(* sends again while its first request is still at work; the receipts are  *)
(* bounded and in memory, and a restart forgets them.                      *)
(*                                                                         *)
(* An event is its key (tenant, device, id).  Its contents differ between  *)
(* two deliveries only in the number of dropped reports it declares.       *)
(***************************************************************************)
EXTENDS Naturals, FiniteSets, Sequences, FiniteSetsExt, Functions, Ranks

CONSTANTS
  Keys,        \* the events, each its device's oldest
  Requests,    \* handlers that may be at work at once
  None,
  Backends,    \* the telemetry store: "memory" or "postgres"
  MaxSeen,     \* seenAgentUpdateEventsMax
  FaultKinds,  \* what may go wrong
  MaxFaults,   \* bound: how many things go wrong in one behaviour
  MaxDrops     \* bound: how often a device's drop count grows

ASSUME IngestAssumption ==
  /\ IsFiniteSet(Keys) /\ IsFiniteSet(Requests)
  /\ None \notin Keys \cup Requests
  /\ Backends \subseteq {"memory", "postgres"}
  /\ MaxSeen \in Nat \ {0} /\ MaxFaults \in Nat /\ MaxDrops \in Nat

VARIABLES
  backend,    \* the store this Edge is configured with
  ids,        \* seenAgentUpdateEvents.ids: key -> receipt
  order,      \* seenAgentUpdateEvents.order: the eviction queue
  pc,         \* where each handler is
  event,      \* handler: the event and the drop count it carries
  receipt,    \* handler: the generation of its reservation
  audit,      \* audit.log.jsonl: key -> its lines, and what its first in the live file says
  torn,       \* the live file has a row that cannot be decoded
  telemetry,  \* the store: key -> the drop count recorded
  outbox,     \* the domain event outbox
  held,       \* the events their devices still hold
  waiting,    \* device: the request it awaits an answer from
  drops,      \* device: the drop count the next delivery declares
  forgotten,  \* history: events whose receipt was lost after an audit line
  faults

table == <<ids, order>>
handler == <<event, receipt>>
stores == <<audit, torn, telemetry, outbox>>
device == <<held, waiting, drops>>

vars == <<backend, table, pc, handler, stores, device, forgotten, faults>>

PCs == {"idle", "audit", "telemetry", "domain", "commit", "release"}

\* The steps at which a request is recording its event.
Writing == {"audit", "telemetry", "domain", "commit"}

Counts == 0 .. MaxDrops

Events == [key : Keys, drops : Counts]

\* A receipt, and an entry of the eviction queue.
Receipts == [gen : Nat, committed : BOOLEAN]

Slots == [key : Keys, gen : Nat]

\* Bound: a third line is not told from a second.
MaxLines == 2

TypeOK ==
  /\ backend \in Backends
  /\ DOMAIN ids \subseteq Keys /\ ids \in [DOMAIN ids -> Receipts]
  /\ order \in Seq(Slots)
  /\ pc \in [Requests -> PCs]
  /\ event \in [Requests -> Events \cup {None}] /\ receipt \in [Requests -> Nat \cup {None}]
  /\ \A r \in Requests : pc[r] # "idle" => event[r] \in Events /\ receipt[r] \in Nat
  /\ audit \in [Keys -> [lines : 0 .. MaxLines, first : Counts \cup {None}]] /\ torn \in BOOLEAN
  /\ DOMAIN telemetry \subseteq Keys /\ telemetry \in [DOMAIN telemetry -> Counts]
  /\ outbox \subseteq Keys /\ held \subseteq Keys /\ forgotten \subseteq Keys
  /\ waiting \in [Keys -> Requests \cup {None}]
  /\ drops \in [Keys -> Counts]
  /\ faults \in 0 .. MaxFaults

Init ==
  /\ backend \in Backends
  /\ ids = << >> /\ order = << >>
  /\ pc = [r \in Requests |-> "idle"]
  /\ event = [r \in Requests |-> None] /\ receipt = [r \in Requests |-> None]
  /\ audit = [k \in Keys |-> [lines |-> 0, first |-> None]] /\ torn = FALSE
  /\ telemetry = << >> /\ outbox = {}
  /\ held = Keys /\ waiting = [k \in Keys |-> None] /\ drops = [k \in Keys |-> 0]
  /\ forgotten = {}
  /\ faults = 0

-----------------------------------------------------------------------------
Fault(kind) == kind \in FaultKinds /\ faults < MaxFaults /\ faults' = faults + 1

Go(r, l) == pc' = [pc EXCEPT ![r] = l]

Return(r) ==
  /\ Go(r, "idle")
  /\ event' = [event EXCEPT ![r] = None]
  /\ receipt' = [receipt EXCEPT ![r] = None]

(* Receipts.                                                                *)

\* Entry e of the queue stands for the receipt table t holds under its key.
Live(t, e) == e.key \in DOMAIN t /\ t[e.key].gen = e.gen

InFlight(t, e) == Live(t, e) /\ ~t[e.key].committed

\* Mutant: the scan stops at the first request still writing.
Evicted_StopsAtInFlight(t, q) ==
  {i \in 1 .. (Len(q) - MaxSeen) : \A j \in 1 .. i : ~InFlight(t, q[j])}

\* The entries reserve drops: the oldest ones over the bound, passing over those
\* still being written.
Evicted(t, q) ==
  LET free == {i \in DOMAIN q : ~InFlight(t, q[i])}
  IN  {i \in free : Rank(free, i) + MaxSeen <= Len(q)}

\* Mutant: an entry left by a released reservation takes the live one with it.
Forget_Stale(t, q, gone) == Restrict(t, DOMAIN t \ {q[i].key : i \in gone})

Forget(t, q, gone) == Restrict(t, DOMAIN t \ {q[i].key : i \in {j \in gone : Live(t, q[j])}})

\* The rest of the queue, in its order.
Keep(q, gone) ==
  LET rest == DOMAIN q \ gone IN [m \in 1 .. Cardinality(rest) |-> q[Nth(rest, m)]]

\* Generations are only compared for equality: the next value of the counter is
\* one that no receipt, queue entry or handler has.
FreshGen ==
  LET used == {ids[k].gen : k \in DOMAIN ids} \cup {order[i].gen : i \in DOMAIN order}
                \cup {receipt[r] : r \in Requests}
  IN  CHOOSE g \in 1 .. Cardinality(used) + 1 : g \notin used

\* The receipt of an event nobody holds.
Reserve(r, k) ==
  LET g    == FreshGen
      t    == [x \in DOMAIN ids \cup {k} |->
                 IF x = k THEN [gen |-> g, committed |-> FALSE] ELSE ids[x]]
      q    == Append(order, [key |-> k, gen |-> g])
      gone == Evicted(t, q)
  IN  /\ ids' = Forget(t, q, gone)
      /\ order' = Keep(q, gone)
      /\ receipt' = [receipt EXCEPT ![r] = g]
      /\ forgotten' = forgotten \cup (DOMAIN t \ DOMAIN ids')

\* Mutant: a request that is done gives its receipt back.
Commit_Drops(r) == ids' = Restrict(ids, DOMAIN ids \ {event[r].key})

Commit(r) ==
  LET k == event[r].key IN
  ids' = IF Live(ids, [key |-> k, gen |-> receipt[r]])
         THEN [ids EXCEPT ![k].committed = TRUE] ELSE ids

-----------------------------------------------------------------------------
(* The device.                                                              *)

\* The answer reaches the device if it is still waiting for this one.
Answered(r, k, accepted) ==
  /\ waiting' = [waiting EXCEPT ![k] = IF @ = r THEN None ELSE @]
  /\ held' = IF accepted /\ waiting[k] = r THEN held \ {k} ELSE held

\* More reports were pruned behind this one: it will declare a higher count.
DropsGrow(k) ==
  /\ k \in held /\ waiting[k] = None
  /\ drops[k] < MaxDrops
  /\ drops' = [drops EXCEPT ![k] = @ + 1]
  /\ UNCHANGED <<backend, table, pc, handler, stores, held, waiting, forgotten, faults>>

-----------------------------------------------------------------------------
(* The handler.                                                             *)

\* A delivery, the first or one more, up to the reservation.  An event already
\* committed is acknowledged, one in another request's hands is refused.
Deliver(r, k) ==
  /\ pc[r] = "idle" /\ k \in held
  /\ IF waiting[k] = None THEN UNCHANGED faults ELSE Fault("timeout")
  /\ IF k \in DOMAIN ids
     THEN /\ waiting' = [waiting EXCEPT ![k] = None]
          /\ held' = IF ids[k].committed THEN held \ {k} ELSE held
          /\ UNCHANGED <<table, pc, handler, forgotten>>
     ELSE /\ Reserve(r, k)
          /\ event' = [event EXCEPT ![r] = [key |-> k, drops |-> drops[k]]]
          /\ waiting' = [waiting EXCEPT ![k] = r]
          /\ Go(r, "audit")
          /\ UNCHANGED held
  /\ UNCHANGED <<backend, stores, drops>>

\* The step did not record the event: 500, and the reservation is released as
\* the handler returns.
Refuse(r) ==
  /\ Answered(r, event[r].key, FALSE)
  /\ Go(r, "release")

\* The log with one more line, which says e.
Logged(e) ==
  [audit EXCEPT ![e.key] = [lines |-> Min({@.lines + 1, MaxLines}),
                            first |-> IF @.first = None THEN e.drops ELSE @.first]]

\* Writer.Append.  One that fails has written nothing, part of a row, or all of
\* it (the rotation or the hook after the write failed).
AppendAudit(r) ==
  /\ pc[r] = "audit"
  /\ \/ /\ audit' = Logged(event[r])
        /\ Go(r, "telemetry")
        /\ UNCHANGED <<torn, held, waiting, faults>>
     \/ /\ Fault("audit")
        /\ Refuse(r)
        /\ \/ torn' \in {torn, TRUE} /\ UNCHANGED audit
           \/ audit' = Logged(event[r]) /\ UNCHANGED torn
  /\ UNCHANGED <<backend, table, handler, telemetry, outbox, drops, forgotten>>

\* rotateLocked: an append, of this record or another, has filled the live file
\* and moves it to the backups.
Rotate ==
  /\ Fault("rotate")
  /\ audit' = [k \in Keys |-> [audit[k] EXCEPT !.first = None]]
  /\ torn' = FALSE
  /\ UNCHANGED <<backend, table, pc, handler, telemetry, outbox, device, forgotten>>

\* Mutant: the store in memory refuses an event it holds.
Recordable_Strict(k, d) == k \in DOMAIN telemetry => backend # "memory"

\* RecordUpdate: the stores keep the first copy of an event.  The one in memory
\* refuses a copy that is not the same, the one in Postgres ignores it.
Recordable(k, d) == k \in DOMAIN telemetry /\ backend = "memory" => telemetry[k] = d

RecordUpdate(r) ==
  /\ pc[r] = "telemetry"
  /\ LET k == event[r].key IN
     \/ /\ Recordable(k, event[r].drops)
        /\ telemetry' = [x \in DOMAIN telemetry \cup {k} |->
                           IF x \in DOMAIN telemetry THEN telemetry[x] ELSE event[r].drops]
        /\ Go(r, "domain")
        /\ UNCHANGED <<held, waiting, faults>>
     \/ /\ \/ ~Recordable(k, event[r].drops) /\ UNCHANGED faults
           \/ Fault("telemetry")
        /\ Refuse(r)
        /\ UNCHANGED telemetry
  /\ UNCHANGED <<backend, table, handler, audit, torn, outbox, drops, forgotten>>

\* Mutant: the domain event is written best-effort.
AppendDomainEvent_BestEffort(r) ==
  /\ pc[r] = "domain"
  /\ \/ outbox' = outbox \cup {event[r].key} /\ UNCHANGED faults
     \/ Fault("domain") /\ UNCHANGED outbox
  /\ Go(r, "commit")
  /\ UNCHANGED <<backend, table, handler, audit, torn, telemetry, device, forgotten>>

\* appendAgentUpdateDomainEventErr; a repeated event is the row already there.
AppendDomainEvent(r) ==
  /\ pc[r] = "domain"
  /\ \/ /\ outbox' = outbox \cup {event[r].key}
        /\ Go(r, "commit")
        /\ UNCHANGED <<held, waiting, faults>>
     \/ /\ Fault("domain")
        /\ Refuse(r)
        /\ UNCHANGED outbox
  /\ UNCHANGED <<backend, table, handler, audit, torn, telemetry, drops, forgotten>>

\* The receipt is committed, and only then is the event acknowledged.
Accept(r) ==
  /\ pc[r] = "commit"
  /\ Commit(r)
  /\ Answered(r, event[r].key, TRUE)
  /\ Return(r)
  /\ UNCHANGED <<backend, order, stores, drops, forgotten, faults>>

\* Mutant: a request that failed keeps its reservation.
Release_Never(r) ==
  /\ pc[r] = "release"
  /\ Return(r)
  /\ UNCHANGED <<backend, table, stores, device, forgotten, faults>>

\* The deferred release, after the answer has gone out.  The queue entry stays.
Release(r) ==
  /\ pc[r] = "release"
  /\ LET k == event[r].key IN
     /\ ids' = IF InFlight(ids, [key |-> k, gen |-> receipt[r]])
               THEN Restrict(ids, DOMAIN ids \ {k}) ELSE ids
     /\ forgotten' = forgotten \cup {k}
  /\ Return(r)
  /\ UNCHANGED <<backend, order, stores, device, faults>>

\* hydrateAgentUpdateTelemetry: the first line of each event in the live file.
\* The backups are not read.
Hydrated == [k \in {x \in Keys : audit[x].first # None} |-> audit[k].first]

\* The telemetry store as the process starts: one in memory is rebuilt from the
\* log, or is empty if any row of the log cannot be read.
Rebuilt(readable) ==
  IF backend = "postgres" THEN telemetry
  ELSE IF readable THEN Hydrated ELSE << >>

\* The process ends and starts again: its requests and its receipts are gone.
Restart ==
  /\ Fault("restart")
  /\ ids' = << >> /\ order' = << >>
  /\ pc' = [r \in Requests |-> "idle"]
  /\ event' = [r \in Requests |-> None] /\ receipt' = [r \in Requests |-> None]
  /\ waiting' = [k \in Keys |-> None]
  /\ \E readable \in {~torn, FALSE} : telemetry' = Rebuilt(readable)
  /\ forgotten' = Keys
  /\ UNCHANGED <<backend, audit, torn, outbox, held, drops>>

-----------------------------------------------------------------------------
HandlerStep(r) ==
  \/ AppendAudit(r) \/ RecordUpdate(r) \/ AppendDomainEvent(r) \/ Accept(r) \/ Release(r)

Next ==
  \/ \E k \in Keys : DropsGrow(k)
  \/ \E k \in Keys, r \in Requests : Deliver(r, k)
  \/ \E r \in Requests : HandlerStep(r)
  \/ Rotate
  \/ Restart

Spec == Init /\ [][Next]_vars

-----------------------------------------------------------------------------
(* Properties.                                                              *)

\* A request that is recording an event holds its receipt, uncommitted: nothing
\* the eviction scan or a stale queue entry does takes it away, so no second
\* request records the same event at the same time.
WriterHoldsReceipt ==
  \A r \in Requests : pc[r] \in Writing =>
    InFlight(ids, [key |-> event[r].key, gen |-> receipt[r]])

\* The receipts stay within the cap or within what is in flight, and every one
\* of them is in the queue that can drop it.
ReceiptsAreBounded ==
  /\ Len(order) <= Max({MaxSeen, Cardinality(Requests)})
  /\ \A k \in DOMAIN ids : \E i \in DOMAIN order : Live(ids, order[i]) /\ order[i].key = k

\* An event is audited twice only after its receipt was lost to a failure, to
\* the cap or to a restart.
AuditedOnce == \A k \in Keys : audit[k].lines > 1 => k \in forgotten

Audited(k) == audit[k].lines > 0

\* A report is acknowledged only when it is in the audit log, in the telemetry
\* store and in the domain outbox, each written before the next; none of the
\* three forgets it, but for a store in memory when the process starts again.
Promise == INSTANCE ReportReceipt WITH
  logged <- {k \in Keys : Audited(k)},
  shown  <- DOMAIN telemetry,
  told   <- outbox,
  taken  <- Keys \ held,
  kept   <- backend = "postgres"

PromiseKept == Promise!Spec

\* A store in memory starts with every outcome on the log or with none: the
\* comment on hydrateAgentUpdateTelemetry says it does not present a partial
\* history as a complete one.
HistoryIsWhole ==
  [][Restart /\ backend = "memory" /\ DOMAIN telemetry' # {}
       => \A k \in Keys : Audited(k) => k \in DOMAIN telemetry']_vars

\* No event is left that no request can record: an uncommitted receipt has a
\* request behind it that will commit or release it.
NoOrphanedReceipt ==
  \A k \in DOMAIN ids : ~ids[k].committed =>
    \E r \in Requests : /\ pc[r] # "idle" /\ event[r].key = k
                        /\ receipt[r] = ids[k].gen

\* A report repeated as it was first sent is taken, whatever part of it an
\* earlier delivery recorded before it failed and whatever a restart rebuilt: the
\* store refuses only an event whose contents changed between two deliveries.
UnchangedReportIsTaken ==
  \A r \in Requests :
    pc[r] = "telemetry" /\ drops[event[r].key] = 0 => Recordable(event[r].key, 0)
=============================================================================

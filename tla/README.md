# Formal model of Lantern DSSE

TLA+ modules, TLC configurations and TLAPS proofs for parts of the
`dsse-core` repository. The first part done is the one with the most delicate
sequencing in the repository and the least room for a second try: the
auto-updater of an endpoint agent, which takes a device's network protection
down, hands the machine to an installer that replaces the updater itself, and
has to tell the fleet afterwards what happened. The others follow the same
question into the rest of the fleet: the Edge's ingest of those reports, its
shipping of audit records, the enrolment of devices on several Edges at once,
and the choice of a region to go through.

## 1. Inventory of the system

DSSE is a secure service edge. An **agent** on each endpoint (a macOS network
extension in Swift, a Windows WFP driver with a Go steering service) sends the
device's traffic over mTLS to an **Edge** (`cmd/dsse-edge`), which evaluates
policy, intercepts TLS, applies DLP, SWG and DNS rules, and forwards to the
internet or, through a **connector** and its tunnel, to a private network. The
same binary run as **control plane** owns Postgres, authors configuration, and
serves it to the Edges as signed bundles.

| Part | State it keeps | Operations | Interacts with | What is hard | What makes it correct |
|---|---|---|---|---|---|
| Update journal (`agentupdate/journal.go`, `report_quarantine.go`) | one JSON file per device: phase, target, failures and refusals per version, one pending report, counters | Begin, Enter, RecordFailure, Refuse, RecordSuccess, the pending slot | read and written by every pass | must survive a crash between any two steps; one slot for several outcomes | refusals last; no outcome is lost uncounted |
| Updater pass (`agentupdate/runner.go`, `rollback.go`, `tick.go`, `updateplatform/tick.go`) | device lock, a copy of the journal in memory | Tick (drain, Reconcile, settle, fetch, stage, Run), Rollback | the agent service, the driver's redirect, a detached installer, the operator | several processes; the installer outlives the pass; saves and steps fail separately | one installer; steering back or its loss on record; every attempt closed |
| Report outbox (`agentupdate/report.go`, `steer/update_reports.go`) | a directory of reports, a refusal marker, a drop ledger and its claim | AppendReport, AppendRefusal, prune, claim, drain, release | filled by the updater, emptied by the agent's heartbeat, read by the Edge | two processes on one directory; crash between send and remove; bound | in order, nothing vanishes, drops are declared |
| Edge ingest of reports (`cmd/dsse-edge` agent-updates handler, `agenttelemetry`) | receipts in memory, bounded; telemetry rows, audit log, domain outbox | reserve, audit, record, emit, commit or release | the outbox; Postgres or a store in memory | a retry racing its first delivery; failure between the writes; eviction; restart | acknowledged only when recorded; one writer per event |
| Audit shipping (`cmd/dsse-edge/audit_ship.go`, `audit_ship_spool.go`) | a channel, a queue, its spool file, a refused spool | hook, enqueue, offer, set aside, rotate, back off, compact | the log writer; the control plane | telling a bad record from an outage; crash between spool and queue; full queue | nothing vanishes; one bad record blocks nobody |
| Rollout plan and gate (`agentupdate/rollout.go`, `gate.go`, `plan.go`, `agentrollout`) | plan floor in the journal, waves, windows | evaluate, raise the floor | decides inside Tick | stale plans, windows across midnight, freezes | a device never goes below the floor; a frozen device does not change |
| Stores (`durablefile`, `blobstore`, `grantstore`, `delegatedgrant`, `revocation`) | files with a lock and a generation | load, save, consume | most other parts | unconfirmed saves, two writers | single writer, a grant consumed once |
| Configuration distribution (`configbundle`, `configversion`, `policycache`) | generation and epoch, signed bundle | author, publish, pull, apply | control plane to Edges | restart with an older generation, partial apply | monotone generation within an epoch |
| Enrolment (`enrolltoken`, `enrolledinventory`, `enroll`, `cmd/dsse-edge/enroll_endpoint.go`, `enrolment_cp_report.go`) | tokens, a ledger on every node, the shared claim on an identity, an outbox of reports | spend, claim, record, report; add, disable, remove, permit | PKI, control plane, bundles | two Edges at once, lost answers, a save failing after the claim, late reports and bundles | one certificate per token and per permission; a removal stays |
| PKI (`tenantca`, `transportca`, `deviceca`, `deploymentcrl`, `inspectioncrl`, `certreload`) | keys, CRLs, registry | issue, rotate, withdraw, reload | every TLS listener | rotation while serving | no withdrawn CA is trusted after reload |
| Regional failover (`regionfailover`, the agents' control loop, `cmd/dsse-edge/cp_endpoint_failover.go`) | the allowed list, a sticky choice, strikes; the endpoint in force | probe, evaluate, switch, update the list | agents to Edges, Edges to control planes | flapping, revocation on its way, lists that shrink, switches that fail | a dead endpoint is left, a refused device does not go looking, a working endpoint is used |
| Connectors and tunnels (`connector`, `tunnel`) | sessions, streams | open, close, probe | Edge and private network | half-closed streams, reconnects | no stream outlives its session |
| Decision and data plane (`decision`, `policy`, `interception`, `edgeplane`, `dlp`, `swg`, `dns`) | configuration snapshots, caches | evaluate, inspect | all traffic | size | default deny, no stale allow |
| Logs and export (`hotstore`, `archive`, export queues in `cmd/dsse-edge`) | outbox rows, leases | append, lease, deliver, retry | Postgres, object stores | lease expiry racing delivery | at-least-once |
| Console, installers, drivers | presentation, packaging, kernel | | | | outside this project's reach |

`PROJECT.json` lists every part with its status, and the hazards of the parts
modelled so far, each at its line.

## 2. Plan

Order of work, most important behaviour first.

1. *Done.* `UpdateJournal`, `AgentUpdater`: the pass and the machine.
   `AgentUpdaterProofs`: type correctness, permanence of refusals, steering.
   `ReportOutbox`: the reports directory and the drop ledger.
2. *Done.* `UpdateIngest`: the Edge's handler with both telemetry stores, shown to
   implement `ReportReceipt`, which is what `ReportOutbox!EdgeRecords` assumes.
3. *Done.* `AuditShipper`; `Enrolment`, shown to implement `OneTimeEnrolment`;
   `RegionFailover` with both of its loops.
4. *Done.* Theorems: type correctness of every module; the safety properties of
   `ReportOutbox`, `UpdateIngest`, `AuditShipper`, `Enrolment` and `RegionFailover`;
   the refinements of `ReportReceipt` and `OneTimeEnrolment`; refusals, steering,
   installers and rollbacks of `AgentUpdater`, and what it tells the fleet
   (section 5).
5. `RolloutPlan`: waves, windows, freezes and the plan floor as operators,
   checked against a reference definition, then used by `AgentUpdater!Fetch` and
   `RunGate` in place of the nondeterministic choice.
6. An abstract specification of the updater, "an outcome is owed, then told,
   quarantined or counted", with `AgentUpdater` shown to implement it; and of the
   outbox, an ordered queue that loses only from its old end and says how much.
7. The journals of earlier builds (`LoadJournal`'s conversions,
   `forget_assumed.go`) as additional initial states.
8. Single-writer stores (`blobstore`), delegated grants, configuration
   generations: one module each.

## 3. Modules

### UpdateJournal

The journal as a record and each method of `Journal` that Tick, Run and
Rollback call as a function from journal to journal. No variables.

| TLA+ | Code |
|---|---|
| `Phases`, `InterruptedPhases`, `InFlightPhases` | the `Phase` constants and the two maps beside them |
| `seq` | `TerminalSeq`, moved by `enterTerminal` when a counted phase is entered from another phase |
| `attemptAt`, `inFlight` | `AttemptStartedAt`, `InFlightSince`: `"none"`, `"young"` or `"old"` against `InstallGrace` |
| `Outcome`, `OutcomeFingerprint` | the fingerprint string, as a record |
| `pending`, `quarantined`, `queueFails`, `dropped` | `PendingReport`, `QuarantinedReports`, the queue failure counter, `DroppedOwedOutcomes` |

Versions are positive numbers in the order of `CompareVersions`; build
metadata, which `SameVersion` ignores, is not there. Reasons, names and
timestamps shown to people are left out.

### AgentUpdater

Processes (the service, an operator's command) and the machine they act on.
`disk` is the journal file, `mem[p]` the copy a pass has loaded, `pc[p]` where
the pass is. An action is the code between two effects that survive a crash: a
save, a change of steering, a launch, an append to the outbox.

| Actions | Code |
|---|---|
| `Start`, `Release`, `Crash` | `LockDevice`, `Release`, the process dying (the lock goes with it) |
| `FlushNothing`, `FlushAppended`, `FlushRefused`, `FlushSave` | `flushPendingReport` at its four calls |
| `Reconcile`, `Owed`, `Fetch`, `Stage`, `ReportRun` | `Tick` in its order |
| `RunOutstanding`, `RunRefused`, `RunBegin`, `RunGate` | `Run` up to the hand-over |
| `RecordDisarm`, `Disarm`, `DisarmFails`, `RecordExecute`, `Launch`, `LaunchFails`, `Restore`, `DeferredRearm`, `RecordFailedAttempt` | the hand-over, in `Run` and in `Rollback`, with the deferred `Rearm` |
| `RollbackNothing`, `RollbackBegin` | `Rollback` up to the hand-over |
| `AgentStops`, `AgentStarts`, `InstallerCompletes`, `InstallerAborts`, `TimePasses` | the machine (not in the repository, or not in Go): what the platform code relies on |

A save that fails leaves the old or the new journal on disk: `durablefile.Write`
renames and then flushes the directory. What manifest is offered, whether the
plan freezes the device, whether the gate holds and whether a package can be
staged are free choices. `cause` and `downSeq` are history: why steering is down
and what `TerminalSeq` was when it was taken down. So are three fields of `faults`:
how many crashes, failed saves and dead installers there were (`died`), whether a
save has failed (`unsaved`), and whether an installer was handed over by a pass
that had outlasted `InstallGrace` (`late`). Properties that hold only without these
say so through them (`AllSaved`, `Punctual`), so that a run has the fault and checks
what is left of the property under it.

`TimePasses` is the one assumption about clocks: `InstallGrace` goes by only
when no installer is running (it is chosen longer than an install) and no pass
is under way, except, when `SlowStage` is set, one that is downloading, since
`stageTimeout` is three times `InstallGrace`. What such a pass saves is stamped with
the time it began (`Written`).

### ReportOutbox

The updater and the sender as two processes on one directory. A report is its
id, numbered in the order ids are made. The counts in the ledger, its claim and
in the processes' hands are tallies per report: the number in the file is their
sum, and a drop counted twice cannot hide one counted never.

| Actions | Code |
|---|---|
| `AppendReport`, `AppendUnconfirmed` | `AppendReport`, from `flushPendingReport` or `AppendRefusal` |
| `PruneList`, `PruneRemove`, `PruneDone` | `pruneReports`, one removal at a time; a directory that cannot be listed is left alone (fault `list`), a file that cannot be removed stays uncounted (`stuck`) |
| `LockLedger`, `LockTimesOut`, `ReadAndTruncate`, `WriteLedger`, `WriteLedgerFails` | `addDropped`; `os.WriteFile` truncates before it writes |
| `MarkRefusal`, `ClearRefusal` | the suppression marker |
| `DrainStart`, `Read`, `Send`, `RemoveSent` | `drainUpdateReports`, `DrainReports` |
| `ClaimLock`, `Recover`, `Fold`, `Unclaim`, `Rename`, `ReleaseDropped` | `ClaimDropped`, `recoverDroppedClaimLocked`, `ReleaseDropped`; a claim may be impossible to delete (`unclaim`) and a ledger to rename (`rename`) |
| `Crash`, `Damage` | a process dies and its lock goes with it; a file is damaged |

`EdgeRecords` is the Edge by its effect: a report is recorded when its id is
first seen, with the drop count it carried; a repeated id is acknowledged and
nothing is recorded. That the Edge can be relied on for this, with a table of seen
ids that is in memory and bounded, is what `UpdateIngest` is about; an Edge that
restarted between the two deliveries, and records the second, is not in
`ReportOutbox`.

Every fault carries its harm to a count of drops (`HarmOf`, `CrashHarm`): none,
that it may be counted again, or that it may be lost. `NoSilentGap` and
`EachDropCountsOnce` hold for behaviours with no worse harm than they allow, so
one run has every fault and each property says under which of them it holds.

`Requeued` is the one way an id comes back: the outcome the journal holds is
queued again when the save after its first append failed.

### ReportReceipt, UpdateIngest

`ReportReceipt` is the promise of the Edge to a device: a report is acknowledged
only when it is on the audit log (`logged`), in the fleet view (`shown`) and passed
on downstream (`told`), in that order. The log and what was passed on stay; so does
a fleet view that is kept in Postgres, while one in memory is rebuilt as the process
starts, from the log or any part of it. `UpdateIngest` is the handler, one step per
write, with any number of requests at work, and implements it with the audit log,
the telemetry store and the domain outbox in these places, and `taken` the reports
the device has deleted.

| Actions | Code |
|---|---|
| `Deliver` with `Reserve`, `Evicted`, `Forget` | the handler up to `reserveAgentUpdateEvent`, and its eviction scan |
| `AppendAudit`, `RecordUpdate`, `AppendDomainEvent` | the three writes, each of which may fail |
| `Accept`, `Release` | `commit` and the answer; the deferred `release` after a failure |
| `Rotate` | the live log is full and becomes a backup |
| `Restart` with `Rebuilt`, `Hydrated` | receipts and requests gone; a store in memory is rebuilt from the live log, without the backups, and is empty when the log cannot be read |
| `DropsGrow` | the device prunes more and will declare a higher count with the same report |

Generations are compared for equality only, so `FreshGen` takes an unused
one. A device that gives up waiting sends again while its request is at work
(the fault `timeout`). An append to the log that fails has written nothing, part of
a row, after which the live file cannot be read (`torn`, `logs/jsonl.go:641-645`),
or all of it. Lines in backups count as logged: the log is rotated at 128 MiB
(`main.go:1068`) and the oldest of more than ten backups goes, which is its
retention and not modelled.

### AuditShipper

The goroutine `run` with its channel, queue and two files; the control plane by
its answers. `bad` is the set of records it will refuse for good, `channel`
whether it answers, refuses everything (a certificate or token it does not know)
or is away.

| Actions | Code |
|---|---|
| `Log`, `Enqueue` | the log hook, which never blocks; the move into queue and spool, with the drop of the oldest when full |
| `Shipped`, `SetAside`, `Rotate`, `BackOff`, `TimerFires` | one pass of the loop over the head of the queue |
| `Compact`, `MaybeCompact` | the rewriting of the spool, which may fail, and may leave the file closed |
| `DiskFails`, `DiskRecovers` | while the disk is `failing`, any write may fail, and the code goes on as if it had not |
| `Crash`, `Stop`, `Start` | a restart replays the spool; a stop drains the channel first |

`unwritten` are queued records whose line is not in the spool, `unfiled` those set
aside whose line is not in the refused spool. `dropped` is the counter of one process
by what it counts: when the process ends, the count and the records that were in
memory only become `lost`.

The watermark (`shippedWhenHeadFirstRefused`) is kept as the outcome of the
comparison it is for: none, refused, or refused and followed by a success.

### OneTimeEnrolment, Enrolment

`OneTimeEnrolment` allows an identity one certificate and one more per permission
to enrol again. `Enrolment` has the control plane's ledger and one on each Edge,
the tokens, the claim on an identity that all issuers share, requests under way,
and the reports and bundles that carry the two ledgers to each other, and
implements it with the certificates answered and the permissions given.

| Actions | Code |
|---|---|
| `Assign`, `Spend`, `SignFails`, `Claim`, `Persist`, `ReleaseFails`, `Report` | `POST /enroll` in its order: refusals before anything is spent, the token, the signature, the claim and the ledger under one mutex, the report |
| `Drain` | the reporter's outbox |
| `PreAdd`, `SetEnabled`, `RemoveChecked`, `AllowReenrolment`, `RevokeToken` | the administrator |
| `FetchBundle`, `ApplyBundle`, `Poll` | an Edge takes over the control plane's inventory; the two steps may be far apart |
| `Restart` | requests end; claims are backfilled from the ledger |

A claim released after a failed save is deleted even when it had replaced an
earlier one. `forgot` counts the enrolments it stood for, and the properties
allow one more certificate for each: on an Edge whose ledger lags behind, an old
grant can be used once more. It takes a failed save, a permission and a late
bundle together, and the code does not discuss it.

### RegionFailover

The Selector (`Evaluate`, `Select`, `UpdateList`, `Expedited`) and the two loops
around it: the Windows agent's (`ActConnected`, `ActRefused`, `ConnectedOK`,
`RefreshList`), where steering may be disarmed and a switch may fail, and the
Edge's choice of a control plane (`Adopt`), where being refused means that the
other side does not lead. `posture` says which one it is. `world` is what a probe
of each endpoint finds; it changes at will between rounds, and round-trip times
are chosen anew in every round. `last` is what the loop remembers of the round
before, `active` the endpoint flows go through, and the two may differ.

Ties are broken by the place of an endpoint on the list (`Place`), as the stable
sort of `rankHealthy` does.

### Ranks

`Rank(S, n)` is the place of `n` among the numbers of `S`, `Nth` its inverse: how
`ReportOutbox!PruneList` picks the oldest files and `UpdateIngest!Evicted` reads the
eviction queue in order, without a sort or a recursion.

### Composition

`AgentUpdater`'s `outbox` is the set of reports ever appended, which is what the
journal's properties are about; `ReportOutbox` starts where that ends. Its
`AppendReport(id, NoRefusal)` is `FlushAppended`, its `retry` fault is
`FlushAppended` after a `FlushSave` that failed, and its `AppendUnconfirmed` is
a `FlushRefused` whose file is in the directory all the same. `UpdateIngest`
starts where `Send` ends: its device is the head of the sender's queue.

## 4. Runs

Passing runs. `MaxAttempts` is 2 and a report is tried twice (the code has 3 and
10); the number of faults a behaviour may have is in brackets.

| Run | What may go wrong | Checks | Distinct states |
|---|---|---|---|
| `updater_crash` | crashes, failed saves, slow downloads (3); ticks and rollbacks | `OneInstaller`, `LossesAreCounted`, `PoisonIsPermanent`, `PoisonedIsNotInstalled`, `OnlyLateIsWrittenOff`, `TypeOK` | 4,251,396 |
| `updater_steering` | everything, slow downloads too (2); ticks and rollbacks | `SteeringIsRestored`, `SteeringLossIsOnRecord`, `RollbackBlamesNobody` | 1,930,120 |
| `updater_ticks` | crashes, saves, the outbox, hand-overs, installers, the agent (4); one process that ticks, nothing disarmed, fair | `LossesAreCounted`, `OneReportPerOutcome`, `FailuresAreBounded`, `EveryOutcomeIsSettled`, `OpenAttemptIsClosed` | 218,244 |
| `outbox_safety` | everything but damage (3), 4 reports, room for 2 | `ArrivesInOrder`, `NothingVanishes`, `SuppressedWasQueued`, `DirectoryIsBounded`, `NoSilentGap`, `EachDropCountsOnce` | 3,608,829 |
| `outbox_liveness` | refused sends, crashes, damage, timeouts, files that stay (2), fair | `EveryReportSettles` | 22,966 |
| `ingest` | timeouts of the device, each write, torn rows, rotation, restarts (2); 3 events, 2 requests, a table of 1, either store | `WriterHoldsReceipt`, `NoOrphanedReceipt`, `ReceiptsAreBounded`, `AuditedOnce`, `UnchangedReportIsTaken`, `PromiseKept` (refinement) | 2,693,349 |
| `shipper` | outages, refusal of everything, lost answers, a failing disk, crashes, stops (2); any of the first 3 of 4 records refused for good, a queue of 2, fair | `QueueIsOnDisk`, `NothingVanishes`, `OneAsidePerDelivery`, `SpoolIsBounded`, `OneBadRecordBlocksNobody` | 687,538 |
| `enrolment` | every answer and every save, crashes, late bundles (1); 2 Edges, 2 requests, 3 tokens, 1 identity, 1 permission | `OneCertificatePerToken`, `OneCertificatePerGrant`, `OneTime` (refinement), `OffStaysOff` | 500,770 |
| `failover` | switches, arming, restarts (2); 3 endpoints, 3 lists, agents and an Edge, fair | `HoldIsBounded`, `DisarmedIsRetried`, `ChoiceIsRight`, `SteersAgain` | 44,307 |

Each module has a type invariant, `TypeOK`. Every run was made with it as well; of
the configurations kept here only `MCUpdaterCrash` names it, since a theorem proves
it for each module. The inductive invariants of section 5 were checked with TLC, on
instances like these, before they were proved.

### Bounds

`MaxFaults` bounds how many things go wrong, `MaxSeq` how many terminal outcomes
a device reaches, `MaxId` how many reports are made. Two versions give an update, a
rollback, a rollback of the rollback and a refused version that is offered
again; two processes give every race on the lock; `MaxSeq = 3` gives an outcome
before, during and after a rollback. With `MaxFaults = 2` or `3` a fault can fall
on the handling of another. The four faults of `updater_ticks` refuse a report until
it is quarantined, and again, or end three attempts in three ways, which is one
beyond the ceiling. `MaxStored = 2` with 4 reports prunes twice. A behaviour
stops when the bounds are used up, which is why the outbox, ingest and shipper
runs do not check for deadlock; the others do, since a device always ticks again,
an administrator can always act and a probe can always be made.

`ingest`: three events over a table of one receipt evict while two requests are in
flight, and leave queue entries whose receipt is gone. `shipper`: a queue of two
overflows with four records, and a file that is not rewritten in time reaches four
lines. `enrolment`:
two requests race on two Edges for one identity; three tokens give each a token
and leave one for the enrolment after the permission. It was also run with two
faults (2.4 million states, no violation) and with two permissions. Identities
do not interact except through the rule that an empty inventory is not applied, so
one is enough for the races. `failover`: three endpoints, one preferred, one
without priority, lists that leave each of the first two out in turn, and three
strikes, the code's default.

Damage is left out of `outbox_safety`: a report that was damaged, removed as
unreadable and then queued again by the journal arrives after younger ones.

### Fairness

`AgentUpdater!Fairness`: a pass under way goes on, because the process is
scheduled and the calls it makes are bounded by timeouts; the service ticks again
and again and finds the lock free some of the time (strong fairness, since an
operator may hold it at any one tick); `InstallGrace` goes by between ticks; an
installer ends. `FairSpec` adds that a release newer than what runs stays
published and can be staged: an open attempt is closed by `Run`, and `Tick` calls
`Run` only with a manifest in hand. `ReportOutbox!FairSpec`: the updater finishes
what it started, the agent beats again and again, and the ledger lock, held for
one read and one write, is free again and again. `AuditShipper!FairSpec`: the
goroutine goes on and its timers fire, outages end, and the head of the queue is
offered again and again (strong fairness, since outages and back-off take turns
with it). `RegionFailover!FairSpec`: the health ticker fires; nothing is assumed
of endpoints, lists or the network, and `SteersAgain` has what it needs of them
as its hypothesis.

### Disagreements between the code and what it says of itself

Each of these runs checks one property and TLC finds it violated; `PROJECT.json`
quotes the line concerned.

| Run | What happens |
|---|---|
| `updater_two_ids` | the save that would put an owed report into the journal fails and is only noted, the report is queued all the same, and the save after that fails too: a later pass finds the outcome still owed and queues it under another id, while `tick.go:219-220` says that "however many attempts it takes the Edge sees one event" (`EdgeSeesOneEvent`) |
| `enrol_lift` | an identity enrols under its first permission, is removed, and the removal is lifted: the permission counts from zero again (`ledger.go:1155`), is no newer than the standing claim, and no issuer honours it (`PermissionBeatsClaim`) |
| `failover_boundary` | a refreshed list leaves out the region in force while no region on it answers: the decision is fail-closed, nothing acts on it, and flows go on through the region left out, which works (`InsideBoundary`) |

Others show when the constants of a run are changed, or the property named is
added to it; they have no run of their own:

- `LossesAreCounted`, rollbacks with the fault `execute`: a rollback stacks the
  older outcome in the slot and then fails itself; the flush of the older report
  marks the newer outcome as reported (`agentupdate/journal.go:497`;
  `MarkOutcomeReported` takes the journal's fingerprint, not the report's).
- `RunningInstallerIsNotFailed`, added to a run with `SlowStage` set, and
  `OneInstaller` without its condition `Punctual`: `InFlightSince` is the time the
  pass began (`updateplatform/tick.go:374`), the download may take `stageTimeout`, 30
  minutes (`updateplatform/staging.go:38`), and `InstallGrace` is 10
  (`journal.go:871`). After a longer download the stamp is old when it is written;
  the next pass writes the running installer off (`agentupdate/runner.go:247`), and a
  second one may follow. `journal.go:106-107` says that "InstallGrace stops a
  just-launched installer from being called interrupted". `OnlyLateIsWrittenOff` and
  `OneInstaller` are what remains true.
- `StopsAfterMaxAttempts`, with the fault `abort`, `crash` or `save`: an attempt
  whose installer died, or whose pass died before it launched one, is closed
  without counting a failure, so the ceiling is never reached
  (`agentupdate/runner.go:259`; `journal.go:35-37` says "It counts failures per
  target version, and stops"). `FailuresAreBounded` is what remains true: each of
  these costs one failure more and nothing else does.
- `HistoryIsWhole`, added to `ingest`: the audit log is rotated between two outcomes
  and the Edge restarts; its store in memory comes back with the second and without
  the first (`agent_update_fleet_summary.go:89`, which reads the live file;
  `logs/jsonl.go:444-488` has moved the rest). Line 77 says "It says what it could
  not recover rather than presenting a partial history as a complete one", lines 60-61
  "there is no window in which the two disagree".
- `SetAsideIsOnFile`, added to `shipper`: a record is set aside while the disk
  refuses writes; `append` swallows the error (`audit_ship_spool.go:186-198`) and the
  record leaves queue and spool (`audit_ship.go:388-398`). `audit_ship.go:80-81` says
  "They are NOT dropped: each one is written to deadSpool first", line 402 "nothing
  was discarded".
- "Every report is acknowledged in the end" of `UpdateIngest`, with the store in
  memory: a delivery fails after the telemetry write, the device prunes more
  reports, and the repeat declares a higher drop count; the store takes it for
  another event and refuses it on every later try, while the device's queue stands
  behind it (`agenttelemetry/store.go:68`; line 65 says "a retry re-sends what it
  sent"). `UnchangedReportIsTaken` is what remains true.
- `OneBadRecordBlocksNobody` without its condition that at most one record is bad:
  two records refused for good use up the rotations, after which the head is
  offered again and again and a record that arrives behind them is not
  (`cmd/dsse-edge/audit_ship.go:410`).
- `LossesAreCounted`, ticks and rollbacks with the fault `outbox`: the drain
  fails, Reconcile closes an attempt and replaces the report that is still
  waiting (`updateplatform/tick.go:195`).
- `disk.dropped` exceeds the outcomes lost, ticks with the fault `outbox`: an outcome that is in the slot already
  is counted as dropped because the slot is taken (`updateplatform/tick.go:237`).
- `OneInstaller`, with the fault `agent`: a rollback to the version that is
  installed, asked for while the agent is down, is closed as landed while its
  installer runs, and a second installer follows (`agentupdate/tick.go:44`).
- `NoSilentGap` for any harm: with lost answers, the drop count rides on a report
  the Edge has already, which records nothing (`report.go:238`); with the sender dying at `lock`: an undelivered claim is removed
  before its count is back in the ledger (`report.go:455`); with the fault
  `timeout` or `write`: drops that cannot be added are not counted
  (`report.go:330-337`); with the fault `disk`: a claim that could not be folded
  back is overwritten by the next (`report.go:410`).

This is why the updater's passing runs differ in the faults they admit: a property
holds in its passing run for the faults listed there, and the list above names the
ones under which it does not. `LossesAreCounted`, for instance, holds for crashes and failed saves with
rollbacks, and for refused appends and failed hand-overs without; combining a rollback with a
refused append or a failed launch breaks it.

## 5. Proofs

Every module's type invariant is proved, and so is every safety property the
passing runs check but `FailuresAreBounded`: the invariants, the action properties
and both refinements. A
theorem holds for all values of the constants: any number of processes, versions,
reports, Edges, requests or endpoints, any bound, any set of faults and any number
of them. What it assumes is the named `ASSUME` of the module it is about, which
types the constants and asks for finiteness where a cardinality is taken; a
theorem that needs more says so in its `ASSUME` and below.

| Module | Theorems (property) |
|---|---|
| `AgentUpdaterProofs` | `TypeCorrect`, `RefusalsArePermanent` (`PoisonIsPermanent`), `SteeringComesBack` (`SteeringIsRestored`), `SteeringLossIsKnown` (`SteeringLossIsOnRecord`), `RollbackBlamesNobodyHolds`; on a `Steady` device `OneInstallerHolds`, `OnlyLateIsWrittenOffHolds`, `PoisonedIsNotInstalledHolds` |
| `OutcomeProofs` | on an `Accountable` device `LossesAreCountedHolds`; `OneReportPerOutcomeHolds` |
| `ReportOutboxProofs` | `OutboxTypeCorrect`, `SuppressedWasQueuedHolds`, `NothingVanishesHolds`, `DirectoryIsBoundedHolds`, `NoSilentGapHolds`, `EachDropCountsOnceHolds`; without damaged files and with room for two, `ArrivesInOrderHolds` |
| `UpdateIngestProofs` | `IngestTypeCorrect`, `WriterHoldsReceiptHolds`, `NoOrphanedReceiptHolds`, `ReceiptsAreBoundedHolds`, `AuditedOnceHolds`, `UnchangedReportIsTakenHolds`, and the refinement `PromiseKeptHolds` |
| `AuditShipperProofs` | `ShipperTypeCorrect`, `QueueIsOnDiskHolds`, `SpoolIsBoundedHolds`, `NothingVanishesHolds`, `OneAsidePerDeliveryHolds` |
| `EnrolmentProofs` | `EnrolmentTypeCorrect`, `OneCertificatePerTokenHolds`, `OneCertificatePerGrantHolds`, `OffStaysOffHolds`, and the refinement `OneTimeHolds` |
| `RegionFailoverProofs` | `FailoverTypeCorrect`, `HoldIsBoundedHolds`, `DisarmedIsRetriedHolds`, `ChoiceIsRightHolds` |

`CollectionLemmas` has what these keep needing about the elements of sequences, least
elements and ranks in a finite set of numbers, stated once.

### The updater

*Refusals.* `PoisonIsPermanent` is not inductive: a save writes `mem[p]`, so one
must know that the copy in memory refuses at least what the disk does. That holds
only while no other process writes, hence `LockInv` (a process past `idle` holds
the lock) and `PoisonInv` (its memory refuses all the disk refuses); `GateInv`
gives the states from which Run goes on. Their conjunction with `TypeOK` is
`Inv`, theorem `InvHolds`. The lemmas `...Keeps` say what each journal operation
preserves; `PassKeeps` lifts them to the steps of a pass.

*Steering restored.* `RestoreInv` adds that only a fail-open device disarms. The
argument follows the window from `Disarm` to `Launch`: every way out of it
launches, re-arms, records an unconfirmed attempt to re-arm, or is a crash.

*Steering on record.* `Down(j, d)` says that journal `j` tells of steering taken
down when `TerminalSeq` was `d`: an open phase, or a later outcome. `RecordInv`
says that while steering is down both the disk and the memory of the pass under
way satisfy it, and that the step before `Disarm` has put the phase on disk. A save,
successful or not, writes a journal that satisfies it or leaves one that does.

*No blame.* `RequestInv`: a pass asked to roll back is in Rollback or the
hand-over, so it never reaches the code of Run that counts a failure.

*One installer.* The device lock does not exclude a second installer, since the
installer outlives the pass that launched it; the journal does. `InstallInv` says
that while an installer for `v` runs, every journal (the disk's and that of a pass
under way) says that `v` was handed over, with a young stamp; `v` is not what the
device runs; and no pass is between `gate` and `record`. Reconcile then finds
nothing landed, Run leaves a young attempt alone and Rollback refuses, which is
all three theorems. It becomes inductive with `AttemptInv` (an attempt on its way
has no old stamp, a target other than what runs, and at `launch` is on disk as it
is in memory), `WaitingInv` (a journal whose attempt has changed nothing has no
clock running, and a rollback in it has refused what it leaves: Run may take up
such a journal when the same version is offered) and `ClockInv`. Downloads may take
any time: `InstallerInv` holds until an installer is handed over late, that is not
forgotten (`LateStays`), and the properties speak of the time before. `Steady` is
the one condition: where rollbacks are asked for, the agent is not found down.
Section 4 has what happens otherwise; with ticks alone the agent may stop at any
time and the theorems hold.

*Losses.* An outcome number that reached the disk is in the outbox, in the slot,
quarantined, owed, or among the `dropped`. `LossInv` says so of the disk and of
every journal in memory, since any of them may be the next one saved and any save
may fail (`CountsLosses`). To preserve that, an operation that takes the slot or
leaves a terminal phase must know whose outcome it displaces. `Books` tells: a
report that waits in a terminal phase is that phase's own, and what is marked as
reported is no outcome to come. `Settling` says for each label what the pass has
already cleared away: nothing owed when Run begins, nothing waiting when Reconcile
closes an attempt. `Accountable` is the condition: nobody rolls back, and then any
fault may happen, or there are rollbacks and the outbox takes what it is given, no
disarm and no launch fails. The run with rollbacks and the run without are an
instance of each; section 4 shows the loss outside of it.

*One id.* A report is in the slot on disk before it is in the outbox, so a pass that
dies after the append leaves the report, id included, to be appended again.
`ReportInv`: what waits is in the outbox under no other id, what is owed and not yet
in the slot is not there at all (`Unheard`), and memory and disk hold the same
report except between a flush and its save (`Hears`). The number of an outcome is
never used twice because no report in the outbox has a higher one than the disk.
The theorem has no condition on the faults; the property speaks of the time before
the first failed save (`AllSaved`), which `UnsavedStays` says is not forgotten. Two
failed saves in one pass do break it (`updater_two_ids`).

### The outbox

*Where a report goes.* `MadeInv`: every id anywhere was made, and what the sender
removes as sent was sent. *The bound.* `PruneInv`: what is left without the
victims, and without the files that could not be removed or listed (`stuck`), is
within `MaxStored`, and the newest is no victim; the sender removing
files meanwhile only helps. *The marker.* `JobInv`.

*Drops.* `LedgerInv` is the discipline of the ledger: whoever reads or writes it
holds the lock (`LockInv`), a process has drops in hand only on its way to add
them and the file is empty while a sum is in hand (`HandInv`), and a claim says
what the sender is to declare (`ClaimInv`). For `NoSilentGap`, `OnceInv` says that a
report is sent once while no fault could lose a count, and `GapInv` that a claim is
then neither overwritten nor deleted before every drop in it is declared. For
`EachDropCountsOnce`, `CountInv` adds that there is no claim but the sender's.

*Order.* `OrderInv`: what waits is younger than what the Edge has, what the sender has
not listed is younger than what it has, and the outcome the journal may queue again
was not thrown away. A damaged file breaks it (section 4), and a directory with room
for one throws away the outcome that is queued again; `maxStoredReports` is 200.

### Ingest, shipping, enrolment, failover

*Receipts.* `WriterHoldsReceipt` and `NoOrphanedReceipt` are inductive only together
and with `ReceiptsAreOwned`: generations of requests at work differ, so that no
eviction, commit or release touches another's receipt. `ReceiptsAreBounded` needs
`QueueInv`: every receipt is in the eviction queue, once; the scan then finds one to
take. `AuditedOnce` needs that an event on record keeps its receipt until it is lost
(`FirstLineIsReceipted`), `UnchangedReportIsTaken` that an event whose drop count
never grew says zero wherever it is written. For the refinement of `ReportReceipt`,
`WrittenInOrder` says how far a request, a receipt and the stores are, so that each
write finds the ones before it done; what a restart rebuilds is on the log.

*Spool.* `DiskInv`: while the disk has done as it was told the file is open and holds
the queue of its last rewrite and fewer appended lines than force the next; a queued
record that is not in the file is `unwritten`.
`AsideInv`: a success after a refusal is newer than any setting aside.

*Certificates.* `TokensBackOne`: a token behind a request past the spend or behind a
certificate is closed and behind nothing else. `ClaimsStand`: while no claim of an
identity was forgotten, its claim is at least as new as every grant used, and these
differ. The refinement of `OneTimeEnrolment` counts: the tokens behind an identity's
certificates and held claims are no more than its claim and the forgotten ones pay
for (`ClaimsPayForTokens`), and a claim is under a grant that was permitted
(`GrantsWerePermitted`, part of the type theorem).

*Failover.* `HoldInv`: the rounds a dead endpoint has been kept are strikes against it.
`ArmInv`: only an agent is off its steering. `ChoiceIsRight` follows from lemmas about
what a round decides, which rest on the existence of a least element among the
healthy endpoints.

### Only model-checked

- The liveness properties: `EveryOutcomeIsSettled`, `OpenAttemptIsClosed`,
  `EveryReportSettles`, `OneBadRecordBlocksNobody`, `SteersAgain`. The prover has
  neither fairness nor `ENABLED`.
- `FailuresAreBounded`.
- The three properties of section 4 that the code does not have.

## 6. Not modelled

- Dry runs (`Config.DryRun` turns every save into nothing).
- Reading journals of earlier builds, and journals that cannot be parsed.
- The contents of manifests and plans; signatures; the plan floor's value (the
  save it causes is there, in `Fetch`).
- Removal of staged packages (`StagedClears`), status output, logging.
- The refusal reports a tick queues are in `ReportOutbox`, not in
  `AgentUpdater`, whose state they do not touch.
- The macOS updater, which runs the same `agentupdate` functions from a Tick of
  its own.
- The characters of ids and file names; ids of earlier builds (`reportIDOrder`);
  a wall clock that is set back.
- `UpdateIngest`: authentication and validation of a request, which precede the
  reservation and change nothing; more than one Edge behind one device.
- `AuditShipper`: half-written lines, which the next start skips or repairs
  (`audit_ship_spool.go:88-137`), the receiver's storage, the texts of its
  log.
- `Enrolment`: several organizations, groups, device kinds, machine references and
  their conflicts, the identity-provider and shared-token modes, tenant
  retirement, certificates and their renewal. A crash between an Edge's own ledger
  and the report loses the report, and a late report can use up a permission given
  in between; both are in the model and no property is about them.
- `RegionFailover`: several endpoints in one region, the name a list publishes,
  how an address is resolved, and the macOS twin in Swift.
- The bulk of the repository by size is the data plane (policy evaluation, TLS
  interception, DLP, SWG, DNS), HTTP handlers over Postgres, the console and the
  installers: parsing, plumbing and presentation, in which state changes are few
  and each is one database statement. A model of it would restate it.
- Everything with status `not_modelled` in `PROJECT.json`.

## 7. Running

    tlc -workers 2 -config MCUpdaterCrash.cfg MCAgentUpdater
    tlc -workers 2 -config MCOutboxSafety.cfg MCReportOutbox
    tlc -workers 2 -config MCEnrolment.cfg MCEnrolment
    tlapm AgentUpdaterProofs.tla
    tlapm OutcomeProofs.tla

and likewise for the other modules of section 5.

`PROJECT.json` names the module of every configuration. Operators with `_` in their names are
plausible mistakes in the operator they precede, kept to show that a property
notices them; no specification uses them.

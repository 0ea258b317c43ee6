----------------------------- MODULE ReportOutbox -----------------------------
(***************************************************************************)
(* The device's outbox of update reports (agentupdate/report.go): a        *)
(* directory of files that one process, the updater, fills and prunes and  *)
(* another, the agent's heartbeat, sends to the Edge, oldest first, and    *)
(* deletes.  What pruning throws away is counted in a ledger both          *)
(* processes add to under a lock file; the count is claimed by a rename    *)
(* and travels on the next report the Edge accepts.                        *)
(*                                                                         *)
(* A report is its id, and ids are numbered in the order newReportID makes *)
(* them.  A count is kept as a tally of the reports it counts, so that two *)
(* drops counted as one and one counted twice do not cancel out: the       *)
(* number in the file is the sum of the tally.                             *)
(***************************************************************************)
EXTENDS Naturals, FiniteSets, Sequences, FiniteSetsExt, SequencesExt, Ranks

CONSTANTS
  MaxStored,    \* maxStoredReports
  Refusals,     \* fingerprints of standing refusals
  NoRefusal,
  NoFile,       \* a ledger file that does not exist
  FaultKinds,   \* what may go wrong
  CrashPoints,  \* where a process may die
  MaxFaults,    \* bound: how many things go wrong in one behaviour
  MaxId         \* bound: reports made in one behaviour

Ids == 1 .. MaxId

Tallies == [Ids -> Nat]

ASSUME OutboxAssumption ==
  /\ MaxStored \in Nat \ {0}
  /\ NoRefusal \notin Refusals /\ NoFile \notin Tallies
  /\ MaxFaults \in Nat
  /\ MaxId \in Nat

VARIABLES
  files,       \* the reports waiting in the directory
  unreadable,  \* those whose file cannot be parsed
  ledger,      \* dropped.json
  claim,       \* dropped.json.claimed
  ledgerLock,  \* who holds dropped.lock
  marker,      \* last-refusal
  lastId,      \* the newest report id made
  owed,        \* the newest id that is an outcome the journal may queue again
  pc,          \* where each process is
  count,       \* drops a process has in hand, to be added to the ledger
  total,       \* what a process is about to write to the ledger
  job,         \* updater: the refusal being queued
  victims,     \* updater: reports being pruned
  stuck,       \* history: reports this append's pruning could not remove
  names,       \* sender: the reports it listed and has not dealt with
  claimed,     \* sender: does it hold a claim?
  dropped,     \* sender: the claimed count the next report is to carry
  edge,        \* the reports the Edge has recorded, in order of first arrival
  declared,    \* the drops those reports told the Edge of
  pruned,      \* history: reports pruning removed
  stored,      \* history: refusals queued since the marker was last cleared
  faults       \* how much went wrong, and the worst it could do to a drop count

disk == <<files, unreadable, ledger, claim, marker, lastId, owed>>
updater == <<job, victims, stuck>>
sender == <<names, claimed, dropped>>
history == <<edge, declared, pruned, stored>>

vars == <<disk, ledgerLock, pc, count, total, updater, sender, history, faults>>

Procs == {"updater", "sender"}

None == [i \in Ids |-> 0]

Plus(a, b) == [i \in Ids |-> a[i] + b[i]]

\* readDroppedFile: a missing or empty file counts nothing.
InFile(f) == IF f = NoFile THEN None ELSE f

UpdaterPCs == {"idle", "prune", "remove", "lock", "add", "write", "mark"}

SenderPCs == {"idle", "claim", "recover", "fold", "unclaim", "rename", "read", "send",
              "sent", "release", "lock", "add", "write"}

(* What a fault may do to a count of drops: nothing; repeat it; lose it.     *)
Harms == 0 .. 2

\* An addition the caller gives up on is lost.  A report the Edge has taken and
\* is sent again carries a count the Edge does not record.  A claim that is done
\* with and could not be deleted is counted again.
HarmOf(kind) ==
  IF kind \in {"timeout", "write", "disk", "answer", "remove", "retry"} THEN 2
  ELSE IF kind = "unclaim" THEN 1 ELSE 0

\* A process that dies loses the count it has in hand, or is writing over a
\* truncated ledger; dead before it removes what it sent, it sends it again.
\* Dead with a claim no report has carried, it leaves the claim to be recovered.
CrashHarm(p, at) ==
  IF p = "sender" /\ at \in {"claim", "recover", "unclaim", "rename", "read", "send"}
  THEN 1 ELSE 2

TypeOK ==
  /\ files \subseteq Ids /\ unreadable \subseteq Ids
  /\ ledger \in Tallies \cup {NoFile} /\ claim \in Tallies \cup {NoFile}
  /\ ledgerLock \in Procs \cup {"free"}
  /\ marker \in Refusals \cup {NoRefusal}
  /\ lastId \in Ids \cup {0} /\ owed \in 0 .. lastId
  /\ pc \in [Procs -> UpdaterPCs \cup SenderPCs]
  /\ pc["updater"] \in UpdaterPCs /\ pc["sender"] \in SenderPCs
  /\ count \in [Procs -> Tallies] /\ total \in [Procs -> Tallies]
  /\ job \in Refusals \cup {NoRefusal}
  /\ victims \subseteq Ids /\ stuck \subseteq Ids /\ names \subseteq Ids
  /\ claimed \in BOOLEAN /\ dropped \in Tallies
  /\ edge \in Seq(Ids) /\ IsInjective(edge)
  /\ declared \in Tallies /\ pruned \subseteq Ids /\ stored \subseteq Refusals
  /\ faults \in [n : 0 .. MaxFaults, harm : Harms]

Init ==
  /\ files = {} /\ unreadable = {}
  /\ ledger = NoFile /\ claim = NoFile /\ ledgerLock = "free"
  /\ marker = NoRefusal /\ lastId = 0 /\ owed = 0
  /\ pc = [p \in Procs |-> "idle"]
  /\ count = [p \in Procs |-> None] /\ total = [p \in Procs |-> None]
  /\ job = NoRefusal /\ victims = {} /\ stuck = {}
  /\ names = {} /\ claimed = FALSE /\ dropped = None
  /\ edge = <<>> /\ declared = None /\ pruned = {} /\ stored = {}
  /\ faults = [n |-> 0, harm |-> 0]

-----------------------------------------------------------------------------
Fails(kind, harm) ==
  /\ kind \in FaultKinds
  /\ faults.n < MaxFaults
  /\ faults' = [n |-> faults.n + 1, harm |-> Max({faults.harm, harm})]

Fault(kind) == Fails(kind, HarmOf(kind))

Go(p, l) == pc' = [pc EXCEPT ![p] = l]

\* What follows addDropped: the rest of AppendRefusal, or nothing.
AfterAdd == [updater |-> "mark", sender |-> "idle"]

-----------------------------------------------------------------------------
(* addDropped, called by the updater's prune and by the sender's release.   *)

LockLedger(p) ==
  /\ pc[p] = "lock"
  /\ ledgerLock = "free"
  /\ ledgerLock' = p
  /\ Go(p, "add")
  /\ UNCHANGED <<disk, count, total, updater, sender, history, faults>>

\* The wait ran out, and the caller ignores the error.
LockTimesOut(p) ==
  /\ pc[p] = "lock"
  /\ Fault("timeout")
  /\ count' = [count EXCEPT ![p] = None]
  /\ Go(p, AfterAdd[p])
  /\ UNCHANGED <<disk, ledgerLock, total, updater, sender, history>>

\* os.WriteFile truncates the file it is about to write.
ReadAndTruncate(p) ==
  /\ pc[p] = "add"
  /\ total' = [total EXCEPT ![p] = Plus(InFile(ledger), count[p])]
  /\ count' = [count EXCEPT ![p] = None]
  /\ ledger' = None
  /\ Go(p, "write")
  /\ UNCHANGED <<files, unreadable, claim, marker, lastId, owed, ledgerLock, updater,
                 sender, history, faults>>

WriteLedger(p) ==
  /\ pc[p] = "write"
  /\ ledger' = total[p]
  /\ total' = [total EXCEPT ![p] = None]
  /\ ledgerLock' = IF ledgerLock = p THEN "free" ELSE ledgerLock
  /\ Go(p, AfterAdd[p])
  /\ UNCHANGED <<files, unreadable, claim, marker, lastId, owed, count, updater, sender,
                 history, faults>>

\* The write failed, with the file as it was or truncated; the caller ignores it.
WriteLedgerFails(p) ==
  /\ pc[p] = "add"
  /\ Fault("write")
  /\ ledger' \in {ledger, None}
  /\ count' = [count EXCEPT ![p] = None]
  /\ ledgerLock' = IF ledgerLock = p THEN "free" ELSE ledgerLock
  /\ Go(p, AfterAdd[p])
  /\ UNCHANGED <<files, unreadable, claim, marker, lastId, owed, total, updater, sender,
                 history>>

-----------------------------------------------------------------------------
(* The updater: AppendReport, pruneReports, AppendRefusal, ClearRefusal.    *)

\* A new report: an outcome, or a refusal that is not the one already reported.
Fresh(id, r) == id = lastId + 1 /\ id <= MaxId /\ (r # NoRefusal => r # marker)

\* The outcome the journal holds, queued again because it could not record that
\* it had been queued; at most one refusal is made between the two.
Requeued(id, r) == id = owed /\ owed > 0 /\ r = NoRefusal /\ lastId <= owed + 1

Numbered(id, r) ==
  /\ lastId' = IF id > lastId THEN id ELSE lastId
  /\ owed' = IF r = NoRefusal THEN id ELSE owed

\* Mutant: the suppression marker is written before the report.
AppendReport_MarkerFirst(id, r) ==
  /\ pc["updater"] = "idle"
  /\ Fresh(id, r) /\ UNCHANGED faults
  /\ \/ files' = files \cup {id} /\ stored' = stored \cup ({r} \ {NoRefusal})
        /\ unreadable' = unreadable \ {id} /\ Go("updater", "prune") /\ job' = r
        /\ Numbered(id, r) /\ UNCHANGED marker
     \/ /\ r # NoRefusal /\ marker' = r
        /\ UNCHANGED <<files, stored, unreadable, pc, job, lastId, owed>>
  /\ UNCHANGED <<ledger, claim, ledgerLock, count, total, victims, stuck, sender, edge,
                 declared, pruned>>

\* The file is durably in place before anything else is done about it.
AppendReport(id, r) ==
  /\ pc["updater"] = "idle"
  /\ (Fresh(id, r) /\ UNCHANGED faults) \/ (Requeued(id, r) /\ Fault("retry"))
  /\ Numbered(id, r)
  /\ files' = files \cup {id}
  /\ unreadable' = unreadable \ {id}
  /\ stored' = stored \cup ({r} \ {NoRefusal})
  /\ job' = r
  /\ Go("updater", "prune")
  /\ UNCHANGED <<ledger, claim, marker, ledgerLock, count, total, victims, stuck, sender,
                 edge, declared, pruned>>

\* The file is in place and the write could not be confirmed: the caller is told
\* that it failed, and nothing is pruned or marked.
AppendUnconfirmed(id, r) ==
  /\ pc["updater"] = "idle"
  /\ Fresh(id, r)
  /\ Fault("append")
  /\ Numbered(id, r)
  /\ files' = files \cup {id}
  /\ UNCHANGED <<unreadable, ledger, claim, marker, ledgerLock, pc, count, total, updater,
                 sender, history>>

\* Mutant: only one report goes, however many there are too many of.
PruneList_OneOnly ==
  /\ pc["updater"] = "prune"
  /\ \/ /\ Cardinality(files) <= MaxStored
        /\ Go("updater", "mark")
        /\ UNCHANGED <<victims, stuck, faults>>
     \/ /\ Cardinality(files) > MaxStored
        /\ victims' = {Min(files)}
        /\ Go("updater", "remove")
        /\ UNCHANGED <<stuck, faults>>
     \/ /\ Fault("list")
        /\ stuck' = files
        /\ Go("updater", "mark")
        /\ UNCHANGED victims
  /\ UNCHANGED <<disk, ledgerLock, count, total, job, sender, history>>

\* pruneReports lists the directory and takes the oldest over the bound.  A
\* directory that cannot be listed is left as it is.
PruneList ==
  /\ pc["updater"] = "prune"
  /\ \/ /\ Cardinality(files) <= MaxStored
        /\ Go("updater", "mark")
        /\ UNCHANGED <<victims, stuck, faults>>
     \/ /\ Cardinality(files) > MaxStored
        /\ victims' = {id \in files : Rank(files, id) <= Cardinality(files) - MaxStored}
        /\ Go("updater", "remove")
        /\ UNCHANGED <<stuck, faults>>
     \/ /\ Fault("list")
        /\ stuck' = files
        /\ Go("updater", "mark")
        /\ UNCHANGED victims
  /\ UNCHANGED <<disk, ledgerLock, count, total, job, sender, history>>

\* One removal.  A file the sender has already removed, and one that cannot be
\* removed and stays, are not counted.
PruneRemove ==
  /\ pc["updater"] = "remove"
  /\ victims # {}
  /\ LET id == Min(victims) IN
     /\ victims' = victims \ {id}
     /\ \/ /\ id \in files
           /\ files' = files \ {id}
           /\ count' = [count EXCEPT !["updater"][id] = @ + 1]
           /\ pruned' = pruned \cup {id}
           /\ UNCHANGED <<stuck, faults>>
        \/ /\ id \in files
           /\ Fault("stuck")
           /\ stuck' = stuck \cup {id}
           /\ UNCHANGED <<files, count, pruned>>
        \/ /\ id \notin files
           /\ UNCHANGED <<files, count, pruned, stuck, faults>>
  /\ UNCHANGED <<unreadable, ledger, claim, marker, lastId, owed, ledgerLock, pc, total, job,
                 sender, edge, declared, stored>>

PruneDone ==
  /\ pc["updater"] = "remove"
  /\ victims = {}
  /\ Go("updater", IF count["updater"] = None THEN "mark" ELSE "lock")
  /\ UNCHANGED <<disk, ledgerLock, count, total, updater, sender, history, faults>>

\* The rest of AppendRefusal.  Writing the marker may fail.
MarkRefusal ==
  /\ pc["updater"] = "mark"
  /\ \/ marker' = (IF job = NoRefusal THEN marker ELSE job) /\ UNCHANGED faults
     \/ job # NoRefusal /\ Fault("marker") /\ UNCHANGED marker
  /\ job' = NoRefusal /\ stuck' = {}
  /\ Go("updater", "idle")
  /\ UNCHANGED <<files, unreadable, ledger, claim, lastId, owed, ledgerLock, count, total,
                 victims, sender, history>>

\* Something progressed: the next refusal is reported even if it is the same.
ClearRefusal ==
  /\ pc["updater"] = "idle"
  /\ marker # NoRefusal
  /\ marker' = NoRefusal
  /\ stored' = {}
  /\ UNCHANGED <<files, unreadable, ledger, claim, lastId, owed, ledgerLock, pc, count,
                 total, updater, sender, edge, declared, pruned, faults>>

-----------------------------------------------------------------------------
(* The sender: drainUpdateReports and DrainReports.                         *)

DrainStart ==
  /\ pc["sender"] = "idle"
  /\ files # {}
  /\ names' = files
  /\ Go("sender", "claim")
  /\ UNCHANGED <<disk, ledgerLock, count, total, updater, claimed, dropped, history, faults>>

\* ClaimDropped waits for the lock; when the wait runs out nothing is claimed.
ClaimLock ==
  /\ pc["sender"] = "claim"
  /\ \/ /\ ledgerLock = "free"
        /\ ledgerLock' = "sender"
        /\ Go("sender", "recover")
        /\ UNCHANGED faults
     \/ /\ Fault("timeout")
        /\ Go("sender", "read")
        /\ UNCHANGED ledgerLock
  /\ UNCHANGED <<disk, count, total, updater, sender, history>>

\* Mutant: an orphaned claim is deleted.
Recover_Deletes ==
  /\ pc["sender"] = "recover"
  /\ claim' = NoFile
  /\ Go("sender", "rename")
  /\ UNCHANGED <<files, unreadable, ledger, marker, lastId, owed, ledgerLock, count, total,
                 updater, sender, history, faults>>

\* recoverDroppedClaimLocked: a claim a crash left behind is added to the
\* ledger.  When that cannot be written the claim stays, and the ledger is as
\* it was or truncated.
Recover ==
  /\ pc["sender"] = "recover"
  /\ \/ /\ InFile(claim) = None
        /\ claim' = NoFile
        /\ Go("sender", "rename")
        /\ UNCHANGED <<ledger, total, faults>>
     \/ /\ InFile(claim) # None
        /\ total' = [total EXCEPT !["sender"] = Plus(InFile(ledger), claim)]
        /\ ledger' = None
        /\ Go("sender", "fold")
        /\ UNCHANGED <<claim, faults>>
     \/ /\ InFile(claim) # None
        /\ Fault("disk")
        /\ ledger' \in {ledger, None}
        /\ Go("sender", "rename")
        /\ UNCHANGED <<claim, total>>
  /\ UNCHANGED <<files, unreadable, marker, lastId, owed, ledgerLock, count, updater, sender,
                 history>>

Fold ==
  /\ pc["sender"] = "fold"
  /\ ledger' = total["sender"]
  /\ total' = [total EXCEPT !["sender"] = None]
  /\ Go("sender", "unclaim")
  /\ UNCHANGED <<files, unreadable, claim, marker, lastId, owed, ledgerLock, count, updater,
                 sender, history, faults>>

\* The claim that has been added is deleted, or cannot be.
Unclaim ==
  /\ pc["sender"] = "unclaim"
  /\ \/ claim' = NoFile /\ UNCHANGED faults
     \/ Fault("unclaim") /\ UNCHANGED claim
  /\ Go("sender", "rename")
  /\ UNCHANGED <<files, unreadable, ledger, marker, lastId, owed, ledgerLock, count, total,
                 updater, sender, history>>

\* The ledger becomes the claim, replacing a claim that is still there, and the
\* count is read from what was renamed.  When it cannot be renamed nothing is
\* claimed, and the drain goes on without a count.
Rename ==
  /\ pc["sender"] = "rename"
  /\ \/ /\ claim' = (IF ledger = NoFile THEN claim ELSE IF ledger = None THEN NoFile ELSE ledger)
        /\ dropped' = InFile(ledger)
        /\ claimed' = (InFile(ledger) # None)
        /\ ledger' = NoFile
        /\ UNCHANGED faults
     \/ /\ ledger # NoFile
        /\ Fault("rename")
        /\ UNCHANGED <<ledger, claim, claimed, dropped>>
  /\ ledgerLock' = "free"
  /\ Go("sender", "read")
  /\ UNCHANGED <<files, unreadable, marker, lastId, owed, count, total, updater, names,
                 history>>

\* Mutant: a report that cannot be parsed stays where it is.
Read_KeepsUnreadable ==
  /\ pc["sender"] = "read"
  /\ Go("sender", IF names = {} \/ Min(names) \notin files \/ Min(names) \in unreadable
                  THEN "release" ELSE "send")
  /\ UNCHANGED <<disk, ledgerLock, count, total, updater, sender, history, faults>>

\* The next report: a file that is gone ends the drain, one that cannot be
\* parsed is removed and passed over, even when it cannot be removed.
Read ==
  /\ pc["sender"] = "read"
  /\ \/ /\ names # {} /\ Min(names) \in files \cap unreadable
        /\ \/ files' = files \ {Min(names)} /\ UNCHANGED faults
           \/ Fault("stuck") /\ UNCHANGED files
        /\ names' = names \ {Min(names)}
        /\ UNCHANGED pc
     \/ /\ ~(names # {} /\ Min(names) \in files \cap unreadable)
        /\ Go("sender", IF names = {} \/ Min(names) \notin files THEN "release"
                        ELSE "send")
        /\ UNCHANGED <<files, names, faults>>
  /\ UNCHANGED <<unreadable, ledger, claim, marker, lastId, owed, ledgerLock, count, total,
                 updater, claimed, dropped, history>>

\* The Edge records a report once, with the count it carried the first time; a
\* repeated id is acknowledged and nothing is recorded.
EdgeRecords(id) ==
  IF id \in ToSet(edge) THEN UNCHANGED <<edge, declared>>
  ELSE edge' = Append(edge, id) /\ declared' = Plus(declared, dropped)

\* Mutant: the file goes before the Edge has the report.
Send_RemovesFirst ==
  /\ pc["sender"] = "send"
  /\ Min(names) \in files
  /\ files' = files \ {Min(names)}
  /\ \/ EdgeRecords(Min(names)) /\ dropped' = None /\ names' = names \ {Min(names)}
        /\ Go("sender", "read") /\ UNCHANGED faults
     \/ Fault("send") /\ Go("sender", "release") /\ UNCHANGED <<edge, declared, dropped, names>>
  /\ UNCHANGED <<unreadable, ledger, claim, marker, lastId, owed, ledgerLock, count, total,
                 updater, claimed, pruned, stored>>

\* Mutant: the drain goes on to the next report after one the Edge refused.
Send_SkipsRefused ==
  /\ pc["sender"] = "send"
  /\ \/ EdgeRecords(Min(names)) /\ dropped' = None /\ Go("sender", "sent")
        /\ UNCHANGED <<names, faults>>
     \/ Fault("send") /\ Go("sender", "read") /\ names' = names \ {Min(names)}
        /\ UNCHANGED <<edge, declared, dropped>>
  /\ UNCHANGED <<disk, ledgerLock, count, total, updater, claimed, pruned, stored>>

\* The Edge takes it; or takes it and the answer is lost; or refuses it.  The
\* claimed count has been delivered once a report carrying it was accepted.
Send ==
  /\ pc["sender"] = "send"
  /\ \/ /\ EdgeRecords(Min(names))
        /\ dropped' = None
        /\ Go("sender", "sent")
        /\ UNCHANGED faults
     \/ /\ Fault("answer")
        /\ EdgeRecords(Min(names))
        /\ Go("sender", "release")
        /\ UNCHANGED dropped
     \/ /\ Fault("send")
        /\ Go("sender", "release")
        /\ UNCHANGED <<edge, declared, dropped>>
  /\ UNCHANGED <<disk, ledgerLock, count, total, updater, names, claimed, pruned, stored>>

\* A delivered report is removed; one that cannot be ends the drain.
RemoveSent ==
  /\ pc["sender"] = "sent"
  /\ \/ /\ Min(names) \in files
        /\ files' = files \ {Min(names)}
        /\ names' = names \ {Min(names)}
        /\ Go("sender", "read")
        /\ UNCHANGED faults
     \/ /\ Min(names) \in files => Fault("remove")
        /\ Min(names) \notin files => UNCHANGED faults
        /\ Go("sender", "release")
        /\ UNCHANGED <<files, names>>
  /\ UNCHANGED <<unreadable, ledger, claim, marker, lastId, owed, ledgerLock, count, total,
                 updater, claimed, dropped, history>>

\* Mutant: a claim is added back to the ledger and left where it is.
ReleaseDropped_KeepsClaim ==
  /\ pc["sender"] = "release"
  /\ LET restore == claimed /\ dropped # None IN
     /\ claim' = IF claimed /\ ~restore THEN NoFile ELSE claim
     /\ count' = [count EXCEPT !["sender"] = IF restore THEN InFile(claim) ELSE None]
     /\ Go("sender", IF restore THEN "lock" ELSE "idle")
  /\ names' = {} /\ claimed' = FALSE /\ dropped' = None
  /\ UNCHANGED <<files, unreadable, ledger, marker, lastId, owed, ledgerLock, total, updater,
                 history, faults>>

\* A delivered claim is deleted.  Any other is read, deleted, and added to the
\* ledger as it now is.  Deleting it may fail.
ReleaseDropped ==
  /\ pc["sender"] = "release"
  /\ LET restore == claimed /\ dropped # None IN
     /\ count' = [count EXCEPT !["sender"] = IF restore THEN InFile(claim) ELSE None]
     /\ Go("sender", IF restore THEN "lock" ELSE "idle")
  /\ \/ claim' = (IF claimed THEN NoFile ELSE claim) /\ UNCHANGED faults
     \/ claimed /\ Fault("unclaim") /\ UNCHANGED claim
  /\ names' = {} /\ claimed' = FALSE /\ dropped' = None
  /\ UNCHANGED <<files, unreadable, ledger, marker, lastId, owed, ledgerLock, total, updater,
                 history>>

-----------------------------------------------------------------------------
(* What else can happen: a process dies, which frees the lock it holds; a    *)
(* file is damaged on disk.                                                  *)

Crash(p) ==
  /\ pc[p] # "idle"
  /\ <<p, pc[p]>> \in CrashPoints
  /\ Fails("crash", CrashHarm(p, pc[p]))
  /\ Go(p, "idle")
  /\ count' = [count EXCEPT ![p] = None]
  /\ total' = [total EXCEPT ![p] = None]
  /\ ledgerLock' = IF ledgerLock = p THEN "free" ELSE ledgerLock
  /\ IF p = "updater"
     THEN job' = NoRefusal /\ victims' = {} /\ stuck' = {} /\ UNCHANGED sender
     ELSE names' = {} /\ claimed' = FALSE /\ dropped' = None /\ UNCHANGED updater
  /\ UNCHANGED <<disk, history>>

Damage(id) ==
  /\ id \in files \ unreadable
  /\ Fault("damage")
  /\ unreadable' = unreadable \cup {id}
  /\ UNCHANGED <<files, ledger, claim, marker, lastId, owed, ledgerLock, pc, count, total,
                 updater, sender, history>>

-----------------------------------------------------------------------------
AddStep(p) ==
  \/ LockLedger(p) \/ LockTimesOut(p)
  \/ ReadAndTruncate(p) \/ WriteLedger(p) \/ WriteLedgerFails(p)

UpdaterStep == PruneList \/ PruneRemove \/ PruneDone \/ MarkRefusal \/ AddStep("updater")

SenderStep ==
  \/ DrainStart \/ ClaimLock \/ Recover \/ Fold \/ Unclaim \/ Rename
  \/ Read \/ Send \/ RemoveSent \/ ReleaseDropped \/ AddStep("sender")

Next ==
  \/ \E id \in Ids, r \in Refusals \cup {NoRefusal} :
       AppendReport(id, r) \/ AppendUnconfirmed(id, r)
  \/ ClearRefusal
  \/ UpdaterStep
  \/ SenderStep
  \/ \E p \in Procs : Crash(p)
  \/ \E id \in Ids : Damage(id)

Spec == Init /\ [][Next]_vars

\* The updater finishes what it started, the agent beats again and again and
\* finds the ledger lock free some of the time.
FairSpec ==
  /\ Spec
  /\ WF_vars(UpdaterStep)
  /\ WF_vars(SenderStep)
  /\ SF_vars(LockLedger("updater")) /\ SF_vars(LockLedger("sender")) /\ SF_vars(ClaimLock)

-----------------------------------------------------------------------------
(* Properties.                                                              *)

\* The Edge first hears of the reports in the order they were made: the drain
\* stops at a report it could not deliver, and pruning takes the oldest.
ArrivesInOrder == \A i, j \in DOMAIN edge : i < j => edge[i] < edge[j]

\* A report that left the directory reached the Edge, was pruned, or could not
\* be parsed.
NothingVanishes ==
  lastId = 0 \/ (1 .. lastId) \subseteq files \cup ToSet(edge) \cup pruned \cup unreadable

\* A refusal that is suppressed as a repeat was queued since the last progress.
SuppressedWasQueued == marker # NoRefusal => marker \in stored

\* The directory is back within its bound when an append has run to its end, but
\* for the reports this very append could not remove: what earlier ones left
\* behind (a process that died, an unconfirmed write, a file that would not go) is
\* made up for.  The newest report is never the one thrown away for it.
DirectoryIsBounded ==
  [][pc["updater"] # "idle" /\ pc'["updater"] = "idle" /\ faults' = faults =>
       Cardinality(files' \ stuck) <= MaxStored /\ lastId' \notin pruned']_vars

\* Drops nobody will ever declare: not told to the Edge, not in the ledger, not
\* in a claim, and not in the hands of a process that is about to add them.
Known(id) ==
  \/ declared[id] > 0
  \/ InFile(ledger)[id] > 0 \/ InFile(claim)[id] > 0
  \/ \E p \in Procs : count[p][id] > 0 \/ total[p][id] > 0

\* The gap is visible: a report thrown away unsent is declared to the Edge or
\* still counted on the device, through prunes, claims, restores and refused sends
\* at the same time, and through a sender that dies with a claim no report has
\* carried yet.  The faults that do lose a count (HarmOf, CrashHarm) are set apart.
NoSilentGap == faults.harm < 2 => \A id \in pruned : id \in ToSet(edge) \/ Known(id)

\* Where a drop is counted, leaving out a claim already delivered.
Counted(id) ==
  declared[id] + InFile(ledger)[id] + (IF claimed /\ dropped = None THEN 0 ELSE InFile(claim)[id])
    + count["updater"][id] + count["sender"][id] + total["updater"][id] + total["sender"][id]

\* With nothing failing but the Edge's answers, every drop is counted exactly
\* once, whatever the two processes do at the same time.
EachDropCountsOnce ==
  faults.harm = 0 => \A id \in Ids : Counted(id) = IF id \in pruned THEN 1 ELSE 0

\* Every report made reaches the Edge, or is pruned, or cannot be parsed.
EveryReportSettles ==
  \A id \in Ids : lastId >= id ~> id \in ToSet(edge) \cup pruned \cup unreadable
=============================================================================

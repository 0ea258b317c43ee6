--------------------------- MODULE UpdateJournal ---------------------------
(***************************************************************************)
(* The update journal of one device (agentupdate/journal.go and            *)
(* report_quarantine.go): the record the updater writes before each step   *)
(* of an attempt, and the operations on it.  Every operation is a function *)
(* from a journal to a journal; who calls it, and when the result reaches  *)
(* the disk, is the business of AgentUpdater.                              *)
(*                                                                         *)
(* Versions are positive numbers ordered as CompareVersions orders them    *)
(* (build metadata, which SameVersion ignores, is not represented);        *)
(* NoVersion is the empty string.  Reasons and timestamps shown to people  *)
(* are left out.  A timestamp the code compares with InstallGrace is       *)
(* "none", "young" (less than InstallGrace ago) or "old".                  *)
(***************************************************************************)
EXTENDS Naturals

CONSTANTS
  Versions,            \* the releases that exist
  MaxAttempts,         \* Config.MaxAttempts
  DefaultMaxAttempts,  \* the ceiling Rollback uses whatever the Config says
  ReportMaxAttempts    \* DefaultReportMaxAttempts

ASSUME JournalAssumption ==
  /\ Versions \subseteq Nat \ {0}
  /\ MaxAttempts \in Nat \ {0}
  /\ DefaultMaxAttempts \in Nat \ {0}
  /\ ReportMaxAttempts \in Nat \ {0}

NoVersion == 0

Phases == {"idle", "verified", "snapshotted", "disarmed", "executing",
           "rolling_back", "observing", "completed", "pending_reboot",
           "failed", "rolled_back", "unrecoverable"}

\* Phases from which a fresh start means the previous attempt died mid-flight.
InterruptedPhases ==
  {"snapshotted", "disarmed", "executing", "rolling_back", "observing"}

\* Phases entered once the attempt has started changing the machine.
InFlightPhases == {"disarmed", "executing", "rolling_back"}

\* The terminal transitions enterTerminal counts.
CountedPhases == {"completed", "rolled_back", "failed"}

Stamps == {"none", "young", "old"}

-----------------------------------------------------------------------------
(* What identifies a terminal outcome (OutcomeFingerprint), the report the  *)
(* device owes for one, and the journal itself.                             *)

Outcome == [phase : CountedPhases \cup {"none"}, target : Versions \cup {NoVersion},
            fails : Nat, seq : Nat]

NoOutcome == [phase |-> "none", target |-> NoVersion, fails |-> 0, seq |-> 0]

Report == [id : Nat, outcome : Outcome]

NoReport == [id |-> 0, outcome |-> NoOutcome]

Journal ==
  [phase : Phases, target : Versions \cup {NoVersion}, from : Versions \cup {NoVersion},
   kind : {"update", "rollback"}, attemptAt : Stamps, inFlight : Stamps,
   failures : [Versions -> Nat], poisoned : SUBSET Versions, seq : Nat,
   reported : Outcome, pending : Report, queueFails : Nat, dropped : Nat,
   quarantined : SUBSET Report]

NewJournal ==
  [phase |-> "idle", target |-> NoVersion, from |-> NoVersion, kind |-> "update",
   attemptAt |-> "none", inFlight |-> "none", failures |-> [v \in Versions |-> 0],
   poisoned |-> {}, seq |-> 0, reported |-> NoOutcome, pending |-> NoReport,
   queueFails |-> 0, dropped |-> 0, quarantined |-> {}]

-----------------------------------------------------------------------------
(* Questions about a journal.                                               *)

Interrupted(j) == j.phase \in InterruptedPhases

NeedsNetworkRecovery(j) == j.phase \in {"disarmed", "executing", "rolling_back"}

IsRollback(j) == j.kind = "rollback"

IsPoisoned(j, v) == v \in j.poisoned

\* installYoungerThan(InstallGrace): measured from the moment the machine
\* started being changed, or from the attempt's start when that was not stamped.
InstallStarted(j) == IF j.inFlight # "none" THEN j.inFlight ELSE j.attemptAt

InstallIsYoung(j) == InstallStarted(j) = "young"

Terminal(j) == j.phase \in {"completed", "rolled_back", "failed", "unrecoverable"}

OutcomeFingerprint(j) ==
  IF j.phase \in CountedPhases
  THEN [phase |-> j.phase, target |-> j.target, seq |-> j.seq,
        fails |-> IF j.phase = "failed" /\ j.target # NoVersion
                  THEN j.failures[j.target] ELSE 0]
  ELSE NoOutcome

OwesOutcomeReport(j) ==
  /\ OutcomeFingerprint(j) # NoOutcome
  /\ OutcomeFingerprint(j) # j.reported

-----------------------------------------------------------------------------
(* Transitions of an attempt.                                               *)

\* Mutant: a new attempt at a version forgets that the version is refused.
Begin_ForgetsPoison(j, target, from) ==
  [j EXCEPT !.target = target, !.from = from, !.attemptAt = "young", !.inFlight = "none",
            !.phase = "verified", !.kind = "update", !.poisoned = @ \ {target}]

Begin(j, target, from) ==
  [j EXCEPT !.target = target, !.from = from, !.attemptAt = "young",
            !.inFlight = "none", !.phase = "verified", !.kind = "update"]

BeginRollback(j, target, from) ==
  [Begin(j, target, from) EXCEPT !.kind = "rollback"]

Enter(j, p) ==
  [j EXCEPT !.seq = IF j.phase # p /\ p \in CountedPhases THEN @ + 1 ELSE @,
            !.inFlight = IF p \in InFlightPhases /\ @ = "none" THEN "young" ELSE @,
            !.phase = p]

Refuse(j, v) == IF v = NoVersion THEN j ELSE [j EXCEPT !.poisoned = @ \cup {v}]

\* Mutant: one attempt too many.
RecordFailure_OffByOne(j, ceiling) ==
  LET failed == Enter([j EXCEPT !.failures[j.target] = @ + 1], "failed")
  IN  IF failed.failures[j.target] <= ceiling THEN failed ELSE Refuse(failed, j.target)

\* A failure counts against the target, and the ceiling poisons it.
RecordFailure(j, ceiling) ==
  IF j.target = NoVersion
  THEN Enter(j, "failed")
  ELSE LET counted == [j EXCEPT !.failures[j.target] = @ + 1]
           failed  == Enter(counted, "failed")
       IN  IF counted.failures[j.target] < ceiling THEN failed
           ELSE Refuse(failed, j.target)

\* Mutant: a phase no reader of the journal knows.
RecordSuccess_UnknownPhase(j) == Enter(j, IF IsRollback(j) THEN "restored" ELSE "completed")

RecordSuccess(j) ==
  LET cleared == IF j.target = NoVersion THEN j
                 ELSE [j EXCEPT !.failures[j.target] = 0]
  IN  Enter(cleared, IF IsRollback(j) THEN "rolled_back" ELSE "completed")

-----------------------------------------------------------------------------
(* The single pending report.                                               *)

\* ReportOutcome: the report of the terminal state the journal is in.
ReportOutcome(j, id) == [id |-> id, outcome |-> OutcomeFingerprint(j)]

MarkReportPending(j, r) == [j EXCEPT !.pending = r]

MarkReportPendingIfFree(j, r) ==
  IF j.pending # NoReport THEN [j EXCEPT !.dropped = @ + 1]
  ELSE MarkReportPending(j, r)

\* Mutant: the slot is cleared and nothing marked as reported.
MarkOutcomeReported_NotMarked(j) == [j EXCEPT !.pending = NoReport, !.queueFails = 0]

\* The outbox took the report: the slot is cleared, and what is marked as
\* reported is the state the journal is in NOW.
MarkOutcomeReported(j) ==
  [j EXCEPT !.pending = NoReport, !.queueFails = 0, !.reported = OutcomeFingerprint(j)]

\* Mutant: the outcome given up on is not kept.
RecordReportQueueFailure_Discards(j) ==
  IF j.queueFails + 1 < ReportMaxAttempts
  THEN [j EXCEPT !.queueFails = @ + 1]
  ELSE [j EXCEPT !.reported = OutcomeFingerprint(j), !.pending = NoReport, !.queueFails = 0]

\* Mutant: a report the outbox keeps refusing is counted as lost, and not kept.
RecordReportQueueFailure_Drops(j) ==
  IF j.queueFails + 1 < ReportMaxAttempts
  THEN [j EXCEPT !.queueFails = @ + 1]
  ELSE [j EXCEPT !.reported = OutcomeFingerprint(j), !.pending = NoReport, !.queueFails = 0,
                 !.dropped = @ + 1]

RecordReportQueueFailure(j) ==
  IF j.queueFails + 1 < ReportMaxAttempts
  THEN [j EXCEPT !.queueFails = @ + 1]
  ELSE [j EXCEPT !.quarantined = @ \cup {j.pending}, !.reported = OutcomeFingerprint(j),
                 !.pending = NoReport, !.queueFails = 0]

\* What a journal written earlier looks like once InstallGrace has gone by.
Aged(j) ==
  LET older(s) == IF s = "none" THEN "none" ELSE "old"
  IN  [j EXCEPT !.attemptAt = older(@), !.inFlight = older(@)]
=============================================================================

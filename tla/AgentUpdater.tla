---------------------------- MODULE AgentUpdater ----------------------------
(***************************************************************************)
(* One device's auto-updater: the pass the service and an operator's       *)
(* --once run (updateplatform.Tick, which calls agentupdate.Reconcile and  *)
(* agentupdate.Run), the operator's --rollback (agentupdate.Rollback), and *)
(* the machine they act on: the agent, its steering redirect and the       *)
(* detached installer.                                                     *)
(*                                                                         *)
(* A process that wants to act takes the device lock, loads the journal    *)
(* from disk into memory, and from then on changes the memory copy and     *)
(* saves it before each thing it does.  One action of this module is the   *)
(* code between two such effects, so a crash can fall between any two of   *)
(* them.  A save can fail, leaving either journal on the disk (durablefile *)
(* renames and then flushes the directory).                                *)
(***************************************************************************)
EXTENDS UpdateJournal, FiniteSets

CONSTANTS
  Procs,           \* processes that may run a pass: the service, an operator
  NoProc,
  InitialVersion,  \* what the device is running to begin with
  FailOpen,        \* Platform.DisarmBeforeUpdate
  Requests,        \* what a process may ask for: "tick", "rollback"
  SlowStage,       \* may the download outlast InstallGrace?
  FaultKinds,      \* what may go wrong
  MaxFaults,       \* bound: how many things go wrong in one behaviour
  MaxSeq           \* bound: terminal outcomes in one behaviour

ASSUME UpdaterAssumption ==
  /\ NoProc \notin Procs
  /\ InitialVersion \in Versions
  /\ FailOpen \in BOOLEAN
  /\ SlowStage \in BOOLEAN
  /\ Requests \subseteq {"tick", "rollback"}
  /\ MaxFaults \in Nat
  /\ MaxSeq \in Nat

VARIABLES
  disk,        \* the journal file
  lock,        \* the process holding the device lock, or NoProc
  pc,          \* where each process is in its pass
  mem,         \* the journal each process has in memory
  arg,         \* the rest of a pass: request, version seen, offer, frozen, late
  outbox,      \* reports that reached the outbox
  steering,    \* "armed" or "cleared"
  agentVer,    \* the version installed, which runs whenever the agent is up
  agentUp,     \* is the agent running and reporting its version?
  installing,  \* how many installers for each version are running
  nextId,      \* the next report id
  faults,      \* what has gone wrong so far
  cause,       \* history: why steering was last left cleared
  downSeq      \* history: TerminalSeq when steering was last taken down

vars == <<disk, lock, pc, mem, arg, outbox, steering, agentVer, agentUp,
          installing, nextId, faults, cause, downSeq>>

machine == <<steering, agentVer, agentUp, installing, cause, downSeq>>

Args == [req : {"tick", "rollback"}, seen : Versions \cup {NoVersion},
         offer : Versions \cup {NoVersion}, frozen : BOOLEAN, late : BOOLEAN]

NoArg == [req |-> "tick", seen |-> NoVersion, offer |-> NoVersion,
          frozen |-> FALSE, late |-> FALSE]

FlushPoints == {"drain", "settle", "queue", "final"}

\* Where a pass goes on after flushPendingReport, and the point at which the
\* result of a flush is saved.
After == [drain |-> "reconcile", settle |-> "owed", queue |-> "fetch", final |-> "release"]

Saving == [drain |-> "drain_save", settle |-> "settle_save",
           queue |-> "queue_save", final |-> "final_save"]

\* Steering has been taken down by this pass and no installer launched yet.
Window == {"exec", "launch", "restore", "rearm"}

PCs == FlushPoints \cup Window
       \cup {"drain_save", "settle_save", "queue_save", "final_save"}
       \cup {"idle", "reconcile", "owed", "fetch", "stage", "run", "gate", "rollback",
             "disarm", "disarming", "record", "report", "release"}

\* How many faults there were (n), how many of them end an attempt or a pass that
\* nobody counts (died), whether a save has failed (unsaved), and whether a pass
\* that had outlasted InstallGrace has handed over to an installer (late).
Faults == [n : Nat, died : Nat, unsaved : BOOLEAN, late : BOOLEAN]

TypeOK ==
  /\ disk \in Journal
  /\ lock \in Procs \cup {NoProc}
  /\ pc \in [Procs -> PCs]
  /\ mem \in [Procs -> Journal]
  /\ arg \in [Procs -> Args]
  /\ outbox \subseteq Report
  /\ steering \in {"armed", "cleared"}
  /\ agentVer \in Versions
  /\ agentUp \in BOOLEAN
  /\ installing \in [Versions -> Nat]
  /\ nextId \in Nat
  /\ faults \in Faults
  /\ cause \in {"none", "installer", "unconfirmed", "crash"}
  /\ downSeq \in Nat

Init ==
  /\ disk = NewJournal
  /\ lock = NoProc
  /\ pc = [p \in Procs |-> "idle"]
  /\ mem = [p \in Procs |-> NewJournal]
  /\ arg = [p \in Procs |-> NoArg]
  /\ outbox = {}
  /\ steering = "armed"
  /\ agentVer = InitialVersion
  /\ agentUp = TRUE
  /\ installing = [v \in Versions |-> 0]
  /\ nextId = 1
  /\ faults = [n |-> 0, died |-> 0, unsaved |-> FALSE, late |-> FALSE]
  /\ cause = "none"
  /\ downSeq = 0

-----------------------------------------------------------------------------
(* Building blocks.                                                         *)

Fault(kind) ==
  /\ kind \in FaultKinds
  /\ faults.n < MaxFaults
  /\ faults' = [faults EXCEPT !.n = @ + 1,
                              !.died = IF kind \in {"crash", "save", "abort"} THEN @ + 1 ELSE @,
                              !.unsaved = @ \/ kind = "save"]

Idle(v) == installing[v] = 0

NoInstaller == \A v \in Versions : Idle(v)

\* RunningVersion: NoVersion stands for ErrAgentNotRunning.
RunningVersion == IF agentUp THEN agentVer ELSE NoVersion

\* Stamps are taken from the moment the pass began: written by a pass that has
\* meanwhile outlasted InstallGrace they are old when they reach the disk.
Written(p, j) == IF arg[p].late THEN Aged(j) ELSE j

SaveOk(p, j) == disk' = Written(p, j) /\ UNCHANGED faults

SaveFails(p, j) ==
  /\ Fault("save")
  /\ disk' \in {disk, Written(p, j)}

\* save(j), going on to ok, or to err when it fails.
Save(p, j, ok, err) ==
  /\ mem' = [mem EXCEPT ![p] = j]
  /\ \/ SaveOk(p, j)    /\ pc' = [pc EXCEPT ![p] = ok]
     \/ SaveFails(p, j) /\ pc' = [pc EXCEPT ![p] = err]

\* A step that writes nothing and goes on to label l.
Skip(p, l) ==
  /\ pc' = [pc EXCEPT ![p] = l]
  /\ UNCHANGED <<disk, mem, faults>>

\* Mutant: a failed rollback counts against the version it was restoring.
FailedAttempt_Counted(p) == RecordFailure(mem[p], MaxAttempts)

\* What a failed hand-over leaves in the journal: Run counts it against the
\* target, Rollback against nothing.
FailedAttempt(p) ==
  IF arg[p].req = "rollback" THEN Enter(mem[p], "failed")
  ELSE RecordFailure(mem[p], MaxAttempts)

\* Run is followed by the rest of the tick, Rollback by nothing.
AfterRun(p) == IF arg[p].req = "tick" THEN "report" ELSE "release"

\* A freshly built report for what j owes.
OweReport(j) == MarkReportPendingIfFree(j, ReportOutcome(j, nextId))

\* Only a report that took the slot has an id anyone can see.
TakeId(j) == nextId' = IF j.pending = NoReport THEN nextId + 1 ELSE nextId

-----------------------------------------------------------------------------
(* Taking and releasing the device lock.                                    *)

Start(p) ==
  /\ pc[p] = "idle"
  /\ lock = NoProc
  /\ \E r \in Requests :
       /\ arg' = [arg EXCEPT ![p] = [NoArg EXCEPT !.req = r]]
       /\ pc' = [pc EXCEPT ![p] = IF r = "tick" THEN "drain" ELSE "rollback"]
  /\ lock' = p
  /\ mem' = [mem EXCEPT ![p] = disk]
  /\ UNCHANGED <<disk, outbox, nextId, faults, machine>>

\* The process is gone or done: nothing of the pass survives in memory.
Leave(p) ==
  /\ pc' = [pc EXCEPT ![p] = "idle"]
  /\ mem' = [mem EXCEPT ![p] = NewJournal]
  /\ arg' = [arg EXCEPT ![p] = NoArg]
  /\ lock' = IF lock = p THEN NoProc ELSE lock

Release(p) ==
  /\ pc[p] = "release"
  /\ Leave(p)
  /\ UNCHANGED <<disk, outbox, nextId, faults, machine>>

Crash(p) ==
  /\ pc[p] # "idle"
  /\ Fault("crash")
  /\ Leave(p)
  /\ cause' = IF steering = "cleared" /\ pc[p] \in Window THEN "crash" ELSE cause
  /\ UNCHANGED <<disk, outbox, nextId, steering, agentVer, agentUp, installing, downSeq>>

-----------------------------------------------------------------------------
(* Tick, before Run: drain, reconcile, settle what is owed.                 *)

FlushNothing(p) ==
  /\ pc[p] \in FlushPoints
  /\ mem[p].pending = NoReport
  /\ Skip(p, After[pc[p]])
  /\ UNCHANGED <<lock, arg, outbox, nextId, machine>>

FlushAppended(p) ==
  /\ pc[p] \in FlushPoints
  /\ mem[p].pending # NoReport
  /\ outbox' = outbox \cup {mem[p].pending}
  /\ mem' = [mem EXCEPT ![p] = MarkOutcomeReported(@)]
  /\ pc' = [pc EXCEPT ![p] = Saving[pc[p]]]
  /\ UNCHANGED <<disk, lock, arg, nextId, faults, machine>>

FlushRefused(p) ==
  /\ pc[p] \in FlushPoints
  /\ mem[p].pending # NoReport
  /\ Fault("outbox")
  /\ mem' = [mem EXCEPT ![p] = RecordReportQueueFailure(@)]
  /\ pc' = [pc EXCEPT ![p] = Saving[pc[p]]]
  /\ UNCHANGED <<disk, lock, arg, outbox, nextId, machine>>

\* The journal is saved either way, and a failure to save is only noted.
FlushSave(p) ==
  /\ \E f \in FlushPoints :
       /\ pc[p] = Saving[f]
       /\ Save(p, mem[p], After[f], After[f])
  /\ UNCHANGED <<lock, arg, outbox, nextId, machine>>

\* Reconcile: an open attempt whose target is what runs has landed.
Landed(j) ==
  /\ Interrupted(j)
  /\ RunningVersion # NoVersion
  /\ RunningVersion = j.target

Reconcile(p) ==
  /\ pc[p] = "reconcile"
  /\ arg' = [arg EXCEPT ![p].seen = RunningVersion]
  /\ IF Landed(mem[p])
     THEN LET done == RecordSuccess(mem[p])
          IN  /\ Save(p, MarkReportPending(done, ReportOutcome(done, nextId)),
                      "settle", "release")
              /\ nextId' = nextId + 1
     ELSE /\ Skip(p, "owed")
          /\ UNCHANGED nextId
  /\ UNCHANGED <<lock, outbox, machine>>

\* OwesOutcomeReport: the slot takes the report, or the loss is counted.
Owe(p, next) ==
  /\ IF OwesOutcomeReport(mem[p])
     THEN Save(p, OweReport(mem[p]), next, next) /\ TakeId(mem[p])
     ELSE Skip(p, next) /\ UNCHANGED nextId
  /\ UNCHANGED <<lock, arg, outbox, machine>>

Owed(p) == pc[p] = "owed" /\ Owe(p, "queue")

\* An outcome still waiting stops the pass.  Otherwise a manifest may be on
\* offer; its plan may freeze the device, and may raise the plan floor, which
\* saves the journal.  A release not newer than what was seen running ends the
\* pass, unless the manifest is for another platform, which is left to Run.
Fetch(p) ==
  /\ pc[p] = "fetch"
  /\ \/ /\ Skip(p, "release")
        /\ UNCHANGED arg
     \/ /\ mem[p].pending = NoReport
        /\ \E v \in Versions, frozen \in BOOLEAN, next \in {"release", "stage"} :
             /\ next = "release" => arg[p].seen # NoVersion /\ v <= arg[p].seen
             /\ arg' = [arg EXCEPT ![p].offer = v, ![p].frozen = frozen]
             /\ Skip(p, next) \/ Save(p, mem[p], next, next)
  /\ UNCHANGED <<lock, outbox, nextId, machine>>

\* A package that cannot be staged ends the pass before Run is called; a
\* frozen device does not stage.
Stage(p) ==
  /\ pc[p] = "stage"
  /\ Skip(p, "run") \/ (~arg[p].frozen /\ Skip(p, "release"))
  /\ UNCHANGED <<lock, arg, outbox, nextId, machine>>

-----------------------------------------------------------------------------
(* agentupdate.Run.                                                         *)

\* Mutant: an open attempt is never closed here.
RunOutstanding_LeftOpen(p) ==
  /\ pc[p] = "run"
  /\ Interrupted(mem[p])
  /\ Skip(p, "report")
  /\ UNCHANGED <<lock, arg, outbox, nextId, machine>>

\* Mutant: an open attempt is closed however young it is.
RunOutstanding_NoGrace(p) ==
  /\ pc[p] = "run"
  /\ Interrupted(mem[p])
  /\ Save(p, Enter(mem[p], "failed"), "report", "report")
  /\ UNCHANGED <<lock, arg, outbox, nextId, machine>>

\* An attempt whose installer may still be running is left alone; an older one
\* is closed as failed; a poisoned or inapplicable release is not attempted.
RunOutstanding(p) ==
  /\ pc[p] = "run"
  /\ Interrupted(mem[p])
  /\ IF InstallIsYoung(mem[p])
     THEN Skip(p, "report")
     ELSE Save(p, Enter(mem[p], "failed"), "report", "report")
  /\ UNCHANGED <<lock, arg, outbox, nextId, machine>>

\* Mutant: a refused version is attempted again.
MayAttempt_Poisoned(p) ==
  /\ ~Interrupted(mem[p])
  /\ RunningVersion # NoVersion
  /\ arg[p].offer > RunningVersion

MayAttempt(p) ==
  /\ ~Interrupted(mem[p])
  /\ ~IsPoisoned(mem[p], arg[p].offer)
  /\ RunningVersion # NoVersion
  /\ arg[p].offer > RunningVersion

\* Not attempted: for want of MayAttempt, or because the manifest is for
\* another platform or migrates only from a newer version.
RunRefused(p) ==
  /\ pc[p] = "run"
  /\ ~Interrupted(mem[p])
  /\ Skip(p, "report")
  /\ UNCHANGED <<lock, arg, outbox, nextId, machine>>

RunBegin(p) ==
  /\ pc[p] = "run"
  /\ MayAttempt(p)
  /\ mem[p].seq < MaxSeq
  /\ LET j == mem[p] IN
     IF j.target # arg[p].offer \/ j.attemptAt = "none" \/ Terminal(j)
     THEN Save(p, Begin(j, arg[p].offer, RunningVersion), "gate", "report")
     ELSE IF j.from # RunningVersion
          THEN Save(p, [j EXCEPT !.from = RunningVersion], "gate", "report")
          ELSE Skip(p, "gate")
  /\ UNCHANGED <<lock, arg, outbox, nextId, machine>>

\* The gate holds (the wait is recorded), or restore material is missing, or
\* the attempt goes on.
RunGate(p) ==
  /\ pc[p] = "gate"
  /\ \/ Save(p, mem[p], "report", "report")
     \/ ~arg[p].frozen /\ Skip(p, "report")
     \/ /\ ~arg[p].frozen
        /\ Save(p, Enter(mem[p], "snapshotted"),
                IF FailOpen THEN "disarm" ELSE "exec", "report")
  /\ UNCHANGED <<lock, arg, outbox, nextId, machine>>

-----------------------------------------------------------------------------
(* The steps Run and Rollback share: disarm, hand over, and put steering    *)
(* back when the installer was not launched.                                *)

\* Mutant: steering is taken down before the journal says so.
RecordDisarm_NotSaved(p) ==
  /\ pc[p] = "disarm"
  /\ mem' = [mem EXCEPT ![p] = Enter(@, "disarmed")]
  /\ pc' = [pc EXCEPT ![p] = "disarming"]
  /\ UNCHANGED <<disk, lock, arg, outbox, nextId, faults, machine>>

RecordDisarm(p) ==
  /\ pc[p] = "disarm"
  /\ Save(p, Enter(mem[p], "disarmed"), "disarming", AfterRun(p))
  /\ UNCHANGED <<lock, arg, outbox, nextId, machine>>

Disarm(p) ==
  /\ pc[p] = "disarming"
  /\ steering' = "cleared"
  /\ cause' = "none"
  /\ downSeq' = mem[p].seq
  /\ pc' = [pc EXCEPT ![p] = "exec"]
  /\ UNCHANGED <<disk, lock, mem, arg, outbox, agentVer, agentUp, installing, nextId,
                 faults>>

\* Disarm could not be confirmed: the redirect may or may not be gone.
DisarmFails(p) ==
  /\ pc[p] = "disarming"
  /\ Fault("disarm")
  /\ \/ UNCHANGED <<steering, cause, downSeq>>
     \/ steering' = "cleared" /\ cause' = "unconfirmed" /\ downSeq' = mem[p].seq
  /\ mem' = [mem EXCEPT ![p] = FailedAttempt(p)]
  /\ pc' = [pc EXCEPT ![p] = "record"]
  /\ UNCHANGED <<disk, lock, arg, outbox, agentVer, agentUp, installing, nextId>>

\* Mutant: no deferred Rearm when the hand-over cannot be recorded.
RecordExecute_NoDefer(p) ==
  /\ pc[p] = "exec"
  /\ LET handedOver == IF arg[p].req = "rollback" THEN "rolling_back" ELSE "executing"
     IN  Save(p, Enter(mem[p], handedOver), "launch", AfterRun(p))
  /\ UNCHANGED <<lock, arg, outbox, nextId, machine>>

RecordExecute(p) ==
  /\ pc[p] = "exec"
  /\ LET handedOver == IF arg[p].req = "rollback" THEN "rolling_back" ELSE "executing"
     IN  Save(p, Enter(mem[p], handedOver), "launch",
              IF FailOpen THEN "rearm" ELSE AfterRun(p))
  /\ UNCHANGED <<lock, arg, outbox, nextId, machine>>

Launch(p) ==
  /\ pc[p] = "launch"
  /\ installing' = [installing EXCEPT ![mem[p].target] = @ + 1]
  /\ cause' = IF steering = "cleared" THEN "installer" ELSE cause
  /\ pc' = [pc EXCEPT ![p] = AfterRun(p)]
  /\ faults' = IF arg[p].late THEN [faults EXCEPT !.late = TRUE] ELSE faults
  /\ UNCHANGED <<disk, lock, mem, arg, outbox, steering, agentVer, agentUp, nextId, downSeq>>

LaunchFails(p) ==
  /\ pc[p] = "launch"
  /\ Fault("execute")
  /\ pc' = [pc EXCEPT ![p] = "restore"]
  /\ UNCHANGED <<disk, lock, mem, arg, outbox, nextId, machine>>

\* The agent (re)starts, and applies the redirect.
AgentArms ==
  /\ agentUp' = TRUE
  /\ steering' = "armed"
  /\ cause' = "none"
  /\ downSeq' = 0

\* Platform.Rearm restarts the agent service and asks the driver.
Rearmed == AgentArms /\ UNCHANGED faults

RearmFails ==
  /\ Fault("rearm")
  /\ agentUp' \in BOOLEAN
  /\ cause' = "unconfirmed"
  /\ UNCHANGED <<steering, downSeq>>

\* restoreSteering after a failed launch, then the failure is recorded.
Restore(p) ==
  /\ pc[p] = "restore"
  /\ IF FailOpen THEN Rearmed \/ RearmFails
     ELSE UNCHANGED <<steering, agentUp, cause, downSeq, faults>>
  /\ mem' = [mem EXCEPT ![p] = FailedAttempt(p)]
  /\ pc' = [pc EXCEPT ![p] = "record"]
  /\ UNCHANGED <<disk, lock, arg, outbox, agentVer, installing, nextId>>

\* The deferred Rearm, when the hand-over could not be recorded.  A failure is
\* noted in the journal, which is then saved.
DeferredRearm(p) ==
  /\ pc[p] = "rearm"
  /\ \/ Rearmed    /\ pc' = [pc EXCEPT ![p] = AfterRun(p)]
     \/ RearmFails /\ pc' = [pc EXCEPT ![p] = "record"]
  /\ UNCHANGED <<disk, lock, mem, arg, outbox, agentVer, installing, nextId>>

RecordFailedAttempt(p) ==
  /\ pc[p] = "record"
  /\ Save(p, mem[p], AfterRun(p), AfterRun(p))
  /\ UNCHANGED <<lock, arg, outbox, nextId, machine>>

\* Tick after Run: a terminal outcome Run left is put in the slot.
ReportRun(p) == pc[p] = "report" /\ Owe(p, "final")

-----------------------------------------------------------------------------
(* agentupdate.Rollback, called with the version the operator named (or     *)
(* none) and the version the registry says is installed (or none).          *)

\* Mutant: the rollback erases what the journal still owes.
StackOutcome_Erased(j) == j

\* What the journal still owes, or what a stale open attempt amounts to, is
\* moved into the slot before the rollback overwrites it.
StackOutcome(j) ==
  IF OwesOutcomeReport(j) THEN OweReport(j)
  ELSE IF Interrupted(j)
       THEN OweReport(IF IsRollback(j) THEN Enter(j, "failed")
                      ELSE RecordFailure(j, DefaultMaxAttempts))
       ELSE j

RollbackTarget(j, to) == IF to = NoVersion THEN j.from ELSE to

\* Mutant: a rollback does not wait for an installer that may be running.
RollbackRefused_AnyAge(j, to) ==
  \/ to = NoVersion /\ IsRollback(j)
  \/ RollbackTarget(j, to) \in {NoVersion, RunningVersion}

RollbackRefused(j, to) ==
  \/ Interrupted(j) /\ InstallIsYoung(j)
  \/ to = NoVersion /\ IsRollback(j)
  \/ RollbackTarget(j, to) \in {NoVersion, RunningVersion}

\* Refused, or no package is held for the target: nothing is saved.
RollbackNothing(p) ==
  /\ pc[p] = "rollback"
  /\ Skip(p, "release")
  /\ UNCHANGED <<lock, arg, outbox, nextId, machine>>

RollbackBegin(p) ==
  /\ pc[p] = "rollback"
  /\ mem[p].seq < MaxSeq
  /\ \E to \in Versions \cup {NoVersion}, installed \in {agentVer, NoVersion} :
       LET j       == mem[p]
           stacked == StackOutcome(j)
           target  == RollbackTarget(j, to)
           leaving == IF agentUp THEN agentVer ELSE installed
           begun   == BeginRollback(stacked, target, leaving)
       IN  /\ ~RollbackRefused(j, to)
           /\ Save(p, IF leaving = target THEN begun ELSE Refuse(begun, leaving),
                   IF FailOpen THEN "disarm" ELSE "exec", "release")
           /\ nextId' = IF stacked.pending # j.pending THEN nextId + 1 ELSE nextId
  /\ UNCHANGED <<lock, arg, outbox, machine>>

-----------------------------------------------------------------------------
(* The machine: the agent, the detached installer, and time.  The agent     *)
(* arms the redirect whenever it starts; while an installer runs the agent  *)
(* is its to start.                                                         *)

AgentStops ==
  /\ agentUp
  /\ Fault("agent")
  /\ agentUp' = FALSE
  /\ UNCHANGED <<disk, lock, pc, mem, arg, outbox, steering, agentVer, installing, nextId,
                 cause, downSeq>>

AgentStarts ==
  /\ ~agentUp
  /\ NoInstaller
  /\ AgentArms
  /\ UNCHANGED <<disk, lock, pc, mem, arg, outbox, agentVer, installing, nextId, faults>>

InstallerCompletes(v) ==
  /\ ~Idle(v)
  /\ installing' = [installing EXCEPT ![v] = @ - 1]
  /\ agentVer' = v
  /\ AgentArms
  /\ UNCHANGED <<disk, lock, pc, mem, arg, outbox, nextId, faults>>

\* The installer gives up; the device keeps its version, and the agent may or
\* may not have been restarted.
InstallerAborts(v) ==
  /\ ~Idle(v)
  /\ Fault("abort")
  /\ installing' = [installing EXCEPT ![v] = @ - 1]
  /\ AgentArms \/ UNCHANGED <<steering, agentUp, cause, downSeq>>
  /\ UNCHANGED <<disk, lock, pc, mem, arg, outbox, agentVer, nextId>>

\* InstallGrace goes by: no installer lasts that long, and no pass does except,
\* perhaps, while it downloads.
TimePasses ==
  /\ NoInstaller
  /\ \A p \in Procs : pc[p] = "idle" \/ (SlowStage /\ pc[p] = "stage")
  /\ disk' = Aged(disk)
  /\ arg' = [p \in Procs |-> IF pc[p] = "stage" THEN [arg[p] EXCEPT !.late = TRUE]
                             ELSE arg[p]]
  /\ UNCHANGED <<lock, pc, mem, outbox, nextId, faults, machine>>

-----------------------------------------------------------------------------
TickStep(p) ==
  \/ FlushNothing(p) \/ FlushAppended(p) \/ FlushRefused(p) \/ FlushSave(p)
  \/ Reconcile(p) \/ Owed(p) \/ Fetch(p) \/ Stage(p) \/ ReportRun(p)

RunStep(p) ==
  \/ RunOutstanding(p) \/ RunRefused(p) \/ RunBegin(p) \/ RunGate(p)

HandOverStep(p) ==
  \/ RecordDisarm(p) \/ Disarm(p) \/ DisarmFails(p)
  \/ RecordExecute(p) \/ Launch(p) \/ LaunchFails(p)
  \/ Restore(p) \/ DeferredRearm(p) \/ RecordFailedAttempt(p)

RollbackStep(p) == RollbackNothing(p) \/ RollbackBegin(p)

PassStep(p) == TickStep(p) \/ RunStep(p) \/ HandOverStep(p) \/ RollbackStep(p) \/ Release(p)

MachineStep ==
  \/ AgentStops \/ AgentStarts \/ TimePasses
  \/ \E v \in Versions : InstallerCompletes(v) \/ InstallerAborts(v)

Next ==
  \/ \E p \in Procs : Start(p) \/ PassStep(p) \/ Crash(p)
  \/ MachineStep

Spec == Init /\ [][Next]_vars

-----------------------------------------------------------------------------
(* Fairness.  A pass under way goes on (the process is scheduled, and every  *)
(* call it makes returns); the service ticks again and again, and finds the  *)
(* lock free some of the time; InstallGrace, a third of the tick interval,   *)
(* goes by between ticks; an installer ends.  FairSpec adds that a release   *)
(* newer than what is seen running stays published and can be staged.        *)

StartTick(p) == Start(p) /\ arg'[p].req = "tick"

\* A pass is offered a release it does not know the device to have, and stages it.
Offered(p) == Fetch(p) /\ pc'[p] = "stage" /\ arg'[p].offer > arg[p].seen

Staged(p) == Stage(p) /\ pc'[p] = "run"

InstallerEnds == \E v \in Versions : InstallerCompletes(v) \/ InstallerAborts(v)

Fairness ==
  /\ \A p \in Procs : WF_vars(PassStep(p))
  /\ SF_vars(\E p \in Procs : StartTick(p))
  /\ SF_vars(TimePasses)
  /\ WF_vars(InstallerEnds)

FairSpec ==
  /\ Spec
  /\ Fairness
  /\ \A p \in Procs : SF_vars(Offered(p)) /\ SF_vars(Staged(p))

-----------------------------------------------------------------------------
(* Properties.                                                              *)

\* No installer was handed over by a pass whose download had outlasted
\* InstallGrace: what the pass stamps is as old as the pass, so the grace of such
\* an installer has run out before it starts (staging.go allows the download 30
\* minutes, InstallGrace is 10).
Punctual == ~faults.late

\* Every save has succeeded so far.
AllSaved == ~faults.unsaved

\* Two installers never run on one device at a time, unless one was handed over
\* late: the device lock, the journal written before the hand-over and
\* InstallGrace together exclude it.
OneInstaller ==
  Punctual =>
    \A v, w \in Versions :
      ~Idle(v) /\ ~Idle(w) => v = w /\ installing[v] = 1

\* An outcome is queued under one id, by which the Edge recognises a retry: what
\* tick.go promises without a condition ("so the Edge sees one event").
EdgeSeesOneEvent == \A a, b \in outbox : a.outcome = b.outcome => a.id = b.id

\* As long as no save has failed, the Edge sees one event: the report is in the
\* journal before it is in the outbox, so a pass that dies between the append and
\* the mark is repeated by one that finds the same report.
OneReportPerOutcome == AllSaved => EdgeSeesOneEvent

\* The terminal outcomes (numbered by TerminalSeq) the fleet will never hear
\* of: not in the outbox, not in the slot, not quarantined on the device, and
\* not owed by the journal.
Lost ==
  LET held == outbox \cup {disk.pending} \cup disk.quarantined
      owed == IF OwesOutcomeReport(disk) THEN {disk.seq} ELSE {}
  IN  (1 .. disk.seq) \ ({r.outcome.seq : r \in held} \cup owed)

\* Every terminal outcome that reached the disk reaches the outbox, or is
\* waiting, or is quarantined, or is counted as dropped.
LossesAreCounted == Cardinality(Lost) <= disk.dropped

\* Steering that an attempt took down stays down after the pass only when an
\* installer was launched, when restoring it was tried and not confirmed, or
\* when the process died in between.
SteeringIsRestored ==
  steering = "cleared" /\ cause = "none" => \E p \in Procs : pc[p] \in Window

\* While steering is down the journal on disk says so, until the failure of the
\* attempt that took it down is on record.
SteeringLossIsOnRecord ==
  steering = "cleared" => NeedsNetworkRecovery(disk) \/ disk.seq > downSeq

\* A version this device refuses stays refused, whatever is saved by whom.
PoisonIsPermanent == [][disk.poisoned \subseteq disk'.poisoned]_vars

\* An update never hands a refused version to the installer, and a rollback hands
\* its version over only after the one it leaves is refused (as long as no
\* installer was handed over late).
PoisonedIsNotInstalled ==
  [][\A v \in Versions : Punctual /\ installing'[v] > installing[v] =>
       /\ disk.kind = "update" => v \notin disk.poisoned
       /\ disk.kind = "rollback" => disk.from \in disk.poisoned \cup {NoVersion, disk.target}]_vars

\* A rollback pass that finds an unfinished rollback, or fails itself, counts no
\* failure against a version and does not refuse the version it is restoring.
RollbackBlamesNobody ==
  [][\A p \in Procs :
       arg[p].req = "rollback" /\ IsRollback(mem[p]) /\ IsRollback(mem'[p]) =>
         /\ mem'[p].failures = mem[p].failures
         /\ mem'[p].target \notin mem'[p].poisoned \ mem[p].poisoned]_vars

\* Every terminal outcome reaches the outbox or is quarantined: a full disk or a
\* crash delays a report and does not stop the passes that would deliver it.
EveryOutcomeIsSettled ==
  \A n \in 1 .. MaxSeq :
    disk.seq >= n ~> \E r \in outbox \cup disk.quarantined : r.outcome.seq = n

\* An attempt that died part way is closed, as landed or as failed.
OpenAttemptIsClosed == Interrupted(disk) ~> ~Interrupted(disk)

\* The reports that v failed.
Failures(v) == {r \in outbox : r.outcome.phase = "failed" /\ r.outcome.target = v}

\* A version is given up after MaxAttempts failures.  A crash, a failed save and an
\* installer that dies can each cost one failure more, because the attempt they
\* end is closed as failed without being counted; nothing else can, and the
\* ceiling itself still holds.
FailuresAreBounded ==
  Punctual => \A v \in Versions : Cardinality(Failures(v)) <= MaxAttempts + faults.died

\* An attempt is not written off as failed while its installer is running, unless
\* the installer was handed over late.
OnlyLateIsWrittenOff ==
  [][Punctual => NoInstaller \/ disk'.phase # "failed" \/ ~Interrupted(disk)]_vars

-----------------------------------------------------------------------------
(* What the code's comments promise without the conditions above.            *)

\* journal.go: failures are counted per version, and the device stops.
StopsAfterMaxAttempts == \A v \in Versions : Cardinality(Failures(v)) <= MaxAttempts

\* journal.go: a just-launched installer is not called interrupted.
RunningInstallerIsNotFailed ==
  [][NoInstaller \/ disk'.phase # "failed" \/ ~Interrupted(disk)]_vars
=============================================================================

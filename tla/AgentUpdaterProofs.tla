------------------------- MODULE AgentUpdaterProofs -------------------------
(***************************************************************************)
(* Proofs about AgentUpdater, for any set of processes, any versions, any  *)
(* kinds and number of faults, either steering posture: type correctness,  *)
(* refusals, steering, whom a rollback blames, and that one installer runs *)
(* at a time.  What the fleet is told is in OutcomeProofs.                 *)
(***************************************************************************)
EXTENDS AgentUpdater, TLAPS

-----------------------------------------------------------------------------
(* The journal operations map journals to journals.                         *)

\* NewJournal: the journal of a device that never updated is well formed.
LEMMA NewJournalType == NewJournal \in Journal
BY DEF NewJournal, Journal, Phases, NoVersion, NoOutcome, Outcome, NoReport, Report,
       Stamps, CountedPhases

\* Enter: entering any phase keeps the journal well formed.
LEMMA EnterType ==
  ASSUME NEW j \in Journal, NEW ph \in Phases
  PROVE  Enter(j, ph) \in Journal
<1> DEFINE sq == IF j.phase # ph /\ ph \in CountedPhases THEN j.seq + 1 ELSE j.seq
           fl == IF ph \in InFlightPhases /\ j.inFlight = "none" THEN "young" ELSE j.inFlight
<1>1. sq \in Nat
  BY DEF Journal
<1>2. fl \in Stamps
  BY DEF Journal, Stamps
<1>3. Enter(j, ph) = [j EXCEPT !.seq = sq, !.inFlight = fl, !.phase = ph]
  BY DEF Enter
<1> HIDE DEF sq, fl
<1> QED BY <1>1, <1>2, <1>3 DEF Journal

\* Refuse: refusing a version, or none, keeps the journal well formed.
LEMMA RefuseType ==
  ASSUME NEW j \in Journal, NEW v \in Versions \cup {NoVersion}
  PROVE  Refuse(j, v) \in Journal
BY DEF Refuse, Journal

\* Begin and BeginRollback: a new attempt keeps the journal well formed.
LEMMA BeginType ==
  ASSUME NEW j \in Journal, NEW t \in Versions \cup {NoVersion},
         NEW f \in Versions \cup {NoVersion}
  PROVE  Begin(j, t, f) \in Journal /\ BeginRollback(j, t, f) \in Journal
BY DEF Begin, BeginRollback, Journal, Phases, Stamps

\* RecordFailure: counting a failure keeps the journal well formed.
LEMMA RecordFailureType ==
  ASSUME NEW j \in Journal, NEW c \in Nat
  PROVE  RecordFailure(j, c) \in Journal
<1> DEFINE counted == [j EXCEPT !.failures[j.target] = @ + 1]
<1>1. CASE j.target = NoVersion
  BY <1>1, EnterType DEF RecordFailure, Phases
<1>2. CASE j.target # NoVersion
  <2>1. j.target \in Versions
    BY <1>2 DEF Journal
  <2>2. counted \in Journal
    BY <2>1 DEF Journal
  <2>3. Enter(counted, "failed") \in Journal
    BY <2>2, EnterType DEF Phases
  <2>4. Refuse(Enter(counted, "failed"), j.target) \in Journal
    BY <2>1, <2>3, RefuseType
  <2> QED BY <1>2, <2>3, <2>4 DEF RecordFailure
<1> QED BY <1>1, <1>2

\* RecordSuccess: closing an attempt as landed keeps the journal well formed.
LEMMA RecordSuccessType ==
  ASSUME NEW j \in Journal
  PROVE  RecordSuccess(j) \in Journal
<1> DEFINE cleared == IF j.target = NoVersion THEN j ELSE [j EXCEPT !.failures[j.target] = 0]
<1>1. cleared \in Journal
  BY DEF Journal
<1> QED BY <1>1, EnterType DEF RecordSuccess, Phases

\* OutcomeFingerprint: what identifies an outcome is one.
LEMMA FingerprintType ==
  ASSUME NEW j \in Journal
  PROVE  OutcomeFingerprint(j) \in Outcome
BY DEF OutcomeFingerprint, Journal, Outcome, NoOutcome, NoVersion, CountedPhases

\* The operations on the pending slot keep the journal well formed.
LEMMA SlotType ==
  ASSUME NEW j \in Journal, NEW r \in Report
  PROVE  /\ MarkReportPending(j, r) \in Journal
         /\ MarkReportPendingIfFree(j, r) \in Journal
         /\ MarkOutcomeReported(j) \in Journal
         /\ RecordReportQueueFailure(j) \in Journal
<1>1. OutcomeFingerprint(j) \in Outcome
  BY FingerprintType
<1>2. NoReport \in Report
  BY DEF NoReport, Report, NoOutcome, Outcome, NoVersion
<1>3. MarkReportPending(j, r) \in Journal
  BY DEF MarkReportPending, Journal
<1>4. MarkReportPendingIfFree(j, r) \in Journal
  BY <1>3 DEF MarkReportPendingIfFree, Journal
<1>5. MarkOutcomeReported(j) \in Journal
  BY <1>1, <1>2 DEF MarkOutcomeReported, Journal
<1>6. RecordReportQueueFailure(j) \in Journal
  <2>1. j.queueFails + 1 \in Nat
    BY DEF Journal
  <2>2. j.quarantined \cup {j.pending} \in SUBSET Report
    BY DEF Journal
  <2>3. [j EXCEPT !.queueFails = @ + 1] \in Journal
    BY <2>1 DEF Journal
  <2>4. [j EXCEPT !.quarantined = @ \cup {j.pending}, !.reported = OutcomeFingerprint(j),
                  !.pending = NoReport, !.queueFails = 0] \in Journal
    BY <1>1, <1>2, <2>2 DEF Journal
  <2> QED BY <2>3, <2>4 DEF RecordReportQueueFailure
<1> QED BY <1>3, <1>4, <1>5, <1>6

\* Aged: time passing keeps the journal well formed.
LEMMA AgedType ==
  ASSUME NEW j \in Journal
  PROVE  Aged(j) \in Journal
BY DEF Aged, Journal, Stamps

-----------------------------------------------------------------------------
(* Type correctness.                                                        *)

USE UpdaterAssumption, JournalAssumption

\* A fault is counted, leaves the mark of a late hand-over as it was, and the mark
\* of a failed save if there is one.
LEMMA FaultType ==
  ASSUME faults \in Faults, NEW kind, Fault(kind)
  PROVE  /\ faults' \in Faults /\ faults'.late = faults.late
         /\ faults.unsaved \/ kind = "save" => faults'.unsaved
         /\ faults'.died = IF kind \in {"crash", "save", "abort"} THEN faults.died + 1
                           ELSE faults.died
<1>1. faults.n \in Nat /\ faults.died \in Nat
  BY DEF Faults
<1>2. faults'.late = faults.late /\ faults.late \in BOOLEAN
  BY DEF Faults, Fault
<1>u. faults'.unsaved = (faults.unsaved \/ kind = "save") /\ faults.unsaved \in BOOLEAN
  BY Zenon DEF Faults, Fault
<1>3. /\ faults'.n = faults.n + 1
      /\ faults'.died = IF kind \in {"crash", "save", "abort"} THEN faults.died + 1
                        ELSE faults.died
  BY DEF Faults, Fault
<1>4. faults' \in Faults
  <2>1. PICK d, u : /\ d = IF kind \in {"crash", "save", "abort"} THEN faults.died + 1
                          ELSE faults.died
                   /\ u = (faults.unsaved \/ kind = "save")
                   /\ faults' = [faults EXCEPT !.n = faults.n + 1, !.died = d, !.unsaved = u]
    BY DEF Fault
  <2>2. d \in Nat
    BY <1>1, <2>1
  <2>3. faults' = [n |-> faults.n + 1, died |-> d, unsaved |-> u, late |-> faults.late]
    BY <2>1 DEF Faults
  <2>4. faults.n + 1 \in Nat
    BY <1>1
  <2>5. u \in BOOLEAN
    BY <2>1, Zenon
  <2> QED BY <1>2, <2>2, <2>3, <2>4, <2>5, Zenon DEF Faults
<1> QED BY <1>u, <1>2, <1>3, <1>4

\* Save: whether or not the write succeeds, disk and memory hold journals.
LEMMA SaveType ==
  ASSUME TypeOK, NEW p \in Procs, NEW j \in Journal, NEW ok \in PCs, NEW err \in PCs,
         Save(p, j, ok, err)
  PROVE  disk' \in Journal /\ mem' \in [Procs -> Journal]
         /\ pc' \in [Procs -> PCs] /\ faults' \in Faults
<1>1. Written(p, j) \in Journal
  BY AgedType DEF Written
<1>2. disk' \in Journal /\ faults' \in Faults
  <2>1. CASE SaveOk(p, j)
    BY <1>1, <2>1 DEF TypeOK, SaveOk
  <2>2. CASE SaveFails(p, j)
    BY <1>1, <2>2, FaultType DEF TypeOK, SaveFails
  <2> QED BY <2>1, <2>2 DEF Save
<1>3. mem' \in [Procs -> Journal] /\ pc' \in [Procs -> PCs]
  BY DEF TypeOK, Save
<1> QED BY <1>2, <1>3

\* A step that writes nothing leaves everything well formed.
LEMMA SkipType ==
  ASSUME TypeOK, NEW p \in Procs, NEW l \in PCs, Skip(p, l)
  PROVE  disk' \in Journal /\ mem' \in [Procs -> Journal]
         /\ pc' \in [Procs -> PCs] /\ faults' \in Faults
BY DEF TypeOK, Skip

\* The report of any journal under any id is a report, and owing it is safe.
LEMMA OweType ==
  ASSUME TypeOK, NEW j \in Journal
  PROVE  ReportOutcome(j, nextId) \in Report /\ OweReport(j) \in Journal
<1>1. ReportOutcome(j, nextId) \in Report
  BY FingerprintType DEF ReportOutcome, Report, TypeOK
<1> QED BY <1>1, SlotType DEF OweReport

\* The labels a pass goes on to are labels.
LEMMA LabelType ==
  /\ \A l \in FlushPoints : After[l] \in PCs /\ Saving[l] \in PCs
  /\ \A p \in Procs : AfterRun(p) \in PCs
BY DEF FlushPoints, After, Saving, PCs, AfterRun, Window

\* What a failed hand-over leaves in memory is a journal.
LEMMA FailedAttemptType ==
  ASSUME TypeOK, NEW p \in Procs
  PROVE  FailedAttempt(p) \in Journal
BY EnterType, RecordFailureType DEF FailedAttempt, TypeOK, Phases

\* Rearm leaves the machine well formed, confirmed or not.
LEMMA RearmType ==
  ASSUME TypeOK, Rearmed \/ RearmFails
  PROVE  /\ agentUp' \in BOOLEAN
         /\ steering' \in {"armed", "cleared"}
         /\ cause' \in {"none", "installer", "unconfirmed", "crash"}
         /\ downSeq' \in Nat
         /\ faults' \in Faults
<1>1. agentUp' \in BOOLEAN
  BY Zenon DEF Rearmed, RearmFails, AgentArms
<1>2. /\ steering' \in {"armed", "cleared"}
      /\ cause' \in {"none", "installer", "unconfirmed", "crash"}
  BY Zenon DEF Rearmed, RearmFails, AgentArms, TypeOK
<1>3. downSeq' \in Nat /\ faults' \in Faults
  BY FaultType DEF Rearmed, RearmFails, AgentArms, TypeOK
<1> QED BY <1>1, <1>2, <1>3

\* Every step of a pass keeps the state well formed.
LEMMA PassStepType ==
  ASSUME TypeOK, NEW p \in Procs, PassStep(p)
  PROVE  TypeOK'
<1> USE DEF machine
<1> DEFINE mine == /\ disk' \in Journal
                   /\ mem' \in [Procs -> Journal]
                   /\ pc' \in [Procs -> PCs]
                   /\ faults' \in Faults
           steered == /\ agentUp' \in BOOLEAN
                      /\ steering' \in {"armed", "cleared"}
                      /\ cause' \in {"none", "installer", "unconfirmed", "crash"}
                      /\ downSeq' \in Nat
                      /\ faults' \in Faults
<1>j. mem[p] \in Journal
  BY DEF TypeOK
<1>f. \A ph \in Phases : Enter(mem[p], ph) \in Journal
  BY <1>j, EnterType
<1>1. CASE FlushNothing(p)
  <2>1. mine
    BY <1>1, SkipType, LabelType DEF FlushNothing
  <2> QED BY <1>1, <2>1 DEF FlushNothing, TypeOK
<1>2. CASE FlushAppended(p)
  <2>1. MarkOutcomeReported(mem[p]) \in Journal /\ mem[p].pending \in Report
    BY <1>j, SlotType DEF Journal
  <2> QED BY <1>2, <2>1, LabelType DEF FlushAppended, TypeOK
<1>3. CASE FlushRefused(p)
  <2>1. RecordReportQueueFailure(mem[p]) \in Journal
    BY <1>j, SlotType DEF Journal
  <2>2. faults' \in Faults
    BY <1>3, FaultType DEF FlushRefused, TypeOK
  <2> QED BY <1>3, <2>1, <2>2, LabelType DEF FlushRefused, TypeOK
<1>4. CASE FlushSave(p)
  <2>1. mine
    BY <1>4, <1>j, SaveType, LabelType DEF FlushSave
  <2> QED BY <1>4, <2>1 DEF FlushSave, TypeOK
<1>5. CASE Reconcile(p)
  <2> DEFINE done == RecordSuccess(mem[p])
  <2>1. done \in Journal
    BY <1>j, RecordSuccessType
  <2>2. MarkReportPending(done, ReportOutcome(done, nextId)) \in Journal
    BY <2>1, OweType, SlotType
  <2>3. "settle" \in PCs /\ "release" \in PCs /\ "owed" \in PCs
    BY DEF PCs, FlushPoints
  <2> HIDE DEF done
  <2>4. mine /\ nextId' \in Nat
    BY <1>5, <2>2, <2>3, SaveType, SkipType DEF Reconcile, TypeOK, done
  <2>5. RunningVersion \in Versions \cup {NoVersion}
    BY DEF RunningVersion, TypeOK
  <2>6. arg' \in [Procs -> Args]
    BY <1>5, <2>5 DEF Reconcile, TypeOK, Args
  <2> QED BY <1>5, <2>4, <2>6 DEF Reconcile, TypeOK
<1>6. ASSUME NEW l \in {"queue", "final"}, Owe(p, l) PROVE TypeOK'
  <2>1. l \in PCs
    BY DEF PCs, FlushPoints
  <2>2. OweReport(mem[p]) \in Journal
    BY <1>j, OweType
  <2>3. mine /\ nextId' \in Nat
    BY <1>6, <2>1, <2>2, SaveType, SkipType DEF Owe, TakeId, TypeOK
  <2> QED BY <1>6, <2>3 DEF Owe, TypeOK
<1>7. CASE Owed(p) \/ ReportRun(p)
  BY <1>6, <1>7 DEF Owed, ReportRun
<1>8. CASE Fetch(p)
  <2>1. "release" \in PCs /\ "stage" \in PCs
    BY DEF PCs
  <2>2. mine
    BY <1>8, <1>j, <2>1, SaveType, SkipType DEF Fetch
  <2>3. arg' \in [Procs -> Args]
    <3>1. CASE arg' = arg
      BY <3>1 DEF TypeOK
    <3>2. CASE arg' # arg
      <4>1. PICK v \in Versions, frozen \in BOOLEAN :
              arg' = [arg EXCEPT ![p].offer = v, ![p].frozen = frozen]
        BY <1>8, <3>2 DEF Fetch
      <4>2. arg[p] \in Args
        BY DEF TypeOK
      <4>3. [arg[p] EXCEPT !.offer = v, !.frozen = frozen] \in Args
        BY <4>2 DEF Args
      <4>4. arg' = [arg EXCEPT ![p] = [arg[p] EXCEPT !.offer = v, !.frozen = frozen]]
        BY <4>1 DEF TypeOK
      <4> QED BY <4>3, <4>4 DEF TypeOK
    <3> QED BY <3>1, <3>2
  <2> QED BY <1>8, <2>2, <2>3 DEF Fetch, TypeOK
<1>9. CASE Stage(p)
  <2>1. mine
    BY <1>9, SkipType DEF Stage, PCs
  <2> QED BY <1>9, <2>1 DEF Stage, TypeOK
<1>10. CASE RunOutstanding(p) \/ RunRefused(p)
  <2>1. mine
    BY <1>10, <1>f, SaveType, SkipType DEF RunOutstanding, RunRefused, PCs, Phases
  <2> QED BY <1>10, <2>1 DEF RunOutstanding, RunRefused, TypeOK
<1>11. CASE RunBegin(p)
  <2>1. arg[p].offer \in Versions \cup {NoVersion} /\ RunningVersion \in Versions \cup {NoVersion}
    BY DEF TypeOK, Args, RunningVersion
  <2>2. Begin(mem[p], arg[p].offer, RunningVersion) \in Journal
    BY <1>j, <2>1, BeginType
  <2>3. [mem[p] EXCEPT !.from = RunningVersion] \in Journal
    BY <1>j, <2>1 DEF Journal
  <2>4. "gate" \in PCs /\ "report" \in PCs
    BY DEF PCs
  <2>5. mine
    BY <1>11, <2>2, <2>3, <2>4, SaveType, SkipType DEF RunBegin
  <2> QED BY <1>11, <2>5 DEF RunBegin, TypeOK
<1>12. CASE RunGate(p)
  <2>1. mine
    BY <1>12, <1>j, <1>f, SaveType, SkipType DEF RunGate, PCs, Phases, Window
  <2> QED BY <1>12, <2>1 DEF RunGate, TypeOK
<1>13. CASE RecordDisarm(p) \/ RecordExecute(p) \/ RecordFailedAttempt(p)
  <2>1. "disarming" \in PCs /\ "launch" \in PCs /\ "rearm" \in PCs /\ AfterRun(p) \in PCs
    BY LabelType DEF PCs, Window
  <2>2. {"disarmed", "rolling_back", "executing"} \subseteq Phases
    BY DEF Phases
  <2>3. mine
    BY <1>13, <1>j, <1>f, <2>1, <2>2, SaveType
    DEF RecordDisarm, RecordExecute, RecordFailedAttempt
  <2> QED BY <1>13, <2>3 DEF RecordDisarm, RecordExecute, RecordFailedAttempt, TypeOK
<1>14. CASE Disarm(p)
  BY <1>14 DEF Disarm, TypeOK, PCs, Window, Journal
<1>15. CASE DisarmFails(p)
  <2>1. mem[p].seq \in Nat
    BY <1>j DEF Journal
  <2>2. faults' \in Faults
    BY <1>15, FaultType DEF DisarmFails, TypeOK
  <2> QED BY <1>15, <2>1, <2>2, FailedAttemptType DEF DisarmFails, TypeOK, PCs
<1>16. CASE Launch(p) \/ LaunchFails(p)
  <2>1. faults \in Faults /\ [faults EXCEPT !.late = TRUE] \in Faults
    BY DEF TypeOK, Faults
  <2>2. faults' \in Faults
    BY <1>16, <2>1, FaultType DEF Launch, LaunchFails
  <2> QED BY <1>16, <2>2, LabelType DEF Launch, LaunchFails, TypeOK, PCs, Window
<1>17. CASE Restore(p)
  <2>1. steered
    BY <1>17, RearmType DEF Restore, TypeOK
  <2> HIDE DEF steered
  <2>2. /\ disk' \in Journal /\ mem' \in [Procs -> Journal] /\ pc' \in [Procs -> PCs]
        /\ UNCHANGED <<lock, arg, outbox, agentVer, installing, nextId>>
    BY <1>17, FailedAttemptType DEF Restore, TypeOK, PCs
  <2> QED BY <2>1, <2>2 DEF TypeOK, steered
<1>18. CASE DeferredRearm(p)
  <2>1. steered
    BY <1>18, RearmType DEF DeferredRearm
  <2> HIDE DEF steered
  <2>2. /\ pc' \in [Procs -> PCs]
        /\ UNCHANGED <<disk, lock, mem, arg, outbox, agentVer, installing, nextId>>
    BY <1>18, LabelType DEF DeferredRearm, TypeOK, PCs
  <2> QED BY <2>1, <2>2 DEF TypeOK, steered
<1>19. CASE RollbackNothing(p)
  BY <1>19, SkipType DEF RollbackNothing, TypeOK, PCs
<1>20. CASE RollbackBegin(p)
  <2> DEFINE stacked == StackOutcome(mem[p])
  <2>1. stacked \in Journal
    BY <1>j, <1>f, OweType, RecordFailureType DEF StackOutcome, Phases
  <2>2. PICK to \in Versions \cup {NoVersion}, installed \in {agentVer, NoVersion} :
          LET target  == RollbackTarget(mem[p], to)
              leaving == IF agentUp THEN agentVer ELSE installed
              begun   == BeginRollback(stacked, target, leaving)
          IN  /\ Save(p, IF leaving = target THEN begun ELSE Refuse(begun, leaving),
                      IF FailOpen THEN "disarm" ELSE "exec", "release")
              /\ nextId' = IF stacked.pending # mem[p].pending THEN nextId + 1 ELSE nextId
    BY <1>20 DEF RollbackBegin
  <2> DEFINE target  == RollbackTarget(mem[p], to)
             leaving == IF agentUp THEN agentVer ELSE installed
             begun   == BeginRollback(stacked, target, leaving)
             written == IF leaving = target THEN begun ELSE Refuse(begun, leaving)
  <2>3. target \in Versions \cup {NoVersion} /\ leaving \in Versions \cup {NoVersion}
    BY <1>j DEF RollbackTarget, Journal, TypeOK
  <2>4. written \in Journal
    BY <2>1, <2>3, BeginType, RefuseType
  <2>5. Save(p, written, IF FailOpen THEN "disarm" ELSE "exec", "release")
    BY <2>2
  <2>6. (IF FailOpen THEN "disarm" ELSE "exec") \in PCs /\ "release" \in PCs
    BY DEF PCs, Window
  <2>7. nextId' \in Nat
    BY <2>2 DEF TypeOK
  <2> HIDE DEF written
  <2>8. mine
    BY <2>4, <2>5, <2>6, SaveType
  <2> QED BY <1>20, <2>7, <2>8 DEF RollbackBegin, TypeOK
<1>21. CASE Release(p)
  BY <1>21, NewJournalType DEF Release, Leave, TypeOK, PCs, NoArg, Args, NoVersion
<1> QED
  BY <1>1, <1>2, <1>3, <1>4, <1>5, <1>7, <1>8, <1>9, <1>10, <1>11, <1>12, <1>13, <1>14,
     <1>15, <1>16, <1>17, <1>18, <1>19, <1>20, <1>21
  DEF PassStep, TickStep, RunStep, HandOverStep, RollbackStep

\* The agent, the installers and time keep the state well formed.
LEMMA MachineStepType ==
  ASSUME TypeOK, MachineStep
  PROVE  TypeOK'
<1> USE DEF machine
<1>1. CASE AgentStops
  <2>1. agentUp' \in BOOLEAN
    BY <1>1, Zenon DEF AgentStops
  <2>2. faults' \in Faults
    BY <1>1, FaultType DEF AgentStops, TypeOK
  <2> QED BY <1>1, <2>1, <2>2 DEF AgentStops, TypeOK
<1>2. CASE AgentStarts
  <2>1. agentUp' \in BOOLEAN
    BY <1>2, Zenon DEF AgentStarts, AgentArms
  <2> QED BY <1>2, <2>1 DEF AgentStarts, AgentArms, TypeOK
<1>3. CASE TimePasses
  <2>1. disk' \in Journal
    BY <1>3, AgedType DEF TimePasses, TypeOK
  <2>2. ASSUME NEW p \in Procs PROVE arg[p] \in Args /\ [arg[p] EXCEPT !.late = TRUE] \in Args
    <3>1. arg[p] \in Args
      BY DEF TypeOK
    <3>2. [arg[p] EXCEPT !.late = TRUE] \in Args
      BY <3>1 DEF Args
    <3> QED BY <3>1, <3>2
  <2>3. arg' \in [Procs -> Args]
    BY <1>3, <2>2 DEF TimePasses
  <2> QED BY <1>3, <2>1, <2>3 DEF TimePasses, TypeOK
<1>4. ASSUME NEW v \in Versions, InstallerCompletes(v) PROVE TypeOK'
  <2>1. installing[v] - 1 \in Nat
    BY <1>4 DEF InstallerCompletes, Idle, TypeOK
  <2> QED BY <1>4, <2>1 DEF InstallerCompletes, AgentArms, TypeOK
<1>5. ASSUME NEW v \in Versions, InstallerAborts(v) PROVE TypeOK'
  <2>1. installing[v] - 1 \in Nat
    BY <1>5 DEF InstallerAborts, Idle, TypeOK
  <2>2. faults' \in Faults
    BY <1>5, FaultType DEF InstallerAborts, TypeOK
  <2>3. CASE AgentArms
    BY <1>5, <2>1, <2>2, <2>3 DEF InstallerAborts, AgentArms, TypeOK
  <2>4. CASE UNCHANGED <<steering, agentUp, cause, downSeq>>
    BY <1>5, <2>1, <2>2, <2>4 DEF InstallerAborts, TypeOK
  <2> QED BY <1>5, <2>3, <2>4 DEF InstallerAborts
<1> QED BY <1>1, <1>2, <1>3, <1>4, <1>5 DEF MachineStep

\* TypeOK is an invariant: no sequence of saves, failed saves, crashes and
\* rollbacks leaves a journal, a slot or a counter outside its type.
THEOREM TypeCorrect == Spec => []TypeOK
<1>1. Init => TypeOK
  <2> SUFFICES ASSUME Init PROVE TypeOK
    OBVIOUS
  <2>1. /\ NoArg \in Args /\ "idle" \in PCs
        /\ [n |-> 0, died |-> 0, unsaved |-> FALSE, late |-> FALSE] \in Faults
    BY DEF NoArg, Args, NoVersion, PCs, Faults
  <2> QED BY <2>1, NewJournalType DEF Init, TypeOK
<1>2. TypeOK /\ [Next]_vars => TypeOK'
  <2> SUFFICES ASSUME TypeOK, [Next]_vars PROVE TypeOK'
    OBVIOUS
  <2> USE DEF machine
  <2>0. NoArg \in Args /\ "idle" \in PCs
    BY DEF NoArg, Args, NoVersion, PCs
  <2>1. ASSUME NEW p \in Procs, Start(p) PROVE TypeOK'
    <3>1. PICK r \in Requests :
            /\ arg' = [arg EXCEPT ![p] = [NoArg EXCEPT !.req = r]]
            /\ pc' = [pc EXCEPT ![p] = IF r = "tick" THEN "drain" ELSE "rollback"]
      BY <2>1 DEF Start
    <3>2. [NoArg EXCEPT !.req = r] \in Args
      BY <2>0 DEF Args
    <3>3. arg' \in [Procs -> Args]
      BY <3>1, <3>2 DEF TypeOK
    <3>4. pc' \in [Procs -> PCs]
      BY <3>1 DEF TypeOK, PCs, FlushPoints
    <3> QED BY <2>1, <3>3, <3>4 DEF Start, TypeOK
  <2>2. ASSUME NEW p \in Procs, Crash(p) PROVE TypeOK'
    <3>1. faults' \in Faults
      BY <2>2, FaultType DEF Crash, TypeOK
    <3> QED BY <2>0, <2>2, <3>1, NewJournalType DEF Crash, Leave, TypeOK
  <2>3. CASE UNCHANGED vars
    BY <2>3 DEF vars, TypeOK
  <2> QED BY <2>1, <2>2, <2>3, PassStepType, MachineStepType DEF Next
<1> QED BY <1>1, <1>2, PTL DEF Spec

-----------------------------------------------------------------------------
(* What the journal operations do to the refused versions, and to the two   *)
(* facts that say steering is down: an open phase, or an outcome recorded   *)
(* since.                                                                   *)

\* j tells that steering was taken down when TerminalSeq was d.
Down(j, d) == j.seq > d \/ (NeedsNetworkRecovery(j) /\ j.seq >= d)

\* k refuses all that j refuses, and tells of every loss of steering j tells of.
Keeps(j, k) == j.poisoned \subseteq k.poisoned /\ \A d \in Nat : Down(j, d) => Down(k, d)

\* Saves, refusals and the pending slot change neither phase nor TerminalSeq.
LEMMA SlotKeeps ==
  ASSUME NEW j \in Journal, NEW r \in Report, NEW v \in Versions \cup {NoVersion}
  PROVE  /\ Keeps(j, MarkReportPending(j, r))
         /\ Keeps(j, MarkReportPendingIfFree(j, r))
         /\ Keeps(j, MarkOutcomeReported(j))
         /\ Keeps(j, RecordReportQueueFailure(j))
         /\ Keeps(j, Refuse(j, v))
         /\ Keeps(j, Aged(j))
<1> USE DEF Keeps, Down, NeedsNetworkRecovery, Journal
<1>1. Keeps(j, MarkReportPending(j, r)) /\ Keeps(j, MarkReportPendingIfFree(j, r))
  BY DEF MarkReportPending, MarkReportPendingIfFree
<1>2. Keeps(j, MarkOutcomeReported(j))
  BY DEF MarkOutcomeReported
<1>3. Keeps(j, RecordReportQueueFailure(j))
  BY DEF RecordReportQueueFailure
<1>4. Keeps(j, Refuse(j, v))
  BY DEF Refuse
<1>5. Keeps(j, Aged(j))
  BY DEF Aged
<1> QED BY <1>1, <1>2, <1>3, <1>4, <1>5

\* Keeping is transitive.
LEMMA KeepsTransitive ==
  ASSUME NEW j, NEW k, NEW l, Keeps(j, k), Keeps(k, l)
  PROVE  Keeps(j, l)
BY DEF Keeps

\* Enter: a terminal phase is counted, and a phase of the hand-over says that
\* steering may be down; any other phase keeps the record only of a journal
\* that is not interrupted.
LEMMA EnterKeeps ==
  ASSUME NEW j \in Journal, NEW ph \in Phases,
         \/ ph \in CountedPhases \cup {"disarmed", "executing", "rolling_back"}
         \/ ~Interrupted(j)
  PROVE  Keeps(j, Enter(j, ph))
<1>1. Enter(j, ph).phase = ph /\ Enter(j, ph).poisoned = j.poisoned
  BY DEF Enter, Journal
<1>2. Enter(j, ph).seq = IF j.phase # ph /\ ph \in CountedPhases THEN j.seq + 1 ELSE j.seq
  BY DEF Enter, Journal
<1>3. j.seq \in Nat
  BY DEF Journal
<1> QED
  BY <1>1, <1>2, <1>3
  DEF Keeps, Down, NeedsNetworkRecovery, Interrupted, InterruptedPhases, CountedPhases

\* RecordFailure and RecordSuccess enter a terminal phase and refuse no less.
LEMMA OutcomeKeeps ==
  ASSUME NEW j \in Journal, NEW c \in Nat
  PROVE  Keeps(j, RecordFailure(j, c)) /\ Keeps(j, RecordSuccess(j))
<1>1. ASSUME NEW n \in Nat, j.target \in Versions
      PROVE  LET k == [j EXCEPT !.failures[j.target] = n] IN k \in Journal /\ Keeps(j, k)
  <2> DEFINE k == [j EXCEPT !.failures[j.target] = n]
  <2>1. k \in Journal
    BY <1>1 DEF Journal
  <2>2. k.poisoned = j.poisoned /\ k.phase = j.phase /\ k.seq = j.seq
    BY DEF Journal
  <2> HIDE DEF k
  <2>3. Keeps(j, k)
    BY <2>2 DEF Keeps, Down, NeedsNetworkRecovery
  <2> QED BY <2>1, <2>3 DEF k
<1>2. ASSUME NEW k \in Journal, NEW ph \in CountedPhases
      PROVE  Keeps(k, Enter(k, ph)) /\ Enter(k, ph) \in Journal
  BY <1>2, EnterKeeps, EnterType DEF CountedPhases, Phases
<1>3. j.target \in Versions \/ j.target = NoVersion
  BY DEF Journal
<1>4. ASSUME j.target \in Versions PROVE j.failures[j.target] + 1 \in Nat
  <2>1. j.failures \in [Versions -> Nat]
    BY DEF Journal
  <2>2. j.failures[j.target] \in Nat
    BY <1>4, <2>1
  <2> QED BY <2>2
<1>5. NoVersion \notin Versions
  BY DEF NoVersion
<1>6. Keeps(j, RecordFailure(j, c))
  <2>1. CASE j.target = NoVersion
    BY <1>2, <2>1 DEF RecordFailure, CountedPhases
  <2>2. CASE j.target \in Versions
    <3> DEFINE counted == [j EXCEPT !.failures[j.target] = @ + 1]
    <3>1. counted \in Journal /\ Keeps(j, counted)
      BY <1>1, <1>4, <2>2
    <3>2. Keeps(counted, Enter(counted, "failed")) /\ Enter(counted, "failed") \in Journal
      BY <1>2, <3>1 DEF CountedPhases
    <3>3. Keeps(Enter(counted, "failed"), Refuse(Enter(counted, "failed"), j.target))
      BY <2>2, <3>2, SlotKeeps DEF Journal
    <3>4. RecordFailure(j, c) \in {Enter(counted, "failed"), Refuse(Enter(counted, "failed"), j.target)}
      BY <1>5, <2>2 DEF RecordFailure
    <3> HIDE DEF counted
    <3> QED BY <3>1, <3>2, <3>3, <3>4, KeepsTransitive
  <2> QED BY <1>3, <2>1, <2>2
<1>7. Keeps(j, RecordSuccess(j))
  <2> DEFINE cleared == IF j.target = NoVersion THEN j ELSE [j EXCEPT !.failures[j.target] = 0]
  <2>1. cleared \in Journal /\ Keeps(j, cleared)
    BY <1>1, <1>3 DEF Keeps
  <2>2. RecordSuccess(j) \in {Enter(cleared, "rolled_back"), Enter(cleared, "completed")}
    BY DEF RecordSuccess
  <2> HIDE DEF cleared
  <2> QED BY <1>2, <2>1, <2>2, KeepsTransitive DEF CountedPhases
<1> QED BY <1>6, <1>7

-----------------------------------------------------------------------------
(* The lock, and the journal as the only thing a pass writes.               *)

\* A pass under way holds the device lock.
LockInv == \A p \in Procs : pc[p] # "idle" => lock = p

\* A step of a pass is a step of its own process: it touches no other
\* process's label or memory, and gives up the lock only when it ends.
LEMMA PassFrame ==
  ASSUME TypeOK, NEW p \in Procs, PassStep(p)
  PROVE  /\ pc[p] # "idle"
         /\ \A q \in Procs \ {p} : pc'[q] = pc[q] /\ mem'[q] = mem[q]
         /\ lock' = lock \/ (Release(p) /\ pc'[p] = "idle" /\ UNCHANGED <<disk, machine>>)
<1> USE DEF TypeOK, Save, Skip
<1>1. CASE TickStep(p)
  <2>1. CASE FlushNothing(p) \/ FlushAppended(p) \/ FlushRefused(p)
    BY <2>1 DEF FlushNothing, FlushAppended, FlushRefused, FlushPoints
  <2>2. CASE FlushSave(p)
    BY <2>2 DEF FlushSave, FlushPoints, Saving
  <2>3. CASE Reconcile(p)
    BY <2>3 DEF Reconcile
  <2>4. CASE Owed(p) \/ ReportRun(p)
    BY <2>4 DEF Owe, Owed, ReportRun
  <2>5. CASE Fetch(p) \/ Stage(p)
    BY <2>5 DEF Fetch, Stage
  <2> QED BY <1>1, <2>1, <2>2, <2>3, <2>4, <2>5 DEF TickStep
<1>2. CASE RunStep(p)
  BY <1>2 DEF RunStep, RunOutstanding, RunRefused, RunBegin, RunGate
<1>3. CASE HandOverStep(p)
  BY <1>3
  DEF HandOverStep, RecordDisarm, Disarm, DisarmFails, RecordExecute, Launch, LaunchFails,
      Restore, DeferredRearm, RecordFailedAttempt
<1>4. CASE RollbackStep(p)
  BY <1>4 DEF RollbackStep, RollbackNothing, RollbackBegin
<1>5. CASE Release(p)
  BY <1>5 DEF Release, Leave
<1> QED BY <1>1, <1>2, <1>3, <1>4, <1>5 DEF PassStep

\* Write-ahead: what a pass writes to disk is the journal it then holds in memory.
LEMMA WritesItsMemory ==
  ASSUME TypeOK, NEW p \in Procs, PassStep(p)
  PROVE  disk' = disk \/ disk' = Written(p, mem'[p])
<1>1. ASSUME NEW j, NEW ok, NEW err, Save(p, j, ok, err)
      PROVE  disk' = disk \/ disk' = Written(p, mem'[p])
  <2>1. mem'[p] = j
    BY <1>1 DEF Save, TypeOK
  <2> QED BY <1>1, <2>1 DEF Save, SaveOk, SaveFails
<1> USE <1>1 DEF Skip
<1>2. CASE TickStep(p)
  BY <1>2
  DEF TickStep, FlushNothing, FlushAppended, FlushRefused, FlushSave, Reconcile, Owe, Owed,
      ReportRun, Fetch, Stage
<1>3. CASE RunStep(p)
  BY <1>3 DEF RunStep, RunOutstanding, RunRefused, RunBegin, RunGate
<1>4. CASE HandOverStep(p)
  BY <1>4
  DEF HandOverStep, RecordDisarm, Disarm, DisarmFails, RecordExecute, Launch, LaunchFails,
      Restore, DeferredRearm, RecordFailedAttempt
<1>5. CASE RollbackStep(p)
  BY <1>5 DEF RollbackStep, RollbackNothing, RollbackBegin
<1>6. CASE Release(p)
  BY <1>6 DEF Release
<1> QED BY <1>2, <1>3, <1>4, <1>5, <1>6 DEF PassStep

\* The gate is reached only by an attempt that has not begun changing anything.
GateInv == \A p \in Procs : pc[p] = "gate" => ~Interrupted(mem[p])

\* A step of a pass drops no refusal and no record of steering being down from
\* the journal in memory.
LEMMA PassKeeps ==
  ASSUME TypeOK, GateInv, NEW p \in Procs, PassStep(p), ~Release(p)
  PROVE  Keeps(mem[p], mem'[p])
<1> DEFINE j == mem[p]
<1>j. j \in Journal
  BY DEF TypeOK
<1>s. Keeps(j, j)
  BY DEF Keeps
<1>m. ASSUME NEW k, mem' = [mem EXCEPT ![p] = k] PROVE mem'[p] = k
  BY <1>m DEF TypeOK
<1>v. ASSUME NEW k, NEW ok, NEW err, Save(p, k, ok, err) PROVE mem'[p] = k
  BY <1>v, <1>m DEF Save
<1>e. ASSUME NEW ph \in CountedPhases \cup {"disarmed", "executing", "rolling_back"}
      PROVE  Keeps(j, Enter(j, ph)) /\ Enter(j, ph) \in Journal
  BY <1>j, <1>e, EnterKeeps, EnterType DEF CountedPhases, Phases
<1>a. Keeps(j, FailedAttempt(p))
  BY <1>j, <1>e, OutcomeKeeps DEF FailedAttempt, CountedPhases
<1>o. ASSUME NEW k \in Journal PROVE Keeps(k, OweReport(k))
  <2>1. ReportOutcome(k, nextId) \in Report
    BY <1>o, OweType
  <2>2. NoVersion \in Versions \cup {NoVersion}
    OBVIOUS
  <2> QED BY <1>o, <2>1, <2>2, SlotKeeps DEF OweReport
<1> HIDE DEF j
<1>1. CASE FlushNothing(p) \/ FlushSave(p) \/ Fetch(p) \/ Stage(p) \/ RunRefused(p)
           \/ RollbackNothing(p) \/ RecordFailedAttempt(p)
  <2>1. mem'[p] = mem[p]
    BY <1>1, <1>v
    DEF FlushNothing, FlushSave, Fetch, Stage, RunRefused, RollbackNothing,
        RecordFailedAttempt, Skip
  <2> QED BY <1>s, <2>1 DEF j
<1>2. CASE Disarm(p) \/ Launch(p) \/ LaunchFails(p) \/ DeferredRearm(p)
  BY <1>2, <1>s DEF Disarm, Launch, LaunchFails, DeferredRearm, j
<1>3. CASE FlushAppended(p) \/ FlushRefused(p)
  <2>1. mem'[p] \in {MarkOutcomeReported(j), RecordReportQueueFailure(j)}
    BY <1>3 DEF FlushAppended, FlushRefused, TypeOK, j
  <2>2. NoVersion \in Versions \cup {NoVersion} /\ j.pending \in Report
    BY <1>j DEF Journal
  <2> QED BY <1>j, <2>1, <2>2, SlotKeeps DEF j
<1>4. CASE Reconcile(p)
  <2> DEFINE done == RecordSuccess(j)
             closed == MarkReportPending(done, ReportOutcome(done, nextId))
  <2>1. mem'[p] \in {j, closed}
    BY <1>4, <1>v DEF Reconcile, Skip, j
  <2>2. done \in Journal /\ Keeps(j, done)
    BY <1>j, RecordSuccessType, OutcomeKeeps
  <2> HIDE DEF done
  <2>3. ReportOutcome(done, nextId) \in Report /\ NoVersion \in Versions \cup {NoVersion}
    BY <2>2, OweType
  <2>4. Keeps(done, closed)
    BY <2>2, <2>3, SlotKeeps
  <2> HIDE DEF closed
  <2> QED BY <1>s, <2>1, <2>2, <2>4, KeepsTransitive DEF j
<1>5. CASE Owed(p) \/ ReportRun(p)
  <2>1. mem'[p] \in {j, OweReport(j)}
    BY <1>5, <1>v DEF Owed, ReportRun, Owe, Skip, j
  <2> QED BY <1>s, <1>o, <1>j, <2>1 DEF j
<1>6. CASE RunOutstanding(p)
  <2>1. mem'[p] \in {j, Enter(j, "failed")}
    BY <1>6, <1>v DEF RunOutstanding, Skip, j
  <2> QED BY <1>s, <1>e, <2>1 DEF j, CountedPhases
<1>7. CASE RunBegin(p)
  <2>1. ~Interrupted(j)
    BY <1>7 DEF RunBegin, MayAttempt, j
  <2>2. mem'[p] \in {j, Begin(j, arg[p].offer, RunningVersion), [j EXCEPT !.from = RunningVersion]}
    BY <1>7, <1>v DEF RunBegin, Skip, j
  <2>3. mem'[p].poisoned = j.poisoned /\ mem'[p].seq = j.seq
    <3>1. Begin(j, arg[p].offer, RunningVersion).poisoned = j.poisoned
          /\ Begin(j, arg[p].offer, RunningVersion).seq = j.seq
      BY <1>j DEF Begin, Journal
    <3>2. /\ [j EXCEPT !.from = RunningVersion].poisoned = j.poisoned
          /\ [j EXCEPT !.from = RunningVersion].seq = j.seq
      BY <1>j DEF Journal
    <3> QED BY <2>2, <3>1, <3>2
  <2> QED
    BY <2>1, <2>3 DEF Keeps, Down, Interrupted, InterruptedPhases, NeedsNetworkRecovery, j
<1>8. CASE RunGate(p)
  <2>1. ~Interrupted(j)
    BY <1>8 DEF RunGate, GateInv, j
  <2>2. mem'[p] \in {j, Enter(j, "snapshotted")}
    BY <1>8, <1>v DEF RunGate, Skip, j
  <2> QED BY <1>s, <1>j, <2>1, <2>2, EnterKeeps DEF j, Phases
<1>9. CASE RecordDisarm(p) \/ RecordExecute(p)
  <2>1. mem'[p] \in {Enter(j, "disarmed"), Enter(j, "executing"), Enter(j, "rolling_back")}
    BY <1>9, <1>v DEF RecordDisarm, RecordExecute, j
  <2> QED BY <1>e, <2>1 DEF j
<1>10. CASE DisarmFails(p) \/ Restore(p)
  BY <1>10, <1>m, <1>a DEF DisarmFails, Restore, j
<1>11. CASE RollbackBegin(p)
  <2> DEFINE stacked == StackOutcome(j)
  <2>1. PICK t \in Versions \cup {NoVersion}, l \in Versions \cup {NoVersion} :
          mem'[p] \in {BeginRollback(stacked, t, l), Refuse(BeginRollback(stacked, t, l), l)}
    <3>1. PICK to \in Versions \cup {NoVersion}, installed \in {agentVer, NoVersion} :
            LET t == RollbackTarget(j, to)
                l == IF agentUp THEN agentVer ELSE installed
            IN  Save(p, IF l = t THEN BeginRollback(stacked, t, l)
                        ELSE Refuse(BeginRollback(stacked, t, l), l),
                     IF FailOpen THEN "disarm" ELSE "exec", "release")
      BY <1>11 DEF RollbackBegin, j
    <3>2. RollbackTarget(j, to) \in Versions \cup {NoVersion}
      BY <1>j DEF RollbackTarget, Journal
    <3>3. (IF agentUp THEN agentVer ELSE installed) \in Versions \cup {NoVersion}
      BY DEF TypeOK
    <3> HIDE DEF stacked
    <3> QED BY <1>v, <3>1, <3>2, <3>3
  <2>2. stacked \in Journal /\ Keeps(j, stacked) /\ ~Interrupted(stacked)
    <3>1. CASE OwesOutcomeReport(j)
      <4>1. stacked = OweReport(j) /\ j.phase \in CountedPhases
        BY <3>1 DEF StackOutcome, OwesOutcomeReport, OutcomeFingerprint
      <4>2. OweReport(j) \in Journal /\ OweReport(j).phase = j.phase
        BY <1>j, OweType DEF OweReport, MarkReportPendingIfFree, MarkReportPending, Journal
      <4> QED
        BY <1>j, <1>o, <4>1, <4>2 DEF Interrupted, InterruptedPhases, CountedPhases
    <3>2. CASE ~OwesOutcomeReport(j) /\ Interrupted(j)
      <4> DEFINE k == IF IsRollback(j) THEN Enter(j, "failed")
                      ELSE RecordFailure(j, DefaultMaxAttempts)
      <4>1. stacked = OweReport(k)
        BY <3>2 DEF StackOutcome
      <4>2. k \in Journal /\ Keeps(j, k)
        BY <1>j, <1>e, OutcomeKeeps, RecordFailureType DEF CountedPhases
      <4>3. k.phase = "failed"
        BY <1>j DEF RecordFailure, Enter, Refuse, Journal
      <4> HIDE DEF k
      <4>4. OweReport(k) \in Journal /\ OweReport(k).phase = k.phase
        BY <4>2, OweType DEF OweReport, MarkReportPendingIfFree, MarkReportPending, Journal
      <4> QED
        BY <1>o, <4>1, <4>2, <4>3, <4>4, KeepsTransitive DEF Interrupted, InterruptedPhases
    <3>3. CASE ~OwesOutcomeReport(j) /\ ~Interrupted(j)
      BY <3>3, <1>j, <1>s DEF StackOutcome
    <3> QED BY <3>1, <3>2, <3>3
  <2> HIDE DEF stacked
  <2>3. BeginRollback(stacked, t, l) \in Journal
    BY <2>2, BeginType
  <2>4. /\ BeginRollback(stacked, t, l).poisoned = stacked.poisoned
        /\ BeginRollback(stacked, t, l).seq = stacked.seq
    BY <2>2 DEF BeginRollback, Begin, Journal
  <2>5. Keeps(stacked, BeginRollback(stacked, t, l))
    BY <2>2, <2>4 DEF Keeps, Down, Interrupted, InterruptedPhases, NeedsNetworkRecovery
  <2>6. Keeps(BeginRollback(stacked, t, l), Refuse(BeginRollback(stacked, t, l), l))
    <3>1. BeginRollback(stacked, t, l).pending \in Report
      BY <2>3 DEF Journal
    <3> QED BY <2>3, <3>1, SlotKeeps
  <2> QED BY <2>1, <2>2, <2>5, <2>6, KeepsTransitive DEF j
<1> QED
  BY <1>1, <1>2, <1>3, <1>4, <1>5, <1>6, <1>7, <1>8, <1>9, <1>10, <1>11
  DEF PassStep, TickStep, RunStep, HandOverStep, RollbackStep

\* Where a pass can have come from when it is at the gate, about to disarm, or
\* disarming; Rollback is where a pass begins.
LEMMA PassLabels ==
  ASSUME TypeOK, NEW p \in Procs, PassStep(p)
  PROVE  /\ pc'[p] = "gate" => RunBegin(p)
         /\ pc'[p] = "disarming" => RecordDisarm(p)
         /\ pc'[p] = "disarm" => FailOpen
         /\ pc'[p] # "rollback"
         /\ pc'[p] = "idle" => Release(p)
<1>v. ASSUME NEW k, NEW ok, NEW err, Save(p, k, ok, err) PROVE pc'[p] \in {ok, err}
  BY <1>v DEF Save, TypeOK
<1>l. ASSUME NEW l, Skip(p, l) PROVE pc'[p] = l
  BY <1>l DEF Skip, TypeOK
<1>m. ASSUME NEW l, pc' = [pc EXCEPT ![p] = l] PROVE pc'[p] = l
  BY <1>m DEF TypeOK
<1>r. AfterRun(p) \in {"report", "release"}
  BY DEF AfterRun
<1>1. CASE FlushNothing(p) \/ FlushAppended(p) \/ FlushRefused(p)
  <2>1. pc'[p] \in {After[pc[p]], Saving[pc[p]]} /\ pc[p] \in FlushPoints
    BY <1>1, <1>l, <1>m DEF FlushNothing, FlushAppended, FlushRefused
  <2> QED BY <2>1 DEF After, Saving, FlushPoints
<1>2. CASE FlushSave(p)
  <2>1. PICK fp \in FlushPoints : pc'[p] = After[fp]
    BY <1>2, <1>v DEF FlushSave
  <2> QED BY <2>1 DEF After, FlushPoints
<1>3. CASE Reconcile(p) \/ Owed(p) \/ ReportRun(p) \/ Fetch(p) \/ Stage(p)
  <2>1. Reconcile(p) => pc'[p] \in {"settle", "release", "owed"}
    BY <1>v, <1>l DEF Reconcile
  <2>2. Owed(p) \/ ReportRun(p) => pc'[p] \in {"queue", "final"}
    BY <1>v, <1>l DEF Owed, ReportRun, Owe
  <2>3. Fetch(p) => pc'[p] \in {"release", "stage"}
    <3> SUFFICES ASSUME Fetch(p) PROVE pc'[p] \in {"release", "stage"}
      OBVIOUS
    <3>1. Skip(p, "release")
          \/ \E next \in {"release", "stage"} : Skip(p, next) \/ Save(p, mem[p], next, next)
      BY Zenon DEF Fetch
    <3> QED BY <1>v, <1>l, <3>1
  <2>4. Stage(p) => pc'[p] \in {"run", "release"}
    BY <1>l DEF Stage
  <2> QED BY <1>3, <2>1, <2>2, <2>3, <2>4
<1>4. CASE RunOutstanding(p) \/ RunRefused(p)
  <2>1. pc'[p] = "report"
    BY <1>4, <1>v, <1>l DEF RunOutstanding, RunRefused
  <2> QED BY <2>1
<1>5. CASE RunBegin(p)
  <2>1. pc'[p] \in {"gate", "report"}
    BY <1>5, <1>v, <1>l DEF RunBegin
  <2> QED BY <1>5, <2>1
<1>6. CASE RunGate(p)
  <2>1. pc'[p] \in {"report", IF FailOpen THEN "disarm" ELSE "exec"}
    BY <1>6, <1>v, <1>l DEF RunGate
  <2> QED BY <2>1
<1>7. CASE RecordDisarm(p)
  <2>1. pc'[p] \in {"disarming", AfterRun(p)}
    BY <1>7, <1>v DEF RecordDisarm
  <2> QED BY <1>7, <1>r, <2>1
<1>8. CASE Disarm(p) \/ DisarmFails(p) \/ RecordExecute(p) \/ Launch(p) \/ LaunchFails(p)
           \/ Restore(p) \/ DeferredRearm(p) \/ RecordFailedAttempt(p)
  <2>1. pc'[p] \in {"exec", "record", "launch", "rearm", "restore", AfterRun(p)}
    BY <1>8, <1>v, <1>m
    DEF Disarm, DisarmFails, RecordExecute, Launch, LaunchFails, Restore, DeferredRearm,
        RecordFailedAttempt
  <2> QED BY <1>r, <2>1
<1>9. CASE RollbackNothing(p) \/ RollbackBegin(p)
  <2>1. pc'[p] \in {"release", IF FailOpen THEN "disarm" ELSE "exec"}
    BY <1>9, <1>v, <1>l DEF RollbackNothing, RollbackBegin
  <2> QED BY <2>1
<1>10. CASE Release(p)
  BY <1>10, <1>m DEF Release, Leave
<1> QED
  BY <1>1, <1>2, <1>3, <1>4, <1>5, <1>6, <1>7, <1>8, <1>9, <1>10
  DEF PassStep, TickStep, RunStep, HandOverStep, RollbackStep

-----------------------------------------------------------------------------
(* Refusals are permanent.                                                  *)

\* The journal in a pass's memory refuses all that the one on disk refuses.
PoisonInv ==
  \A p \in Procs : pc[p] # "idle" => disk.poisoned \subseteq mem[p].poisoned

Inv == TypeOK /\ LockInv /\ GateInv /\ PoisonInv

\* The inductive step, with what it says of the refused versions on disk.
LEMMA InvStep ==
  ASSUME Inv, [Next]_vars, TypeOK'
  PROVE  Inv' /\ disk.poisoned \subseteq disk'.poisoned
<1> USE DEF machine
<1>1. ASSUME NEW p \in Procs, Start(p)
      PROVE  Inv' /\ disk.poisoned \subseteq disk'.poisoned
  <2>1. \A q \in Procs : pc[q] = "idle"
    BY <1>1 DEF Start, Inv, LockInv
  <2>2. /\ disk' = disk /\ lock' = p /\ mem'[p] = disk
        /\ pc'[p] \in {"drain", "rollback"} /\ \A q \in Procs \ {p} : pc'[q] = "idle"
    BY <1>1, <2>1 DEF Start, Inv, TypeOK
  <2> QED BY <2>2 DEF Inv, LockInv, GateInv, PoisonInv
<1>2. ASSUME NEW p \in Procs, PassStep(p), ~Release(p)
      PROVE  Inv' /\ disk.poisoned \subseteq disk'.poisoned
  <2>1. /\ pc[p] # "idle" /\ lock' = lock
        /\ \A q \in Procs \ {p} : pc'[q] = pc[q] /\ mem'[q] = mem[q]
    BY <1>2, PassFrame DEF Inv
  <2>2. lock = p /\ \A q \in Procs \ {p} : pc[q] = "idle"
    BY <2>1 DEF Inv, LockInv
  <2>3. disk.poisoned \subseteq mem[p].poisoned /\ mem[p].poisoned \subseteq mem'[p].poisoned
    BY <1>2, <2>1, PassKeeps DEF Inv, PoisonInv, Keeps
  <2>4. mem'[p] \in Journal
    BY DEF TypeOK
  <2>5. Written(p, mem'[p]).poisoned = mem'[p].poisoned
    BY <2>4 DEF Written, Aged, Journal
  <2>6. /\ disk.poisoned \subseteq disk'.poisoned
        /\ disk'.poisoned \subseteq mem'[p].poisoned
    BY <1>2, <2>3, <2>5, WritesItsMemory DEF Inv
  <2>7. pc'[p] = "gate" => ~Interrupted(mem'[p])
    <3> SUFFICES ASSUME pc'[p] = "gate" PROVE ~Interrupted(mem'[p])
      OBVIOUS
    <3>1. RunBegin(p) /\ ~Interrupted(mem[p]) /\ mem[p] \in Journal
      BY <1>2, PassLabels DEF Inv, RunBegin, MayAttempt, TypeOK
    <3>2. mem'[p] \in {mem[p], Begin(mem[p], arg[p].offer, RunningVersion),
                       [mem[p] EXCEPT !.from = RunningVersion]}
      BY <3>1 DEF RunBegin, Skip, Save, Inv, TypeOK
    <3>3. mem'[p].phase \in {mem[p].phase, "verified"}
      BY <3>1, <3>2 DEF Begin, Journal
    <3> QED BY <3>1, <3>3 DEF Interrupted, InterruptedPhases
  <2>8. LockInv' /\ GateInv' /\ PoisonInv'
    BY <2>1, <2>2, <2>6, <2>7 DEF LockInv, GateInv, PoisonInv
  <2> QED BY <2>6, <2>8 DEF Inv
<1>3. ASSUME NEW p \in Procs, Release(p) \/ Crash(p)
      PROVE  Inv' /\ disk.poisoned \subseteq disk'.poisoned
  <2>1. pc[p] # "idle" /\ disk' = disk /\ pc' = [pc EXCEPT ![p] = "idle"]
    BY <1>3 DEF Release, Crash, Leave
  <2>2. \A q \in Procs \ {p} : pc[q] = "idle"
    BY <2>1 DEF Inv, LockInv
  <2>3. \A q \in Procs : pc'[q] = "idle"
    BY <2>1, <2>2 DEF Inv, TypeOK
  <2> QED BY <2>1, <2>3 DEF Inv, LockInv, GateInv, PoisonInv
<1>4. ASSUME MachineStep \/ UNCHANGED vars
      PROVE  Inv' /\ disk.poisoned \subseteq disk'.poisoned
  <2>1. UNCHANGED <<lock, pc, mem>> /\ disk' \in {disk, Aged(disk)}
    BY <1>4
    DEF MachineStep, AgentStops, AgentStarts, TimePasses, InstallerCompletes,
        InstallerAborts, vars
  <2>2. disk'.poisoned = disk.poisoned
    BY <2>1 DEF Aged, Inv, TypeOK, Journal
  <2> QED BY <2>1, <2>2 DEF Inv, LockInv, GateInv, PoisonInv
<1> QED BY <1>1, <1>2, <1>3, <1>4 DEF Next

\* Initially nothing runs, and the invariant holds of nothing.
LEMMA InvInit == Init => LockInv /\ GateInv /\ PoisonInv
BY DEF Init, LockInv, GateInv, PoisonInv

\* Inv holds throughout: no two passes are under way at once, the gate is passed
\* only by an attempt that has changed nothing, and a pass forgets no refusal.
THEOREM InvHolds == Spec => []Inv
<1>1. Init /\ TypeOK => Inv
  BY InvInit DEF Inv
<1>2. Inv /\ TypeOK' /\ [Next]_vars => Inv'
  BY InvStep
<1> QED BY <1>1, <1>2, TypeCorrect, PTL DEF Spec

\* A version the device refuses is refused for good: no save, no failed save, no
\* crash and no concurrent operator brings it back (PoisonIsPermanent).
THEOREM RefusalsArePermanent == Spec => PoisonIsPermanent
<1>1. Inv /\ TypeOK' /\ [Next]_vars => [disk.poisoned \subseteq disk'.poisoned]_vars
  BY InvStep
<1> QED BY <1>1, InvHolds, TypeCorrect, PTL DEF Spec, PoisonIsPermanent

-----------------------------------------------------------------------------
(* Steering is restored, or its loss is on record.                          *)

\* Only a device that may fail open is ever disarmed, and steering that is down
\* for no recorded cause is in the hands of a pass that will restore it.
RestoreInv ==
  /\ \A p \in Procs : pc[p] \in {"disarm", "disarming"} => FailOpen
  /\ steering = "cleared" => FailOpen
  /\ SteeringIsRestored

\* A pass disarms once the journal on disk says so; while steering is down, the
\* journal on disk and that of a pass under way both tell of it.
RecordInv ==
  /\ \A p \in Procs : pc[p] = "disarming" =>
       disk.phase = "disarmed" /\ mem[p].phase = "disarmed" /\ disk.seq = mem[p].seq
  /\ steering = "cleared" => /\ Down(disk, downSeq)
                             /\ \A p \in Procs : pc[p] # "idle" => Down(mem[p], downSeq)

\* The steps of a pass that touch the machine, or that are taken while steering
\* is down in its hands.
LEMMA PassMachine ==
  ASSUME NEW p \in Procs, PassStep(p)
  PROVE  \/ pc[p] \notin Window /\ UNCHANGED machine
         \/ Disarm(p) \/ DisarmFails(p) \/ RecordExecute(p) \/ Launch(p) \/ LaunchFails(p)
         \/ Restore(p) \/ DeferredRearm(p)
<1> USE DEF Window
<1>1. CASE TickStep(p)
  <2>1. CASE FlushNothing(p) \/ FlushAppended(p) \/ FlushRefused(p)
    BY <2>1 DEF FlushNothing, FlushAppended, FlushRefused, FlushPoints
  <2>2. CASE FlushSave(p)
    BY <2>2 DEF FlushSave, FlushPoints, Saving
  <2>3. CASE Reconcile(p) \/ Owed(p) \/ ReportRun(p) \/ Fetch(p) \/ Stage(p)
    BY <2>3 DEF Reconcile, Owe, Owed, ReportRun, Fetch, Stage
  <2> QED BY <1>1, <2>1, <2>2, <2>3 DEF TickStep
<1>2. CASE RunStep(p) \/ RollbackStep(p) \/ Release(p)
  BY <1>2
  DEF RunStep, RunOutstanding, RunRefused, RunBegin, RunGate, RollbackStep, RollbackNothing,
      RollbackBegin, Release
<1>3. CASE RecordDisarm(p) \/ RecordFailedAttempt(p)
  BY <1>3 DEF RecordDisarm, RecordFailedAttempt
<1> QED BY <1>1, <1>2, <1>3 DEF PassStep, HandOverStep

\* RestoreInv is preserved.
LEMMA RestoreStep ==
  ASSUME Inv, RestoreInv, [Next]_vars
  PROVE  RestoreInv'
<1> DEFINE lost == steering = "cleared" /\ cause = "none"
<1>0. TypeOK
  BY DEF Inv
<1>1. ASSUME NEW p \in Procs, Start(p) PROVE RestoreInv'
  <2>1. \A q \in Procs : pc[q] = "idle"
    BY <1>1 DEF Start, Inv, LockInv
  <2>2. \A q \in Procs : pc'[q] \in {"idle", "drain", "rollback"}
    BY <1>0, <1>1, <2>1 DEF Start, TypeOK
  <2>3. ~lost
    BY <2>1 DEF RestoreInv, SteeringIsRestored, Window
  <2>4. steering' = steering /\ cause' = cause
    BY <1>1 DEF Start, machine
  <2> QED BY <2>2, <2>3, <2>4 DEF RestoreInv, SteeringIsRestored
<1>2. ASSUME NEW p \in Procs, PassStep(p) PROVE RestoreInv'
  <2>1. pc[p] # "idle" /\ \A q \in Procs \ {p} : pc'[q] = pc[q]
    BY <1>0, <1>2, PassFrame
  <2>2. \A q \in Procs \ {p} : pc[q] = "idle"
    BY <2>1 DEF Inv, LockInv
  <2>3. \A q \in Procs : pc'[q] \in {"disarm", "disarming"} => FailOpen
    <3>1. pc'[p] \in {"disarm", "disarming"} => FailOpen
      BY <1>0, <1>2, PassLabels DEF RecordDisarm, RestoreInv
    <3> QED BY <2>1, <2>2, <3>1
  <2>4. lost => pc[p] \in Window
    BY <2>2 DEF RestoreInv, SteeringIsRestored, Window
  <2>n. ASSUME NEW l, pc' = [pc EXCEPT ![p] = l] PROVE pc'[p] = l
    BY <1>0, <2>n DEF TypeOK
  <2>5. CASE pc[p] \notin Window /\ UNCHANGED machine
    BY <2>3, <2>4, <2>5 DEF RestoreInv, SteeringIsRestored, machine
  <2>6. CASE Disarm(p)
    <3>1. pc'[p] \in Window /\ FailOpen
      BY <2>6, <2>n DEF Disarm, Window, RestoreInv
    <3> QED BY <2>3, <3>1 DEF RestoreInv, SteeringIsRestored
  <2>7. CASE DisarmFails(p)
    <3>1. FailOpen /\ ~lost
      BY <2>4, <2>7 DEF DisarmFails, Window, RestoreInv
    <3>2. UNCHANGED <<steering, cause>> \/ cause' = "unconfirmed"
      BY <2>7 DEF DisarmFails
    <3> QED BY <2>3, <3>1, <3>2 DEF RestoreInv, SteeringIsRestored
  <2>8. CASE RecordExecute(p)
    <3>1. UNCHANGED <<steering, cause>> /\ (FailOpen => pc'[p] \in {"launch", "rearm"})
      BY <1>0, <2>8 DEF RecordExecute, Save, machine, TypeOK
    <3> QED BY <2>3, <3>1 DEF RestoreInv, SteeringIsRestored, Window
  <2>9. CASE Launch(p)
    <3>1. steering' = steering /\ (steering = "cleared" => cause' = "installer")
      BY <2>9 DEF Launch
    <3> QED BY <2>3, <3>1 DEF RestoreInv, SteeringIsRestored
  <2>10. CASE LaunchFails(p)
    <3>1. pc'[p] \in Window /\ UNCHANGED <<steering, cause>>
      BY <2>10, <2>n DEF LaunchFails, Window, machine
    <3> QED BY <2>3, <3>1 DEF RestoreInv, SteeringIsRestored
  <2>11. CASE Restore(p) \/ DeferredRearm(p)
    <3>1. \/ Rearmed \/ RearmFails
          \/ ~FailOpen /\ UNCHANGED <<steering, cause>>
      BY <2>11 DEF Restore, DeferredRearm
    <3>2. \/ steering' = "armed"
          \/ steering' = steering /\ cause' = "unconfirmed"
          \/ ~FailOpen /\ UNCHANGED <<steering, cause>>
      BY <3>1 DEF Rearmed, RearmFails, AgentArms
    <3> QED BY <2>3, <3>2 DEF RestoreInv, SteeringIsRestored
  <2> QED
    BY <1>2, <2>5, <2>6, <2>7, <2>8, <2>9, <2>10, <2>11, PassMachine
<1>3. ASSUME NEW p \in Procs, Crash(p) PROVE RestoreInv'
  <2>1. \A q \in Procs \ {p} : pc[q] = "idle"
    BY <1>3 DEF Crash, Inv, LockInv
  <2>2. \A q \in Procs : pc'[q] = "idle"
    BY <1>0, <1>3, <2>1 DEF Crash, Leave, TypeOK
  <2>3. steering' = steering
        /\ cause' = IF steering = "cleared" /\ pc[p] \in Window THEN "crash" ELSE cause
    BY <1>3 DEF Crash
  <2>4. lost => pc[p] \in Window
    BY <2>1 DEF RestoreInv, SteeringIsRestored, Window
  <2> QED BY <2>2, <2>3, <2>4 DEF RestoreInv, SteeringIsRestored
<1>4. ASSUME MachineStep \/ UNCHANGED vars PROVE RestoreInv'
  <2>1. pc' = pc /\ (steering' = "armed" \/ UNCHANGED <<steering, cause>>)
    BY <1>4
    DEF MachineStep, AgentStops, AgentStarts, TimePasses, InstallerCompletes,
        InstallerAborts, AgentArms, machine, vars
  <2> QED BY <2>1 DEF RestoreInv, SteeringIsRestored
<1> QED BY <1>1, <1>2, <1>3, <1>4 DEF Next

\* RecordInv is preserved.
LEMMA RecordStep ==
  ASSUME Inv, RecordInv, [Next]_vars, TypeOK'
  PROVE  RecordInv'
<1>0. TypeOK /\ GateInv
  BY DEF Inv
<1>d. disk \in Journal /\ disk.seq \in Nat /\ downSeq \in Nat
  BY <1>0 DEF TypeOK, Journal
<1>1. ASSUME NEW p \in Procs, Start(p) PROVE RecordInv'
  <2>1. \A q \in Procs : pc[q] = "idle"
    BY <1>1 DEF Start, Inv, LockInv
  <2>2. /\ mem'[p] = disk /\ UNCHANGED <<disk, steering, downSeq>>
        /\ pc'[p] \in {"drain", "rollback"} /\ \A q \in Procs \ {p} : pc'[q] = "idle"
    BY <1>0, <1>1, <2>1 DEF Start, TypeOK, machine
  <2> QED BY <2>2 DEF RecordInv
<1>2. ASSUME NEW p \in Procs, PassStep(p), ~Release(p) PROVE RecordInv'
  <2>1. pc[p] # "idle" /\ \A q \in Procs \ {p} : pc'[q] = pc[q] /\ mem'[q] = mem[q]
    BY <1>0, <1>2, PassFrame
  <2>2. \A q \in Procs \ {p} : pc[q] = "idle"
    BY <2>1 DEF Inv, LockInv
  <2>3. mem[p] \in Journal /\ mem'[p] \in Journal /\ mem[p].seq \in Nat
    BY <1>0 DEF TypeOK, Journal
  <2>4. Written(p, mem'[p]).phase = mem'[p].phase /\ Written(p, mem'[p]).seq = mem'[p].seq
    BY <2>3 DEF Written, Aged, Journal
  <2>5. pc'[p] = "disarming" =>
          disk'.phase = "disarmed" /\ mem'[p].phase = "disarmed" /\ disk'.seq = mem'[p].seq
    <3> SUFFICES ASSUME pc'[p] = "disarming"
                 PROVE  disk'.phase = "disarmed" /\ mem'[p].phase = "disarmed"
                        /\ disk'.seq = mem'[p].seq
      OBVIOUS
    <3>1. RecordDisarm(p)
      BY <1>0, <1>2, PassLabels
    <3>2. AfterRun(p) # "disarming"
      BY DEF AfterRun
    <3>3. mem'[p] = Enter(mem[p], "disarmed") /\ disk' = Written(p, mem'[p])
      BY <1>0, <3>1, <3>2 DEF RecordDisarm, Save, SaveOk, TypeOK
    <3>4. mem'[p].phase = "disarmed"
      BY <2>3, <3>3 DEF Enter, Journal
    <3> QED BY <2>4, <3>3, <3>4
  <2>6. ASSUME NEW d \in Nat, Down(disk, d), Down(mem[p], d)
        PROVE  Down(disk', d) /\ Down(mem'[p], d)
    <3>1. Down(mem'[p], d)
      BY <1>0, <1>2, <2>6, PassKeeps DEF Keeps
    <3>2. Down(Written(p, mem'[p]), d)
      BY <2>4, <3>1 DEF Down, NeedsNetworkRecovery
    <3> QED BY <1>0, <1>2, <2>6, <3>1, <3>2, WritesItsMemory
  <2>7. steering' = "cleared" => Down(disk', downSeq') /\ Down(mem'[p], downSeq')
    <3> SUFFICES ASSUME steering' = "cleared"
                 PROVE  Down(disk', downSeq') /\ Down(mem'[p], downSeq')
      OBVIOUS
    <3>1. CASE steering = "cleared" /\ downSeq' = downSeq
      BY <1>d, <2>1, <2>6, <3>1 DEF RecordInv
    <3>2. CASE pc[p] = "disarming" /\ downSeq' = mem[p].seq
      <4>1. Down(disk, mem[p].seq) /\ Down(mem[p], mem[p].seq)
        BY <2>3, <3>2 DEF RecordInv, Down, NeedsNetworkRecovery
      <4> QED BY <2>3, <2>6, <3>2, <4>1
    <3>3. \/ steering = "cleared" /\ downSeq' = downSeq
          \/ pc[p] = "disarming" /\ downSeq' = mem[p].seq
      <4>1. CASE UNCHANGED machine \/ RecordExecute(p) \/ Launch(p) \/ LaunchFails(p)
        BY <4>1 DEF RecordExecute, Launch, LaunchFails, machine
      <4>2. CASE Disarm(p) \/ DisarmFails(p)
        BY <4>2 DEF Disarm, DisarmFails
      <4>3. CASE Restore(p) \/ DeferredRearm(p)
        BY <4>3 DEF Restore, DeferredRearm, Rearmed, RearmFails, AgentArms
      <4> QED BY <1>2, <4>1, <4>2, <4>3, PassMachine
    <3> QED BY <3>1, <3>2, <3>3
  <2> QED BY <2>1, <2>2, <2>5, <2>7 DEF RecordInv
<1>3. ASSUME NEW p \in Procs, Release(p) \/ Crash(p) PROVE RecordInv'
  <2>1. pc[p] # "idle" /\ UNCHANGED <<disk, steering, downSeq>>
    BY <1>3 DEF Release, Crash, machine
  <2>2. \A q \in Procs \ {p} : pc[q] = "idle"
    BY <2>1 DEF Inv, LockInv
  <2>3. \A q \in Procs : pc'[q] = "idle"
    BY <1>0, <1>3, <2>2 DEF Release, Crash, Leave, TypeOK
  <2> QED BY <2>1, <2>3 DEF RecordInv
<1>4. ASSUME MachineStep \/ UNCHANGED vars PROVE RecordInv'
  <2>1. /\ UNCHANGED <<pc, mem>> /\ disk' \in {disk, Aged(disk)}
        /\ steering' = "armed" \/ UNCHANGED <<steering, downSeq>>
    BY <1>4
    DEF MachineStep, AgentStops, AgentStarts, TimePasses, InstallerCompletes,
        InstallerAborts, AgentArms, machine, vars
  <2>2. disk'.phase = disk.phase /\ disk'.seq = disk.seq
    BY <1>d, <2>1 DEF Aged, Journal
  <2> QED BY <2>1, <2>2 DEF RecordInv, Down, NeedsNetworkRecovery
<1> QED BY <1>1, <1>2, <1>3, <1>4 DEF Next

\* Steering taken down for an install comes back unless an installer was
\* launched, restoring it failed, or the process died (SteeringIsRestored):
\* no early return of Run or Rollback forgets it.
THEOREM SteeringComesBack == Spec => []SteeringIsRestored
<1>1. Init => RestoreInv
  BY DEF Init, RestoreInv, SteeringIsRestored
<1>2. Inv /\ RestoreInv /\ [Next]_vars => RestoreInv'
  BY RestoreStep
<1>3. RestoreInv => SteeringIsRestored
  BY DEF RestoreInv
<1> QED BY <1>1, <1>2, <1>3, InvHolds, PTL DEF Spec

\* While steering is down the journal on disk is in a phase that says so, or has
\* recorded an outcome since (SteeringLossIsOnRecord): whenever the process dies,
\* whatever save fails, the next pass can tell.
THEOREM SteeringLossIsKnown == Spec => []SteeringLossIsOnRecord
<1>1. Init => RecordInv
  BY DEF Init, RecordInv
<1>2. Inv /\ RecordInv /\ [Next]_vars /\ TypeOK' => RecordInv'
  BY RecordStep
<1>3. RecordInv => SteeringLossIsOnRecord
  BY DEF RecordInv, SteeringLossIsOnRecord, Down
<1> QED BY <1>1, <1>2, <1>3, InvHolds, TypeCorrect, PTL DEF Spec

-----------------------------------------------------------------------------
(* What is handed to the installer.                                         *)

\* Labels between the decision to hand a version over and the end of the attempt.
Working == {"disarm", "disarming", "exec", "launch", "restore", "rearm", "record"}

\* k says of the attempt what j says; the two differ at most in what is owed.
Same(j, k) ==
  /\ k.phase = j.phase /\ k.inFlight = j.inFlight /\ k.target = j.target
  /\ k.kind = j.kind /\ k.from = j.from /\ k.poisoned = j.poisoned
  /\ k.failures = j.failures

\* The operations on the pending slot say nothing of the attempt.
LEMMA SlotSame ==
  ASSUME NEW j \in Journal, NEW r \in Report
  PROVE  /\ Same(j, MarkReportPending(j, r))
         /\ Same(j, MarkReportPendingIfFree(j, r))
         /\ Same(j, MarkOutcomeReported(j))
         /\ Same(j, RecordReportQueueFailure(j))
<1> USE DEF Same, Journal
<1>1. Same(j, MarkReportPending(j, r)) /\ Same(j, MarkReportPendingIfFree(j, r))
  BY DEF MarkReportPending, MarkReportPendingIfFree
<1>2. Same(j, MarkOutcomeReported(j))
  BY DEF MarkOutcomeReported
<1>3. Same(j, RecordReportQueueFailure(j))
  BY DEF RecordReportQueueFailure
<1> QED BY <1>1, <1>2, <1>3

\* Enter: the phase changes, the machine's clock starts once, the rest stays.
LEMMA EnterFields ==
  ASSUME NEW j \in Journal, NEW ph \in Phases
  PROVE  LET k == Enter(j, ph)
         IN  /\ k.phase = ph /\ k.target = j.target /\ k.kind = j.kind /\ k.from = j.from
             /\ k.poisoned = j.poisoned /\ k.failures = j.failures
             /\ k.inFlight = IF ph \in InFlightPhases /\ j.inFlight = "none" THEN "young"
                             ELSE j.inFlight
BY DEF Enter, Journal

\* RecordFailure closes the attempt as failed, RecordSuccess as landed.
LEMMA ClosedPhase ==
  ASSUME NEW j \in Journal, NEW c \in Nat
  PROVE  /\ RecordFailure(j, c).phase = "failed"
         /\ RecordSuccess(j).phase \in {"completed", "rolled_back"}
<1>1. RecordFailure(j, c).phase = "failed"
  BY DEF RecordFailure, Enter, Refuse, Journal
<1>2. RecordSuccess(j).phase \in {"completed", "rolled_back"}
  <2> DEFINE cleared == IF j.target = NoVersion THEN j ELSE [j EXCEPT !.failures[j.target] = 0]
  <2>1. cleared \in Journal
    BY DEF Journal
  <2> HIDE DEF cleared
  <2>2. RecordSuccess(j) \in {Enter(cleared, "rolled_back"), Enter(cleared, "completed")}
    BY DEF RecordSuccess, cleared
  <2> QED BY <2>1, <2>2, EnterFields DEF Phases
<1> QED BY <1>1, <1>2

\* A save leaves its journal in memory, and goes on to one label or the other.
LEMMA SaveMemory ==
  ASSUME TypeOK, NEW p \in Procs, NEW k, NEW ok, NEW err, Save(p, k, ok, err)
  PROVE  /\ mem'[p] = k /\ pc'[p] \in {ok, err}
         /\ pc'[p] = ok /\ ok # err => disk' = Written(p, k)
BY DEF Save, SaveOk, TypeOK

\* A skip leaves the memory alone.
LEMMA SkipMemory ==
  ASSUME TypeOK, NEW p \in Procs, NEW l, Skip(p, l)
  PROVE  mem'[p] = mem[p] /\ pc'[p] = l
BY DEF Skip, TypeOK

\* What Rollback makes of the journal before it begins.
LEMMA StackedType ==
  ASSUME TypeOK, NEW p \in Procs
  PROVE  LET k == StackOutcome(mem[p])
         IN  /\ k \in Journal
             /\ IsRollback(mem[p]) => k.failures = mem[p].failures /\ k.poisoned = mem[p].poisoned
<1> DEFINE j == mem[p]
<1>j. j \in Journal
  BY DEF TypeOK
<1>o. ASSUME NEW k \in Journal PROVE OweReport(k) \in Journal /\ Same(k, OweReport(k))
  BY <1>o, OweType, SlotSame DEF OweReport
<1>1. CASE OwesOutcomeReport(j)
  BY <1>1, <1>j, <1>o DEF StackOutcome, Same
<1>2. CASE ~OwesOutcomeReport(j) /\ Interrupted(j)
  <2> DEFINE k == IF IsRollback(j) THEN Enter(j, "failed")
                  ELSE RecordFailure(j, DefaultMaxAttempts)
  <2>1. k \in Journal
    BY <1>j, EnterType, RecordFailureType DEF Phases
  <2>e. Enter(j, "failed").failures = j.failures /\ Enter(j, "failed").poisoned = j.poisoned
    BY <1>j DEF Enter, Journal
  <2>2. IsRollback(j) => k.failures = j.failures /\ k.poisoned = j.poisoned
    BY <2>e
  <2>3. StackOutcome(j) = OweReport(k)
    BY <1>2 DEF StackOutcome
  <2> HIDE DEF k
  <2> QED BY <1>o, <2>1, <2>2, <2>3 DEF Same
<1>3. CASE ~OwesOutcomeReport(j) /\ ~Interrupted(j)
  BY <1>3, <1>j DEF StackOutcome
<1> QED BY <1>1, <1>2, <1>3

\* Rollback: where it goes, what the journal then says, and what it refuses.
LEMMA RollbackEffect ==
  ASSUME TypeOK, NEW p \in Procs, RollbackBegin(p)
  PROVE  /\ ~(Interrupted(mem[p]) /\ InstallIsYoung(mem[p]))
         /\ pc'[p] \in {"disarm", "exec", "release"}
         /\ mem'[p].phase = "verified" /\ mem'[p].inFlight = "none" /\ mem'[p].kind = "rollback"
         /\ mem'[p].target \in Versions \ {RunningVersion}
         /\ agentUp => mem'[p].from = agentVer /\ agentVer \in mem'[p].poisoned
         /\ IsRollback(mem[p]) => /\ mem'[p].failures = mem[p].failures
                                  /\ mem'[p].target \notin mem'[p].poisoned \ mem[p].poisoned
<1> DEFINE j == mem[p]
           stacked == StackOutcome(j)
<1>1. PICK to \in Versions \cup {NoVersion}, installed \in {agentVer, NoVersion} :
        LET target  == RollbackTarget(j, to)
            leaving == IF agentUp THEN agentVer ELSE installed
            begun   == BeginRollback(stacked, target, leaving)
        IN  /\ ~RollbackRefused(j, to)
            /\ Save(p, IF leaving = target THEN begun ELSE Refuse(begun, leaving),
                    IF FailOpen THEN "disarm" ELSE "exec", "release")
  BY DEF RollbackBegin
<1> DEFINE target  == RollbackTarget(j, to)
           leaving == IF agentUp THEN agentVer ELSE installed
           begun   == BeginRollback(stacked, target, leaving)
           written == IF leaving = target THEN begun ELSE Refuse(begun, leaving)
<1>2. ~(Interrupted(j) /\ InstallIsYoung(j)) /\ target \notin {NoVersion, RunningVersion}
  BY <1>1 DEF RollbackRefused
<1>3. target \in Versions /\ leaving \in Versions \cup {NoVersion}
  <2>1. target \in Versions \cup {NoVersion}
    BY DEF RollbackTarget, TypeOK, Journal
  <2> QED BY <1>2, <2>1 DEF TypeOK
<1>4. stacked \in Journal
      /\ (IsRollback(j) => stacked.failures = j.failures /\ stacked.poisoned = j.poisoned)
  BY StackedType
<1>5. mem'[p] = written /\ pc'[p] \in {"disarm", "exec", "release"}
  <2>1. Save(p, written, IF FailOpen THEN "disarm" ELSE "exec", "release")
    BY <1>1
  <2> HIDE DEF written
  <2> QED BY <2>1, SaveMemory
<1>6. agentUp => leaving = agentVer /\ leaving # target /\ agentVer # NoVersion
  <2>1. agentVer # NoVersion
    BY DEF TypeOK, NoVersion
  <2>2. agentUp => leaving = agentVer /\ RunningVersion = agentVer
    BY Zenon DEF RunningVersion
  <2> HIDE DEF target, leaving
  <2> QED BY <1>2, <2>1, <2>2
<1> HIDE DEF stacked, target, leaving
<1>7. /\ begun.phase = "verified" /\ begun.inFlight = "none" /\ begun.kind = "rollback"
      /\ begun.target = target /\ begun.from = leaving /\ begun.poisoned = stacked.poisoned
      /\ begun.failures = stacked.failures /\ begun \in Journal
  <2> DEFINE b == Begin(stacked, target, leaving)
  <2>1. b \in Journal /\ begun \in Journal
    BY <1>3, <1>4, BeginType
  <2>2. /\ b.phase = "verified" /\ b.inFlight = "none" /\ b.target = target /\ b.from = leaving
        /\ b.poisoned = stacked.poisoned /\ b.failures = stacked.failures
    BY <1>4 DEF Begin, Journal
  <2>3. begun = [b EXCEPT !.kind = "rollback"]
    BY DEF BeginRollback
  <2> HIDE DEF b, begun
  <2> QED BY <2>1, <2>2, <2>3 DEF Journal
<1> HIDE DEF begun
<1>8. /\ written.phase = "verified" /\ written.inFlight = "none" /\ written.kind = "rollback"
      /\ written.target = target /\ written.from = leaving /\ written.failures = stacked.failures
      /\ written.poisoned = IF leaving \in {target, NoVersion} THEN stacked.poisoned
                            ELSE stacked.poisoned \cup {leaving}
  <2>1. CASE leaving \in {target, NoVersion}
    <3>1. written = begun
      BY <2>1 DEF Refuse
    <3> QED BY <1>7, <2>1, <3>1
  <2>2. CASE leaving \notin {target, NoVersion}
    <3>1. written = [begun EXCEPT !.poisoned = begun.poisoned \cup {leaving}]
      BY <2>2 DEF Refuse
    <3> HIDE DEF written
    <3> QED BY <1>7, <2>2, <3>1 DEF Journal
  <2> QED BY <2>1, <2>2
<1> HIDE DEF written
<1> QED BY <1>2, <1>3, <1>4, <1>5, <1>6, <1>8 DEF j

-----------------------------------------------------------------------------
(* A rollback blames nobody.                                                *)

\* A pass that was asked to roll back is in Rollback, and never in Run.
RequestInv ==
  \A p \in Procs : arg[p].req = "rollback" => pc[p] \in Working \cup {"rollback", "release"}

\* The steps such a pass takes.
LEMMA RollbackSteps ==
  ASSUME TypeOK, NEW p \in Procs, PassStep(p), pc[p] \in Working \cup {"rollback", "release"}
  PROVE  HandOverStep(p) \/ RollbackNothing(p) \/ RollbackBegin(p) \/ Release(p)
<1>1. ~TickStep(p)
  BY DEF TickStep, FlushNothing, FlushAppended, FlushRefused, FlushSave, FlushPoints, Saving,
         Reconcile, Owed, ReportRun, Fetch, Stage, Working
<1>2. ~RunStep(p)
  BY DEF RunStep, RunOutstanding, RunRefused, RunBegin, RunGate, Working
<1> QED BY <1>1, <1>2 DEF PassStep, RollbackStep

\* A hand-over goes on handing over, or ends as AfterRun says.
LEMMA HandOverLabels ==
  ASSUME TypeOK, NEW p \in Procs, HandOverStep(p)
  PROVE  /\ pc[p] \in Working /\ pc'[p] \in Working \cup {AfterRun(p)}
         /\ arg' = arg
<1> USE DEF Working, TypeOK
<1>1. CASE RecordDisarm(p) \/ RecordExecute(p) \/ RecordFailedAttempt(p)
  BY <1>1, SaveMemory DEF RecordDisarm, RecordExecute, RecordFailedAttempt
<1>2. CASE Disarm(p) \/ DisarmFails(p) \/ Launch(p) \/ LaunchFails(p) \/ Restore(p)
  BY <1>2 DEF Disarm, DisarmFails, Launch, LaunchFails, Restore
<1>3. CASE DeferredRearm(p)
  BY <1>3 DEF DeferredRearm
<1> QED BY <1>1, <1>2, <1>3 DEF HandOverStep
\* A pass changes no one's request but by ending, and no other pass's arguments.
LEMMA PassArgs ==
  ASSUME TypeOK, NEW p \in Procs, PassStep(p), ~Release(p)
  PROVE  /\ \A q \in Procs \ {p} : arg'[q] = arg[q]
         /\ arg'[p].req = arg[p].req /\ arg'[p].late = arg[p].late
<1>a. arg[p] \in Args
  BY DEF TypeOK
<1>1. CASE arg' = arg
  BY <1>1
<1>2. CASE Reconcile(p)
  <2>1. arg' = [arg EXCEPT ![p].seen = RunningVersion]
    BY <1>2 DEF Reconcile
  <2> QED BY <1>a, <2>1 DEF TypeOK, Args
<1>3. CASE Fetch(p) /\ arg' # arg
  <2>1. PICK v \in Versions, frozen \in BOOLEAN :
          arg' = [arg EXCEPT ![p].offer = v, ![p].frozen = frozen]
    BY <1>3 DEF Fetch
  <2>2. arg'[p] = [arg[p] EXCEPT !.offer = v, !.frozen = frozen]
    BY <2>1 DEF TypeOK
  <2> QED BY <1>a, <2>1, <2>2 DEF TypeOK, Args
<1>4. arg' = arg \/ Reconcile(p) \/ Fetch(p)
  <2>1. TickStep(p) => arg' = arg \/ Reconcile(p) \/ Fetch(p)
    BY DEF TickStep, FlushNothing, FlushAppended, FlushRefused, FlushSave, Owe, Owed,
           ReportRun, Stage
  <2>2. RunStep(p) \/ RollbackStep(p) => arg' = arg
    BY DEF RunStep, RunOutstanding, RunRefused, RunBegin, RunGate, RollbackStep,
           RollbackNothing, RollbackBegin
  <2> QED BY <2>1, <2>2, HandOverLabels DEF PassStep
<1> QED BY <1>1, <1>2, <1>3, <1>4
\* RequestInv is preserved.
LEMMA RequestStep ==
  ASSUME TypeOK, LockInv, RequestInv, [Next]_vars
  PROVE  RequestInv'
<1>1. ASSUME NEW p \in Procs, Start(p) PROVE RequestInv'
  <2>1. PICK r \in Requests :
          /\ arg' = [arg EXCEPT ![p] = [NoArg EXCEPT !.req = r]]
          /\ pc' = [pc EXCEPT ![p] = IF r = "tick" THEN "drain" ELSE "rollback"]
    BY <1>1 DEF Start
  <2>2. arg'[p].req = r /\ pc'[p] = IF r = "tick" THEN "drain" ELSE "rollback"
    BY <2>1 DEF TypeOK, NoArg
  <2>3. \A q \in Procs \ {p} : arg'[q] = arg[q] /\ pc'[q] = pc[q]
    BY <2>1 DEF TypeOK
  <2> QED BY <2>2, <2>3 DEF RequestInv
<1>2. ASSUME NEW p \in Procs, Release(p) \/ Crash(p) PROVE RequestInv'
  <2>1. pc'[p] = "idle" /\ arg'[p] = NoArg
    BY <1>2 DEF Release, Crash, Leave, TypeOK
  <2>2. \A q \in Procs \ {p} : arg'[q] = arg[q] /\ pc'[q] = pc[q]
    BY <1>2 DEF Release, Crash, Leave, TypeOK
  <2> QED BY <2>1, <2>2 DEF RequestInv, NoArg
<1>3. ASSUME NEW p \in Procs, PassStep(p), ~Release(p) PROVE RequestInv'
  <2>1. \A q \in Procs \ {p} : arg'[q] = arg[q] /\ pc'[q] = pc[q]
    <3>1. \A q \in Procs \ {p} : pc'[q] = pc[q]
      BY <1>3, PassFrame
    <3> QED BY <1>3, <3>1, PassArgs
  <2>2. arg'[p].req = "rollback" => pc'[p] \in Working \cup {"rollback", "release"}
    <3> SUFFICES ASSUME arg'[p].req = "rollback"
                 PROVE  pc'[p] \in Working \cup {"rollback", "release"}
      OBVIOUS
    <3>1. arg[p].req = "rollback"
      BY <1>3, PassArgs
    <3>2. HandOverStep(p) \/ RollbackNothing(p) \/ RollbackBegin(p)
      BY <1>3, <3>1, RollbackSteps DEF RequestInv
    <3>3. AfterRun(p) = "release"
      BY <3>1 DEF AfterRun
    <3>4. RollbackNothing(p) => pc'[p] = "release"
      BY SkipMemory DEF RollbackNothing
    <3>5. RollbackBegin(p) => pc'[p] \in {"disarm", "exec", "release"}
      BY RollbackEffect
    <3> QED BY <3>2, <3>3, <3>4, <3>5, HandOverLabels DEF Working
  <2> QED BY <2>1, <2>2 DEF RequestInv
<1>4. ASSUME MachineStep \/ UNCHANGED vars PROVE RequestInv'
  <2>1. pc' = pc
    BY <1>4
    DEF MachineStep, AgentStops, AgentStarts, TimePasses, InstallerCompletes,
        InstallerAborts, vars
  <2>2. \A q \in Procs : arg'[q].req = arg[q].req
    <3>1. CASE TimePasses
      <4>1. ASSUME NEW q \in Procs PROVE [arg[q] EXCEPT !.late = TRUE].req = arg[q].req
        BY DEF TypeOK, Args
      <4> QED BY <3>1, <4>1 DEF TimePasses
    <3>2. CASE ~TimePasses
      BY <1>4, <3>2
      DEF MachineStep, AgentStops, AgentStarts, InstallerCompletes, InstallerAborts, vars
    <3> QED BY <3>1, <3>2
  <2> QED BY <2>1, <2>2 DEF RequestInv
<1> QED BY <1>1, <1>2, <1>3, <1>4 DEF Next

\* A pass that is rolling back counts no failure and refuses no target.
LEMMA BlameStep ==
  ASSUME TypeOK, RequestInv, [Next]_vars
  PROVE  [\A p \in Procs :
            arg[p].req = "rollback" /\ IsRollback(mem[p]) /\ IsRollback(mem'[p]) =>
              /\ mem'[p].failures = mem[p].failures
              /\ mem'[p].target \notin mem'[p].poisoned \ mem[p].poisoned]_vars
<1> DEFINE Blameless(p) == /\ mem'[p].failures = mem[p].failures
                           /\ mem'[p].target \notin mem'[p].poisoned \ mem[p].poisoned
<1> SUFFICES ASSUME Next, NEW p \in Procs, arg[p].req = "rollback", IsRollback(mem[p]),
                    IsRollback(mem'[p])
             PROVE  Blameless(p)
  OBVIOUS
<1>j. mem[p] \in Journal
  BY DEF TypeOK
<1>0. ASSUME mem'[p] = mem[p] PROVE Blameless(p)
  BY <1>0
<1>1. ASSUME NEW q \in Procs, Start(q) PROVE Blameless(p)
  <2>1. pc[p] # "idle"
    BY DEF RequestInv, Working
  <2>2. mem'[p] = mem[p]
    BY <1>1, <2>1 DEF Start, TypeOK
  <2> QED BY <1>0, <2>2
<1>2. ASSUME NEW q \in Procs, Release(q) \/ Crash(q) PROVE Blameless(p)
  <2>1. p # q
    BY <1>2 DEF Release, Crash, Leave, TypeOK, NewJournal, IsRollback
  <2>2. mem'[p] = mem[p]
    BY <1>2, <2>1 DEF Release, Crash, Leave, TypeOK
  <2> QED BY <1>0, <2>2
<1>3. ASSUME NEW q \in Procs, PassStep(q), q # p PROVE Blameless(p)
  <2>1. mem'[p] = mem[p]
    BY <1>3, PassFrame
  <2> QED BY <1>0, <2>1
<1>4. ASSUME PassStep(p), ~Release(p) PROVE Blameless(p)
  <2>1. HandOverStep(p) \/ RollbackNothing(p) \/ RollbackBegin(p)
    BY <1>4, RollbackSteps DEF RequestInv
  <2>2. CASE RollbackNothing(p)
    BY <1>0, <2>2, SkipMemory DEF RollbackNothing
  <2>3. CASE RollbackBegin(p)
    BY <2>3, RollbackEffect
  <2>4. CASE HandOverStep(p)
    <3>1. PICK ph \in Phases : mem'[p] \in {mem[p], Enter(mem[p], ph)}
      <4>1. FailedAttempt(p) = Enter(mem[p], "failed")
        BY DEF FailedAttempt
      <4>2. {"disarmed", "rolling_back", "failed"} \subseteq Phases
        BY DEF Phases
      <4>3. CASE RecordDisarm(p) \/ RecordExecute(p) \/ RecordFailedAttempt(p)
        BY <4>2, <4>3, SaveMemory DEF RecordDisarm, RecordExecute, RecordFailedAttempt
      <4>4. CASE Disarm(p) \/ Launch(p) \/ LaunchFails(p) \/ DeferredRearm(p)
        BY <4>2, <4>4 DEF Disarm, Launch, LaunchFails, DeferredRearm
      <4>5. CASE DisarmFails(p) \/ Restore(p)
        BY <4>1, <4>2, <4>5 DEF DisarmFails, Restore, TypeOK
      <4> QED BY <2>4, <4>3, <4>4, <4>5 DEF HandOverStep
    <3>2. /\ Enter(mem[p], ph).failures = mem[p].failures
          /\ Enter(mem[p], ph).poisoned = mem[p].poisoned
      BY <1>j DEF Enter, Journal
    <3> QED BY <3>1, <3>2
  <2> QED BY <2>1, <2>2, <2>3, <2>4
<1>5. ASSUME MachineStep PROVE Blameless(p)
  <2>1. mem' = mem
    BY <1>5
    DEF MachineStep, AgentStops, AgentStarts, TimePasses, InstallerCompletes, InstallerAborts
  <2> QED BY <1>0, <2>1
<1> QED BY <1>1, <1>2, <1>3, <1>4, <1>5 DEF Next

\* Whatever goes wrong, a rollback pass counts no failure against a version and
\* does not refuse the version it is restoring (RollbackBlamesNobody).
THEOREM RollbackBlamesNobodyHolds == Spec => RollbackBlamesNobody
<1>1. Init => RequestInv
  BY DEF Init, RequestInv, NoArg
<1>2. Inv /\ RequestInv /\ [Next]_vars => RequestInv'
  BY RequestStep DEF Inv
<1>3. Inv /\ RequestInv /\ [Next]_vars =>
        [\A p \in Procs :
           arg[p].req = "rollback" /\ IsRollback(mem[p]) /\ IsRollback(mem'[p]) =>
             /\ mem'[p].failures = mem[p].failures
             /\ mem'[p].target \notin mem'[p].poisoned \ mem[p].poisoned]_vars
  BY BlameStep DEF Inv
<1> QED BY <1>1, <1>2, <1>3, InvHolds, PTL DEF Spec, RollbackBlamesNobody
-----------------------------------------------------------------------------
(* One installer at a time.                                                 *)

\* What the exclusion rests on besides the lock and the journal: where an operator
\* may roll back, the agent is up to say what it runs.
Steady ==
  "rollback" \in Requests => "agent" \notin FaultKinds /\ "rearm" \notin FaultKinds

\* Labels from the decision to attempt a version up to its hand-over.
Attempting == {"gate", "disarm", "disarming", "exec", "launch"}

\* The journal on disk and those of the passes under way.
Journals == {disk} \cup {mem[p] : p \in {q \in Procs : pc[q] # "idle"}}

\* j says that v was handed to an installer less than InstallGrace ago.
Handed(j, v) ==
  /\ j.phase \in {"executing", "rolling_back"}
  /\ j.inFlight = "young"
  /\ j.target = v

\* A journal with an attempt that has changed nothing yet has no clock running,
\* and a rollback in it leaves the version installed, which is refused.
Waiting(j) ==
  ~Interrupted(j) /\ ~Terminal(j) =>
    /\ j.inFlight = "none"
    /\ IsRollback(j) => j.from = agentVer /\ agentVer \in j.poisoned

\* What an attempt that is about to be handed over is known to be.
Sound(j) ==
  /\ j.inFlight # "old"
  /\ j.target \in Versions \ {agentVer}
  /\ IF IsRollback(j) THEN j.from \in j.poisoned ELSE j.target \notin j.poisoned

\* Every journal the device could go on from is as Waiting says.
WaitingInv == \A j \in Journals : Waiting(j)

\* While a pass that has outlasted InstallGrace is under way no installer runs; a
\* pass rolls back only when asked to, with the agent up.
ClockInv ==
  /\ \A p \in Procs : arg[p].late => pc[p] # "idle" /\ NoInstaller
  /\ \A p \in Procs : pc[p] = "rollback" => "rollback" \in Requests
  /\ "rollback" \in Requests => agentUp

\* An attempt is sound until it is handed over, when the disk has it.
AttemptInv ==
  \A p \in Procs :
    /\ pc[p] \in Attempting => Sound(mem[p])
    /\ pc[p] = "launch" => disk = Written(p, mem[p]) /\ Handed(mem[p], mem[p].target)

\* While an installer for v runs, it is the only one, v is not what the device
\* runs yet, every journal says it was just handed over, and no pass is on its
\* way to another hand-over.
Running(v) ==
  /\ installing[v] = 1
  /\ agentVer # v
  /\ \A j \in Journals : Handed(j, v)
  /\ \A p \in Procs : pc[p] \notin Working \cup {"gate"}

InstallInv == \A v \in Versions : ~Idle(v) => Running(v)

InstallerInv == ClockInv /\ WaitingInv /\ AttemptInv /\ InstallInv

\* What a journal that has grown old, or was written late, still says.
LEMMA AgedFields ==
  ASSUME NEW j \in Journal
  PROVE  /\ Aged(j).phase = j.phase /\ Aged(j).kind = j.kind /\ Aged(j).target = j.target
         /\ Aged(j).from = j.from /\ Aged(j).poisoned = j.poisoned
         /\ j.inFlight = "none" => Aged(j).inFlight = "none"
         /\ Waiting(j) => Waiting(Aged(j))
<1>1. /\ Aged(j).phase = j.phase /\ Aged(j).kind = j.kind /\ Aged(j).target = j.target
      /\ Aged(j).from = j.from /\ Aged(j).poisoned = j.poisoned
      /\ j.inFlight = "none" => Aged(j).inFlight = "none"
  BY DEF Aged, Journal
<1>2. Waiting(j) => Waiting(Aged(j))
  BY <1>1 DEF Waiting, Interrupted, Terminal, IsRollback
<1> QED BY <1>1, <1>2

\* The inductive step for a step of a pass that leaves agent and installers
\* alone, from what the step leaves in the pass's memory and at its label.
LEMMA QuietStep ==
  ASSUME Inv, InstallerInv, NEW p \in Procs, PassStep(p), ~Release(p),
         UNCHANGED <<agentVer, installing>>, "rollback" \in Requests => agentUp',
         Waiting(mem'[p]),
         pc'[p] \in Attempting => Sound(mem'[p]),
         pc'[p] = "launch" => disk' = Written(p, mem'[p]) /\ Handed(mem'[p], mem'[p].target),
         mem'[p] \in Journal,
         \A v \in Versions : ~Idle(v) => Handed(mem'[p], v) /\ pc'[p] \notin Working \cup {"gate"}
  PROVE  InstallerInv'
<1>0. TypeOK
  BY DEF Inv
<1>1. pc[p] # "idle" /\ \A q \in Procs \ {p} : pc'[q] = pc[q] /\ mem'[q] = mem[q]
  BY <1>0, PassFrame
<1>2. \A q \in Procs \ {p} : pc[q] = "idle" /\ pc'[q] = "idle"
  BY <1>1 DEF Inv, LockInv
<1>3. \A q \in Procs : arg'[q].late = arg[q].late
  BY <1>0, PassArgs
<1>4. ClockInv'
  <2>1. \A q \in Procs : pc'[q] # "rollback" /\ (pc[q] # "idle" => pc'[q] # "idle")
    BY <1>0, <1>1, <1>2, PassLabels
  <2>2. NoInstaller' = NoInstaller
    BY DEF NoInstaller, Idle
  <2> QED BY <1>3, <2>1, <2>2 DEF InstallerInv, ClockInv
<1>5. /\ disk \in Journals
      /\ Journals' \subseteq {disk, mem'[p], Written(p, mem'[p])}
  <2>1. Journals' \subseteq {disk', mem'[p]}
    BY <1>2 DEF Journals
  <2>2. disk' \in {disk, Written(p, mem'[p])}
    BY <1>0, WritesItsMemory
  <2> QED BY <2>1, <2>2 DEF Journals
<1>6. WaitingInv'
  <2>1. ASSUME NEW j, Waiting(j)
        PROVE  ~Interrupted(j) /\ ~Terminal(j) =>
                 /\ j.inFlight = "none"
                 /\ IsRollback(j) => j.from = agentVer' /\ agentVer' \in j.poisoned
    BY <2>1 DEF Waiting
  <2>2. Waiting(disk) /\ Waiting(Written(p, mem'[p]))
    BY <1>5, AgedFields DEF InstallerInv, WaitingInv, Written
  <2> QED BY <1>5, <2>1, <2>2 DEF WaitingInv, Waiting
<1>7. AttemptInv'
  <2>1. \A q \in Procs : pc'[q] \in Attempting => Sound(mem'[q])
    BY <1>2 DEF Attempting
  <2>2. \A q \in Procs : pc'[q] = "launch" =>
          disk' = Written(p, mem'[p]) /\ q = p /\ Handed(mem'[q], mem'[q].target)
    BY <1>2
  <2>3. \A q \in Procs : Sound(mem'[q]) => Sound(mem[q])'
    BY DEF Sound
  <2>4. disk' = Written(p, mem'[p]) => (disk = Written(p, mem[p]))'
    BY <1>3 DEF Written
  <2> QED BY <2>1, <2>2, <2>3, <2>4 DEF AttemptInv, Handed
<1>8. InstallInv'
  <2> SUFFICES ASSUME NEW v \in Versions, ~Idle(v)
               PROVE  Running(v)'
    BY DEF InstallInv, Idle
  <2>1. Running(v)
    BY DEF InstallerInv, InstallInv
  <2>2. \A j \in Journals' : Handed(j, v)
    <3>1. ~arg[p].late
      BY DEF InstallerInv, ClockInv, NoInstaller
    <3> QED BY <1>5, <2>1, <3>1 DEF Running, Written
  <2>3. \A q \in Procs : pc'[q] \notin Working \cup {"gate"}
    BY <1>2 DEF Working
  <2> QED BY <2>1, <2>2, <2>3 DEF Running
<1> QED BY <1>4, <1>6, <1>7, <1>8 DEF InstallerInv
\* Every step of a pass but the launch leaves the installers alone and preserves
\* InstallerInv.
LEMMA PassInstaller ==
  ASSUME Steady, Inv, InstallerInv, TypeOK', NEW p \in Procs, PassStep(p), ~Release(p), ~Launch(p)
  PROVE  InstallerInv' /\ installing' = installing
<1> DEFINE j == mem[p]
           away == pc'[p] \notin Working \cup {"gate"}
<1>0. TypeOK /\ j \in Journal /\ pc[p] # "idle"
  BY PassFrame DEF Inv, TypeOK
<1>w. Waiting(j)
  BY <1>0 DEF InstallerInv, WaitingInv, Journals
<1>r. \A v \in Versions : ~Idle(v) =>
        Handed(j, v) /\ pc[p] \notin Working \cup {"gate"} /\ agentVer # v
  BY <1>0 DEF InstallerInv, InstallInv, Running, Journals
<1>u. RunningVersion \in {agentVer, NoVersion} /\ agentVer \in Versions
  BY <1>0 DEF RunningVersion, TypeOK
<1>a. "rollback" \in Requests => agentUp /\ RunningVersion = agentVer
  BY Zenon DEF InstallerInv, ClockInv, RunningVersion
<1>m. UNCHANGED <<agentVer, installing>> /\ ("rollback" \in Requests => agentUp')
  <2>1. CASE UNCHANGED machine
    BY <1>a, <2>1 DEF machine
  <2>2. CASE Disarm(p) \/ DisarmFails(p) \/ RecordExecute(p) \/ LaunchFails(p)
    BY <1>a, <2>2 DEF Disarm, DisarmFails, RecordExecute, LaunchFails, machine
  <2>3. CASE Restore(p) \/ DeferredRearm(p)
    <3>1. "rollback" \in Requests => ~RearmFails
      BY DEF RearmFails, Fault, Steady
    <3>2. UNCHANGED <<agentVer, installing>>
      BY <2>3 DEF Restore, DeferredRearm
    <3>3. "rollback" \in Requests => agentUp' = agentUp \/ agentUp' = TRUE
      BY <2>3, <3>1 DEF Restore, DeferredRearm, Rearmed, AgentArms
    <3> QED BY <1>a, <3>2, <3>3
  <2> QED BY <2>1, <2>2, <2>3, PassMachine
<1>j. mem'[p] \in Journal
  BY DEF TypeOK
<1> USE <1>j
<1> HIDE DEF j
<1>s. ASSUME Same(j, mem'[p]), away PROVE InstallerInv'
  <2>1. Waiting(mem'[p])
    BY <1>s, <1>w DEF Same, Waiting, Interrupted, Terminal, IsRollback
  <2>2. \A v \in Versions : ~Idle(v) => Handed(mem'[p], v)
    BY <1>s, <1>r DEF Same, Handed
  <2>3. pc'[p] \notin Attempting
    BY <1>s DEF Attempting, Working
  <2>4. pc'[p] # "launch"
    BY <1>s DEF Working
  <2> QED BY <1>s, <1>m, <2>1, <2>2, <2>3, <2>4, QuietStep
<1>t. ASSUME mem'[p].phase \in {"failed", "completed", "rolled_back"}, pc'[p] \notin Attempting,
             NoInstaller
      PROVE  InstallerInv'
  <2>1. Waiting(mem'[p])
    BY <1>t DEF Waiting, Terminal
  <2>2. pc'[p] # "launch"
    BY <1>t DEF Attempting
  <2> QED BY <1>t, <1>m, <2>1, <2>2, QuietStep DEF NoInstaller
<1>n. ASSUME pc[p] \in Working \cup {"gate"} PROVE NoInstaller
  BY <1>n, <1>r DEF NoInstaller
<1>q. /\ Same(j, j)
      /\ \A k \in Journal : MarkOutcomeReported(k) \in Journal
  BY SlotType, <1>0 DEF Same, Journal
<1>l. AfterRun(p) \in {"report", "release"}
  BY DEF AfterRun
<1>1. CASE FlushNothing(p) \/ FlushAppended(p) \/ FlushRefused(p)
  <2>1. pc[p] \in FlushPoints /\ pc'[p] \in {After[pc[p]], Saving[pc[p]]}
    BY <1>1, <1>0, SkipMemory DEF FlushNothing, FlushAppended, FlushRefused, TypeOK
  <2>2. away
    BY <2>1 DEF After, Saving, FlushPoints, Working
  <2>3. mem'[p] \in {j, MarkOutcomeReported(j), RecordReportQueueFailure(j)}
    BY <1>1, <1>0, SkipMemory DEF FlushNothing, FlushAppended, FlushRefused, TypeOK, j
  <2>4. j.pending \in Report
    BY <1>0 DEF Journal
  <2>5. Same(j, mem'[p])
    BY <1>0, <1>q, <2>3, <2>4, SlotSame
  <2> QED BY <1>s, <1>m, <2>2, <2>5
<1>2. CASE FlushSave(p)
  <2>1. PICK f \in FlushPoints : Save(p, mem[p], After[f], After[f])
    BY <1>2 DEF FlushSave
  <2>2. mem'[p] = j /\ pc'[p] = After[f]
    BY <1>0, <2>1, SaveMemory DEF j
  <2>3. away
    BY <2>2 DEF After, FlushPoints, Working
  <2> QED BY <1>s, <1>m, <1>q, <2>2, <2>3
<1>3. CASE Reconcile(p)
  <2>1. CASE Landed(j)
    <3> DEFINE done == RecordSuccess(j)
    <3>1. /\ mem'[p] = MarkReportPending(done, ReportOutcome(done, nextId))
          /\ pc'[p] \in {"settle", "release"}
      BY <1>0, <1>3, <2>1, SaveMemory DEF Reconcile, j
    <3>2. done \in Journal /\ done.phase \in {"completed", "rolled_back"}
      BY <1>0, RecordSuccessType, ClosedPhase
    <3>3. ReportOutcome(done, nextId) \in Report
      BY <1>0, <3>2, OweType
    <3> HIDE DEF done
    <3>4. mem'[p].phase = done.phase
      BY <3>1, <3>2, <3>3, SlotSame DEF Same
    <3>5. NoInstaller
      BY <1>r, <1>u, <2>1 DEF NoInstaller, Landed, Handed
    <3>6. pc'[p] \notin Attempting
      BY <3>1 DEF Attempting
    <3> QED BY <1>t, <1>m, <3>2, <3>4, <3>5, <3>6
  <2>2. CASE ~Landed(j)
    <3>1. mem'[p] = j /\ pc'[p] = "owed"
      BY <1>0, <1>3, <2>2, SkipMemory DEF Reconcile, j
    <3>2. away
      BY <3>1 DEF Working
    <3> QED BY <1>s, <1>m, <1>q, <3>1, <3>2
  <2> QED BY <2>1, <2>2
<1>4. CASE Owed(p) \/ ReportRun(p)
  <2>1. mem'[p] \in {j, OweReport(j)} /\ pc'[p] \in {"queue", "final"}
    BY <1>0, <1>4, SaveMemory, SkipMemory DEF Owed, ReportRun, Owe, j
  <2>2. Same(j, OweReport(j))
    BY <1>0, OweType, SlotSame DEF OweReport
  <2>3. away
    BY <2>1 DEF Working
  <2> QED BY <1>s, <1>m, <1>q, <2>1, <2>2, <2>3
<1>5. CASE Fetch(p) \/ Stage(p) \/ RunRefused(p) \/ RollbackNothing(p)
  <2>1. mem'[p] = j /\ pc'[p] \in {"release", "stage", "run", "report"}
    <3>1. CASE Fetch(p)
      <4>1. PICK l \in {"release", "stage"} : Skip(p, l) \/ Save(p, mem[p], l, l)
        BY <3>1 DEF Fetch
      <4> QED BY <1>0, <4>1, SaveMemory, SkipMemory DEF j
    <3>2. CASE Stage(p) \/ RunRefused(p) \/ RollbackNothing(p)
      BY <1>0, <3>2, SkipMemory DEF Stage, RunRefused, RollbackNothing, j
    <3> QED BY <1>5, <3>1, <3>2
  <2>2. away
    BY <2>1 DEF Working
  <2> QED BY <1>s, <1>m, <1>q, <2>1, <2>2
<1>6. CASE RunOutstanding(p)
  <2>1. pc'[p] = "report"
    BY <1>0, <1>6, SaveMemory, SkipMemory DEF RunOutstanding
  <2>2. away /\ pc'[p] \notin Attempting
    BY <2>1 DEF Working, Attempting
  <2>3. CASE InstallIsYoung(j)
    <3>1. mem'[p] = j
      BY <1>0, <1>6, <2>3, SkipMemory DEF RunOutstanding, j
    <3> QED BY <1>s, <1>m, <1>q, <2>2, <3>1
  <2>4. CASE ~InstallIsYoung(j)
    <3>1. mem'[p] = Enter(j, "failed")
      BY <1>0, <1>6, <2>4, SaveMemory DEF RunOutstanding, j
    <3>2. mem'[p].phase = "failed"
      BY <1>0, <3>1, EnterFields DEF Phases
    <3>3. NoInstaller
      BY <1>r, <2>4 DEF NoInstaller, Handed, InstallIsYoung, InstallStarted
    <3> QED BY <1>t, <1>m, <2>2, <3>2, <3>3
  <2> QED BY <2>3, <2>4
<1>7. CASE RunBegin(p)
  <2>1. /\ ~Interrupted(j) /\ RunningVersion = agentVer /\ arg[p].offer > agentVer
        /\ arg[p].offer \notin j.poisoned
    BY <1>7, <1>u DEF RunBegin, MayAttempt, IsPoisoned, j
  <2>2. NoInstaller
    BY <1>r, <2>1 DEF NoInstaller, Handed, Interrupted, InterruptedPhases
  <2>3. arg[p].offer \in Versions \ {agentVer}
    <3>1. arg[p].offer \in Versions \cup {NoVersion}
      BY <1>0 DEF TypeOK, Args
    <3> QED BY <1>u, <2>1, <3>1 DEF NoVersion
  <2>4. pc'[p] \in {"gate", "report"}
    BY <1>0, <1>7, SaveMemory, SkipMemory DEF RunBegin
  <2>5. Waiting(mem'[p]) /\ Sound(mem'[p])
    <3>1. CASE j.target # arg[p].offer \/ j.attemptAt = "none" \/ Terminal(j)
      <4>1. mem'[p] = Begin(j, arg[p].offer, agentVer)
        BY <1>0, <1>7, <2>1, <3>1, SaveMemory DEF RunBegin, j
      <4>2. /\ mem'[p].inFlight = "none" /\ mem'[p].kind = "update"
            /\ mem'[p].target = arg[p].offer /\ mem'[p].poisoned = j.poisoned
        BY <1>0, <4>1 DEF Begin, Journal
      <4> QED BY <2>1, <2>3, <4>2 DEF Waiting, Sound, IsRollback
    <3>2. CASE ~(j.target # arg[p].offer \/ j.attemptAt = "none" \/ Terminal(j))
      <4>1. j.inFlight = "none" /\ (IsRollback(j) => j.from = agentVer /\ agentVer \in j.poisoned)
        BY <1>w, <2>1, <3>2 DEF Waiting
      <4>2. CASE j.from = agentVer
        <5>1. mem'[p] = j
          BY <1>0, <1>7, <2>1, <3>2, <4>2, SkipMemory DEF RunBegin, j
        <5> QED BY <1>w, <2>1, <2>3, <3>2, <4>1, <5>1 DEF Sound
      <4>3. CASE j.from # agentVer
        <5>1. mem'[p] = [j EXCEPT !.from = agentVer]
          BY <1>0, <1>7, <2>1, <3>2, <4>3, SaveMemory DEF RunBegin, j
        <5>2. /\ mem'[p].inFlight = j.inFlight /\ mem'[p].kind = j.kind
              /\ mem'[p].target = j.target /\ mem'[p].poisoned = j.poisoned
          BY <1>0, <5>1 DEF Journal
        <5> QED BY <2>1, <2>3, <3>2, <4>1, <4>3, <5>2 DEF Waiting, Sound, IsRollback
      <4> QED BY <4>2, <4>3
    <3> QED BY <3>1, <3>2
  <2>6. pc'[p] # "launch"
    BY <2>4
  <2> QED BY <1>m, <2>2, <2>5, <2>6, QuietStep DEF NoInstaller
<1>8. CASE RollbackBegin(p)
  <2>1. NoInstaller
    <3>1. ~(Interrupted(j) /\ InstallIsYoung(j))
      BY <1>0, <1>8, RollbackEffect DEF j
    <3> QED
      BY <1>r, <3>1
      DEF NoInstaller, Handed, Interrupted, InterruptedPhases, InstallIsYoung, InstallStarted
  <2>2. /\ mem'[p].phase = "verified" /\ mem'[p].inFlight = "none" /\ mem'[p].kind = "rollback"
        /\ mem'[p].target \in Versions \ {agentVer}
        /\ mem'[p].from = agentVer /\ agentVer \in mem'[p].poisoned
    <3>1. "rollback" \in Requests
      BY <1>8 DEF RollbackBegin, InstallerInv, ClockInv
    <3> QED BY <1>0, <1>8, <1>a, <3>1, RollbackEffect
  <2>3. Waiting(mem'[p]) /\ Sound(mem'[p])
    BY <2>2 DEF Waiting, Sound, IsRollback
  <2>4. pc'[p] # "launch"
    BY <1>0, <1>8, RollbackEffect
  <2> QED BY <1>m, <2>1, <2>3, <2>4, QuietStep DEF NoInstaller
<1>e. ASSUME NEW ph \in {"snapshotted", "disarmed", "executing", "rolling_back"},
             pc[p] \in Attempting, mem'[p] = Enter(j, ph)
      PROVE  /\ Waiting(mem'[p]) /\ Sound(mem'[p]) /\ NoInstaller
             /\ ph \in {"executing", "rolling_back"} => Handed(mem'[p], mem'[p].target)
  <2>1. Sound(j)
    BY <1>e DEF InstallerInv, AttemptInv, j
  <2>2. ph \in Phases
    BY DEF Phases
  <2>3. /\ mem'[p].phase = ph /\ mem'[p].target = j.target /\ mem'[p].kind = j.kind
        /\ mem'[p].from = j.from /\ mem'[p].poisoned = j.poisoned
        /\ mem'[p].inFlight = IF ph \in InFlightPhases /\ j.inFlight = "none" THEN "young"
                              ELSE j.inFlight
    BY <1>0, <1>e, <2>2, EnterFields
  <2>4. j.inFlight \in {"none", "young"}
    BY <1>0, <2>1 DEF Sound, Journal, Stamps
  <2>5. NoInstaller
    BY <1>e, <1>n DEF Attempting, Working
  <2> QED
    BY <2>1, <2>3, <2>4, <2>5
    DEF Waiting, Sound, Handed, Interrupted, InterruptedPhases, InFlightPhases, IsRollback
<1>9. CASE RunGate(p)
  <2>g. pc[p] = "gate"
    BY <1>9 DEF RunGate
  <2>1. CASE mem'[p] = j /\ pc'[p] = "report"
    <3>1. away
      BY <2>1 DEF Working
    <3> QED BY <1>s, <1>m, <1>q, <2>1, <3>1
  <2>2. CASE mem'[p] = Enter(j, "snapshotted") /\ pc'[p] # "launch"
    <3>1. Waiting(mem'[p]) /\ Sound(mem'[p]) /\ NoInstaller
      BY <1>e, <2>g, <2>2 DEF Attempting
    <3> QED BY <1>m, <2>2, <3>1, QuietStep DEF NoInstaller
  <2> QED
    BY <1>0, <1>9, <2>1, <2>2, SaveMemory, SkipMemory DEF RunGate, j
<1>10. CASE RecordDisarm(p)
  <2>1. mem'[p] = Enter(j, "disarmed") /\ pc'[p] \in {"disarming", AfterRun(p)}
    BY <1>0, <1>10, SaveMemory DEF RecordDisarm, j
  <2>2. Waiting(mem'[p]) /\ Sound(mem'[p]) /\ NoInstaller
    BY <1>10, <1>e, <2>1 DEF RecordDisarm, Attempting
  <2>3. pc'[p] # "launch"
    BY <1>l, <2>1
  <2> QED BY <1>m, <2>2, <2>3, QuietStep DEF NoInstaller
<1>11. CASE Disarm(p) \/ LaunchFails(p)
  <2>1. mem'[p] = j /\ pc[p] \in {"disarming", "launch"} /\ pc'[p] \in {"exec", "restore"}
    BY <1>0, <1>11 DEF Disarm, LaunchFails, TypeOK, j
  <2>2. Sound(j) /\ NoInstaller
    BY <1>n, <2>1 DEF InstallerInv, AttemptInv, Attempting, Working, j
  <2>3. pc'[p] # "launch"
    BY <2>1
  <2> QED BY <1>m, <1>w, <2>1, <2>2, <2>3, QuietStep DEF NoInstaller
<1>12. CASE DisarmFails(p) \/ Restore(p)
  <2>1. mem'[p] = FailedAttempt(p) /\ pc'[p] = "record" /\ pc[p] \in {"disarming", "restore"}
    BY <1>0, <1>12 DEF DisarmFails, Restore, TypeOK
  <2>2. Enter(j, "failed").phase = "failed" /\ RecordFailure(j, MaxAttempts).phase = "failed"
    BY <1>0, EnterFields, ClosedPhase DEF Phases
  <2>3. mem'[p].phase = "failed"
    BY <2>1, <2>2 DEF FailedAttempt, j
  <2>4. NoInstaller
    BY <1>n, <2>1 DEF Working
  <2>5. pc'[p] \notin Attempting
    BY <2>1 DEF Attempting
  <2> QED BY <1>t, <1>m, <2>3, <2>4, <2>5
<1>13. CASE RecordExecute(p)
  <2>1. PICK ph \in {"executing", "rolling_back"} :
          Save(p, Enter(j, ph), "launch", IF FailOpen THEN "rearm" ELSE AfterRun(p))
    BY <1>13 DEF RecordExecute, j
  <2>2. (IF FailOpen THEN "rearm" ELSE AfterRun(p)) # "launch"
    BY <1>l
  <2>3. mem'[p] = Enter(j, ph) /\ (pc'[p] = "launch" => disk' = Written(p, mem'[p]))
    BY <1>0, <2>1, <2>2, SaveMemory
  <2>5. /\ Waiting(mem'[p]) /\ Sound(mem'[p]) /\ NoInstaller
        /\ Handed(mem'[p], mem'[p].target)
    BY <1>13, <1>e, <2>3 DEF RecordExecute, Attempting
  <2> QED BY <1>m, <2>3, <2>5, QuietStep DEF NoInstaller
<1>14. CASE DeferredRearm(p) \/ RecordFailedAttempt(p)
  <2>1. mem'[p] = j /\ pc'[p] \in {AfterRun(p), "record"}
    BY <1>0, <1>14, SaveMemory DEF DeferredRearm, RecordFailedAttempt, TypeOK, j
  <2>2. NoInstaller
    BY <1>n, <1>14 DEF DeferredRearm, RecordFailedAttempt, Working
  <2>3. pc'[p] \notin Attempting /\ pc'[p] # "launch"
    BY <1>l, <2>1 DEF Attempting
  <2> QED BY <1>m, <1>w, <2>1, <2>2, <2>3, QuietStep DEF NoInstaller
<1> QED
  BY <1>m, <1>1, <1>2, <1>3, <1>4, <1>5, <1>6, <1>7, <1>8, <1>9, <1>10, <1>11, <1>12, <1>13,
     <1>14
  DEF PassStep, TickStep, RunStep, HandOverStep, RollbackStep
\* The launch: the one installer there is was recorded before it was started, and
\* unless the pass is late the record is young.
LEMMA LaunchInstaller ==
  ASSUME Inv, InstallerInv, TypeOK', NEW p \in Procs, Launch(p)
  PROVE  /\ faults'.late \/ InstallerInv'
         /\ NoInstaller /\ disk' = disk
         /\ IF IsRollback(disk) THEN disk.from \in disk.poisoned
            ELSE disk.target \notin disk.poisoned
         /\ \A v \in Versions \ {disk.target} : installing'[v] = installing[v]
<1>0. TypeOK /\ pc[p] = "launch" /\ UNCHANGED <<disk, mem, arg, agentVer, agentUp>>
  BY DEF Inv, Launch
<1>t. PICK t : t = mem[p].target
  OBVIOUS
<1>1. disk = Written(p, mem[p]) /\ Handed(mem[p], t) /\ Sound(mem[p])
  BY <1>0, <1>t DEF InstallerInv, AttemptInv, Attempting
<1>2. NoInstaller
  BY <1>0 DEF NoInstaller, InstallerInv, InstallInv, Running, Working
<1>3. pc'[p] \in {"report", "release"} /\ \A q \in Procs \ {p} : pc[q] = "idle" /\ pc'[q] = "idle"
  BY <1>0 DEF Launch, AfterRun, TypeOK, Inv, LockInv
<1>4. t \in Versions /\ agentVer # t
  BY <1>1, <1>t DEF Sound
<1>5. installing' = [installing EXCEPT ![t] = @ + 1]
  BY <1>t DEF Launch
<1>6. installing'[t] = 1 /\ \A v \in Versions \ {t} : installing'[v] = 0 /\ installing[v] = 0
  BY <1>0, <1>2, <1>4, <1>5 DEF TypeOK, NoInstaller, Idle
<1>7. /\ disk.target = t /\ disk.kind = mem[p].kind /\ disk.from = mem[p].from
      /\ disk.poisoned = mem[p].poisoned
  <2>1. mem[p] \in Journal
    BY <1>0 DEF TypeOK
  <2> QED BY <1>1, <1>t, <2>1, AgedFields DEF Written
<1>8. CASE arg[p].late
  <2>1. faults'.late = TRUE
    BY <1>0, <1>8 DEF Launch, TypeOK, Faults
  <2> QED BY <1>0, <1>1, <1>2, <1>6, <1>7, <1>t, <2>1 DEF Sound, IsRollback
<1>9. CASE ~arg[p].late
  <2>1. disk = mem[p]
    BY <1>1, <1>9 DEF Written
  <2>2. Journals' = {disk} /\ disk \in Journals
    BY <1>0, <1>3, <2>1 DEF Journals
  <2>3. ClockInv' /\ WaitingInv'
    <3>1. \A q \in Procs : ~arg[q].late
      BY <1>3, <1>9 DEF InstallerInv, ClockInv
    <3> QED BY <1>0, <1>3, <2>2, <3>1 DEF InstallerInv, ClockInv, WaitingInv, Waiting
  <2>4. AttemptInv'
    BY <1>3 DEF AttemptInv, Attempting
  <2>5. InstallInv'
    <3>1. Running(t)'
      BY <1>0, <1>1, <1>3, <1>4, <1>6, <2>1, <2>2 DEF Running, Working
    <3> QED BY <1>6, <3>1 DEF InstallInv, Idle
  <2> QED
    BY <1>0, <1>1, <1>2, <1>6, <1>7, <1>t, <2>3, <2>4, <2>5 DEF InstallerInv, Sound, IsRollback
<1> QED BY <1>8, <1>9

\* The end of a pass, or its death.
LEMMA LeaveInstaller ==
  ASSUME Inv, InstallerInv, NEW p \in Procs, Release(p) \/ Crash(p)
  PROVE  InstallerInv' /\ UNCHANGED <<disk, installing>>
<1>0. TypeOK /\ pc[p] # "idle"
  BY DEF Inv, Release, Crash
<1>1. UNCHANGED <<disk, agentVer, agentUp, installing>>
  BY DEF Release, Crash, machine
<1>2. \A q \in Procs : pc'[q] = "idle"
  BY <1>0 DEF Release, Crash, Leave, TypeOK, Inv, LockInv
<1>4. Journals' = {disk} /\ disk \in Journals
  BY <1>1, <1>2 DEF Journals
<1>5. ClockInv'
  <2>1. \A q \in Procs : ~arg'[q].late
    <3>1. \A q \in Procs \ {p} : ~arg[q].late
      BY <1>0 DEF InstallerInv, ClockInv, Inv, LockInv
    <3>2. arg'[p] = NoArg /\ \A q \in Procs \ {p} : arg'[q] = arg[q]
      BY <1>0 DEF Release, Crash, Leave, TypeOK
    <3> QED BY <3>1, <3>2 DEF NoArg
  <2> QED BY <1>1, <1>2, <2>1 DEF InstallerInv, ClockInv
<1>6. WaitingInv'
  BY <1>1, <1>4 DEF InstallerInv, WaitingInv, Waiting
<1>7. AttemptInv'
  BY <1>2 DEF AttemptInv, Attempting
<1>8. InstallInv'
  BY <1>1, <1>2, <1>4 DEF InstallerInv, InstallInv, Idle, Running, Working
<1> QED BY <1>1, <1>5, <1>6, <1>7, <1>8 DEF InstallerInv

\* The start of a pass.
LEMMA StartInstaller ==
  ASSUME Inv, InstallerInv, NEW p \in Procs, Start(p)
  PROVE  InstallerInv' /\ UNCHANGED <<disk, installing>>
<1>0. TypeOK
  BY DEF Inv
<1>1. UNCHANGED <<disk, agentVer, agentUp, installing>> /\ mem'[p] = disk
  BY <1>0 DEF Start, machine, TypeOK
<1>2. \A q \in Procs : pc'[q] \in {"idle", "drain", "rollback"} /\ (q # p => pc'[q] = "idle")
  BY <1>0 DEF Start, TypeOK, Inv, LockInv
<1>3. \A q \in Procs : ~arg'[q].late
  <2>1. PICK r \in Requests : arg' = [arg EXCEPT ![p] = [NoArg EXCEPT !.req = r]]
    BY DEF Start
  <2>2. ~[NoArg EXCEPT !.req = r].late
    BY DEF NoArg
  <2>3. arg'[p] = [NoArg EXCEPT !.req = r] /\ \A q \in Procs \ {p} : arg'[q] = arg[q]
    BY <1>0, <2>1 DEF TypeOK
  <2>4. \A q \in Procs : ~arg[q].late
    BY DEF Start, InstallerInv, ClockInv, Inv, LockInv
  <2> QED BY <2>2, <2>3, <2>4
<1>4. Journals' = {disk} /\ disk \in Journals
  BY <1>1, <1>2 DEF Journals
<1>5. ClockInv'
  <2>1. \A q \in Procs : pc'[q] = "rollback" => "rollback" \in Requests
    BY <1>0, <1>2 DEF Start, TypeOK
  <2> QED BY <1>1, <1>3, <2>1 DEF InstallerInv, ClockInv
<1>6. WaitingInv'
  BY <1>1, <1>4 DEF InstallerInv, WaitingInv, Waiting
<1>7. AttemptInv'
  BY <1>2 DEF AttemptInv, Attempting
<1>8. InstallInv'
  BY <1>1, <1>2, <1>4 DEF InstallerInv, InstallInv, Idle, Running, Working
<1> QED BY <1>1, <1>5, <1>6, <1>7, <1>8 DEF InstallerInv

\* The agent, the installers and time.
LEMMA MachineInstaller ==
  ASSUME Steady, Inv, InstallerInv, TypeOK', MachineStep
  PROVE  /\ InstallerInv'
         /\ NoInstaller \/ disk' = disk
         /\ \A v \in Versions : installing'[v] <= installing[v]
<1>0. TypeOK
  BY DEF Inv
<1>1. ASSUME AgentStops \/ AgentStarts
      PROVE  /\ InstallerInv' /\ disk' = disk
             /\ \A v \in Versions : installing'[v] <= installing[v]
  <2>1. UNCHANGED <<disk, pc, mem, arg, agentVer, installing>>
    BY <1>1 DEF AgentStops, AgentStarts
  <2>2. "rollback" \notin Requests
    BY <1>1 DEF AgentStops, AgentStarts, Fault, Steady, InstallerInv, ClockInv
  <2>3. Journals' = Journals
    BY <2>1 DEF Journals
  <2>4. ClockInv' /\ WaitingInv'
    BY <2>1, <2>2, <2>3 DEF InstallerInv, ClockInv, WaitingInv, Waiting, NoInstaller, Idle
  <2>5. AttemptInv' /\ InstallInv'
    BY <2>1, <2>3 DEF InstallerInv, AttemptInv, Sound, Written, InstallInv, Running, Idle
  <2>6. \A v \in Versions : installing'[v] <= installing[v]
    BY <1>0, <2>1 DEF TypeOK
  <2> QED BY <2>1, <2>4, <2>5, <2>6 DEF InstallerInv
<1>2. CASE TimePasses
  <2>1. \A q \in Procs : pc[q] \in {"idle", "stage"}
    BY <1>2 DEF TimePasses
  <2>2. UNCHANGED <<pc, mem, agentVer, agentUp, installing>> /\ NoInstaller /\ disk' = Aged(disk)
    BY <1>2 DEF TimePasses, machine
  <2>3. ClockInv'
    <3>1. \A q \in Procs : arg'[q].late => pc[q] # "idle"
      BY <1>2 DEF TimePasses, InstallerInv, ClockInv
    <3>2. NoInstaller'
      BY <2>2 DEF NoInstaller, Idle
    <3> QED BY <2>2, <3>1, <3>2 DEF InstallerInv, ClockInv
  <2>4. Journals' \subseteq Journals \cup {Aged(disk)} /\ disk \in Journals
    BY <2>2 DEF Journals
  <2>5. WaitingInv'
    <3>1. \A j \in Journals : Waiting(j)
      BY DEF InstallerInv, WaitingInv
    <3>2. Waiting(Aged(disk))
      BY <1>0, <2>4, <3>1, AgedFields DEF TypeOK
    <3> QED BY <2>2, <2>4, <3>1, <3>2 DEF WaitingInv, Waiting
  <2>6. AttemptInv' /\ InstallInv'
    BY <2>1, <2>2
    DEF InstallerInv, AttemptInv, Attempting, InstallInv, NoInstaller, Idle
  <2>7. \A v \in Versions : installing'[v] <= installing[v]
    BY <1>0, <2>2 DEF TypeOK
  <2> QED BY <2>2, <2>3, <2>5, <2>6, <2>7 DEF InstallerInv
<1>3. ASSUME NEW v \in Versions, InstallerCompletes(v) \/ InstallerAborts(v)
      PROVE  /\ InstallerInv' /\ disk' = disk
             /\ \A w \in Versions : installing'[w] <= installing[w]
  <2>1. Running(v)
    BY <1>3 DEF InstallerCompletes, InstallerAborts, InstallerInv, InstallInv
  <2>2. \A w \in Versions \ {v} : installing[w] = 0
    <3>1. disk \in Journals
      BY DEF Journals
    <3>2. ASSUME NEW w \in Versions, ~Idle(w) PROVE w = v
      BY <2>1, <3>1, <3>2 DEF InstallerInv, InstallInv, Running, Handed
    <3> QED BY <3>2 DEF Idle
  <2>3. /\ UNCHANGED <<disk, pc, mem, arg>> /\ installing' = [installing EXCEPT ![v] = @ - 1]
        /\ agentUp' = TRUE \/ agentUp' = agentUp
    BY <1>3 DEF InstallerCompletes, InstallerAborts, AgentArms
  <2>4. installing[v] = 1
    BY <2>1 DEF Running
  <2>5. \A w \in Versions : installing'[w] = 0 /\ installing[w] \in Nat
    BY <1>0, <2>2, <2>3, <2>4 DEF TypeOK
  <2>6. Journals' = Journals /\ \A j \in Journals : j.phase \in {"executing", "rolling_back"}
    BY <2>1, <2>3 DEF Journals, Running, Handed
  <2>7. WaitingInv'
    BY <2>6 DEF WaitingInv, Waiting, Interrupted, InterruptedPhases
  <2>8. AttemptInv'
    BY <2>1, <2>3 DEF AttemptInv, Running, Working, Attempting
  <2>9. ClockInv' /\ InstallInv'
    BY <2>3, <2>5 DEF InstallerInv, ClockInv, InstallInv, NoInstaller, Idle
  <2>10. \A w \in Versions : installing'[w] <= installing[w]
    BY <2>5
  <2> QED BY <2>3, <2>7, <2>8, <2>9, <2>10 DEF InstallerInv
<1> QED BY <1>1, <1>2, <1>3 DEF MachineStep
\* A late hand-over is not forgotten.
LEMMA LateStays ==
  ASSUME TypeOK, faults.late, [Next]_vars
  PROVE  faults'.late
<1>1. /\ faults' = faults => faults'.late
      /\ \A kind : Fault(kind) => faults'.late
  BY FaultType DEF TypeOK
<1>2. ASSUME NEW p \in Procs, NEW j, NEW ok, NEW err, Save(p, j, ok, err) PROVE faults'.late
  BY <1>1, <1>2 DEF Save, SaveOk, SaveFails
<1>3. ASSUME NEW p \in Procs, TickStep(p) PROVE faults'.late
  BY <1>1, <1>2, <1>3
  DEF TickStep, FlushNothing, FlushAppended, FlushRefused, FlushSave, Reconcile, Owe, Owed,
      ReportRun, Fetch, Stage, Skip
<1>4. ASSUME NEW p \in Procs, RunStep(p) \/ RollbackStep(p) PROVE faults'.late
  BY <1>1, <1>2, <1>4
  DEF RunStep, RunOutstanding, RunRefused, RunBegin, RunGate, RollbackStep, RollbackNothing,
      RollbackBegin, Skip
<1>5. ASSUME NEW p \in Procs, Launch(p) PROVE faults'.late
  BY <1>1, <1>5 DEF Launch, TypeOK, Faults
<1>6. ASSUME NEW p \in Procs, HandOverStep(p) PROVE faults'.late
  BY <1>1, <1>2, <1>5, <1>6
  DEF HandOverStep, RecordDisarm, Disarm, DisarmFails, RecordExecute, LaunchFails, Restore,
      DeferredRearm, RecordFailedAttempt, Rearmed, RearmFails
<1>7. ASSUME NEW p \in Procs, Start(p) \/ Release(p) \/ Crash(p) PROVE faults'.late
  BY <1>1, <1>7 DEF Start, Release, Crash
<1>8. CASE MachineStep
  BY <1>1, <1>8
  DEF MachineStep, AgentStops, AgentStarts, TimePasses, InstallerCompletes, InstallerAborts
<1>9. CASE UNCHANGED vars
  BY <1>1, <1>9 DEF vars
<1> QED BY <1>3, <1>4, <1>6, <1>7, <1>8, <1>9 DEF Next, PassStep

\* A failed save is not forgotten.
LEMMA UnsavedStays ==
  ASSUME TypeOK, faults.unsaved, [Next]_vars
  PROVE  faults'.unsaved
<1>1. /\ faults' = faults => faults'.unsaved
      /\ \A kind : Fault(kind) => faults'.unsaved
  BY FaultType DEF TypeOK
<1>2. ASSUME NEW p \in Procs, NEW j, NEW ok, NEW err, Save(p, j, ok, err) PROVE faults'.unsaved
  BY <1>1, <1>2 DEF Save, SaveOk, SaveFails
<1>3. ASSUME NEW p \in Procs, TickStep(p) PROVE faults'.unsaved
  BY <1>1, <1>2, <1>3
  DEF TickStep, FlushNothing, FlushAppended, FlushRefused, FlushSave, Reconcile, Owe, Owed,
      ReportRun, Fetch, Stage, Skip
<1>4. ASSUME NEW p \in Procs, RunStep(p) \/ RollbackStep(p) PROVE faults'.unsaved
  BY <1>1, <1>2, <1>4
  DEF RunStep, RunOutstanding, RunRefused, RunBegin, RunGate, RollbackStep, RollbackNothing,
      RollbackBegin, Skip
<1>5. ASSUME NEW p \in Procs, Launch(p) PROVE faults'.unsaved
  BY <1>1, <1>5 DEF Launch, TypeOK, Faults
<1>6. ASSUME NEW p \in Procs, HandOverStep(p) PROVE faults'.unsaved
  BY <1>1, <1>2, <1>5, <1>6
  DEF HandOverStep, RecordDisarm, Disarm, DisarmFails, RecordExecute, LaunchFails, Restore,
      DeferredRearm, RecordFailedAttempt, Rearmed, RearmFails
<1>7. ASSUME NEW p \in Procs, Start(p) \/ Release(p) \/ Crash(p) PROVE faults'.unsaved
  BY <1>1, <1>7 DEF Start, Release, Crash
<1>8. CASE MachineStep
  BY <1>1, <1>8
  DEF MachineStep, AgentStops, AgentStarts, TimePasses, InstallerCompletes, InstallerAborts
<1>9. CASE UNCHANGED vars
  BY <1>1, <1>9 DEF vars
<1> QED BY <1>3, <1>4, <1>6, <1>7, <1>8, <1>9 DEF Next, PassStep

\* Until an installer is handed over late InstallerInv is inductive relative to
\* Inv, and a step starts an installer, or closes an attempt, only as the action
\* properties say.
LEMMA InstallerStep ==
  ASSUME Steady, Inv, InstallerInv, TypeOK', [Next]_vars
  PROVE  /\ faults'.late \/ InstallerInv'
         /\ NoInstaller \/ disk'.phase # "failed" \/ ~Interrupted(disk)
         /\ \A v \in Versions : installing'[v] > installing[v] =>
              /\ disk.kind = "update" => v \notin disk.poisoned
              /\ disk.kind = "rollback" => disk.from \in disk.poisoned \cup {NoVersion, disk.target}
<1> DEFINE Open == NoInstaller \/ disk'.phase # "failed" \/ ~Interrupted(disk)
           Clean == \A v \in Versions : installing'[v] > installing[v] =>
                      /\ disk.kind = "update" => v \notin disk.poisoned
                      /\ disk.kind = "rollback" =>
                           disk.from \in disk.poisoned \cup {NoVersion, disk.target}
<1>0. TypeOK
  BY DEF Inv
<1>1. ASSUME NEW v \in Versions, ~Idle(v) PROVE disk.phase \in {"executing", "rolling_back"}
  BY <1>1 DEF InstallerInv, InstallInv, Running, Journals, Handed
<1>2. disk' = disk => Open
  BY <1>1 DEF NoInstaller
<1>3. ASSUME \A v \in Versions : installing'[v] <= installing[v] PROVE Clean
  BY <1>0, <1>3 DEF TypeOK
<1>4. installing' = installing => Clean
  BY <1>0, <1>3 DEF TypeOK
<1>5. ASSUME NEW p \in Procs, Start(p) \/ Release(p) \/ Crash(p) PROVE InstallerInv' /\ Open /\ Clean
  <2>1. InstallerInv' /\ UNCHANGED <<disk, installing>>
    BY <1>5, StartInstaller, LeaveInstaller
  <2> QED BY <1>2, <1>4, <2>1
<1>6. ASSUME NEW p \in Procs, PassStep(p), ~Release(p), ~Launch(p)
      PROVE  InstallerInv' /\ Open /\ Clean
  <2>1. InstallerInv' /\ installing' = installing
    BY <1>6, PassInstaller
  <2>2. ASSUME NEW v \in Versions, ~Idle(v) PROVE disk'.phase \in {"executing", "rolling_back"}
    <3>1. Running(v)'
      BY <2>1, <2>2 DEF InstallerInv, InstallInv, Idle
    <3> QED BY <3>1 DEF Running, Journals, Handed
  <2>3. Open
    BY <2>2 DEF NoInstaller
  <2> QED BY <1>4, <2>1, <2>3
<1>7. ASSUME NEW p \in Procs, Launch(p)
      PROVE  (faults'.late \/ InstallerInv') /\ Open /\ Clean
  <2>1. /\ faults'.late \/ InstallerInv'
        /\ NoInstaller /\ disk' = disk
        /\ IF IsRollback(disk) THEN disk.from \in disk.poisoned
           ELSE disk.target \notin disk.poisoned
        /\ \A v \in Versions \ {disk.target} : installing'[v] = installing[v]
    BY <1>7, LaunchInstaller
  <2>2. ASSUME NEW v \in Versions, installing'[v] > installing[v]
        PROVE  /\ disk.kind = "update" => v \notin disk.poisoned
               /\ disk.kind = "rollback" => disk.from \in disk.poisoned
    <3>1. v = disk.target
      BY <1>0, <2>1, <2>2 DEF TypeOK
    <3> QED BY <2>1, <3>1 DEF IsRollback
  <2> QED BY <2>1, <2>2
<1>8. ASSUME MachineStep PROVE InstallerInv' /\ Open /\ Clean
  <2>1. /\ InstallerInv' /\ (NoInstaller \/ disk' = disk)
        /\ \A v \in Versions : installing'[v] <= installing[v]
    BY <1>8, MachineInstaller
  <2>2. Open
    BY <1>2, <2>1
  <2>3. Clean
    BY <1>3, <2>1
  <2> QED BY <2>1, <2>2, <2>3
<1>9. ASSUME UNCHANGED vars PROVE InstallerInv' /\ Open /\ Clean
  <2>1. UNCHANGED <<disk, pc, mem, arg, agentVer, agentUp, installing>>
    BY <1>9 DEF vars
  <2>2. InstallerInv'
    <3>1. Journals' = Journals
      BY <2>1 DEF Journals
    <3>2. ClockInv' /\ WaitingInv'
      BY <2>1, <3>1 DEF InstallerInv, ClockInv, WaitingInv, Waiting, NoInstaller, Idle
    <3>3. AttemptInv' /\ InstallInv'
      BY <2>1, <3>1 DEF InstallerInv, AttemptInv, Sound, Written, InstallInv, Running, Idle
    <3> QED BY <3>2, <3>3 DEF InstallerInv
  <2> QED BY <1>2, <1>4, <2>1, <2>2
<1>10. \A p \in Procs : PassStep(p) => (Release(p) \/ Launch(p) \/ (~Release(p) /\ ~Launch(p)))
  OBVIOUS
<1> HIDE DEF Open, Clean
<1>11. (faults'.late \/ InstallerInv') /\ Open /\ Clean
  BY <1>5, <1>6, <1>7, <1>8, <1>9, <1>10 DEF Next
<1> QED BY <1>11 DEF Open, Clean

\* Initially there is nothing to hand over.
LEMMA InstallerInit == Init => InstallerInv
<1> SUFFICES ASSUME Init PROVE InstallerInv
  OBVIOUS
<1>1. Journals = {NewJournal}
  BY DEF Init, Journals
<1>2. ClockInv
  BY DEF Init, ClockInv, NoArg
<1>3. WaitingInv
  BY <1>1 DEF WaitingInv, Waiting, NewJournal, IsRollback
<1>4. AttemptInv /\ InstallInv
  BY DEF Init, AttemptInv, Attempting, InstallInv, Idle
<1> QED BY <1>2, <1>3, <1>4 DEF InstallerInv

\* On a steady device InstallerInv holds until an installer is handed over late.
THEOREM InstallerInvHolds ==
  ASSUME Steady
  PROVE  Spec => [](Punctual => InstallerInv)
<1>1. Inv /\ (Punctual => InstallerInv) /\ TypeOK' /\ [Next]_vars =>
        (Punctual' => InstallerInv')
  BY InstallerStep, LateStays DEF Inv, Punctual
<1> QED BY <1>1, InstallerInit, InvHolds, TypeCorrect, PTL DEF Spec

\* Two installers never run on one device at a time (OneInstaller), whatever
\* crashes, whatever save, disarm, launch or install fails, however long downloads
\* take and however ticks and rollbacks interleave, until a pass whose download
\* outlasted InstallGrace hands one over; where rollbacks may be asked for, the
\* agent has to be up to say what it runs.
THEOREM OneInstallerHolds ==
  ASSUME Steady
  PROVE  Spec => []OneInstaller
<1>1. (Punctual => InstallerInv) => OneInstaller
  <2> SUFFICES ASSUME InstallerInv, NEW v \in Versions, NEW w \in Versions, ~Idle(v), ~Idle(w)
               PROVE  v = w /\ installing[v] = 1
    BY DEF OneInstaller
  <2>1. Running(v) /\ Running(w) /\ disk \in Journals
    BY DEF InstallerInv, InstallInv, Journals
  <2> QED BY <2>1 DEF Running, Handed
<1> QED BY <1>1, InstallerInvHolds, PTL

\* On such a device an attempt is written off as failed while its installer runs
\* only if that was handed over late (OnlyLateIsWrittenOff): slow downloads,
\* crashes, failed saves and rollbacks do not get there by themselves.
THEOREM OnlyLateIsWrittenOffHolds ==
  ASSUME Steady
  PROVE  Spec => OnlyLateIsWrittenOff
<1>1. Inv /\ (Punctual => InstallerInv) /\ TypeOK' /\ [Next]_vars =>
        [Punctual => NoInstaller \/ disk'.phase # "failed" \/ ~Interrupted(disk)]_vars
  BY InstallerStep
<1> QED
  BY <1>1, InstallerInvHolds, InvHolds, TypeCorrect, PTL DEF Spec, OnlyLateIsWrittenOff

\* On such a device an update never hands a refused version to the installer, and
\* a rollback hands its version over only once the one it leaves is refused
\* (PoisonedIsNotInstalled).
THEOREM PoisonedIsNotInstalledHolds ==
  ASSUME Steady
  PROVE  Spec => PoisonedIsNotInstalled
<1>1. Inv /\ (Punctual => InstallerInv) /\ TypeOK' /\ [Next]_vars =>
        [\A v \in Versions : Punctual /\ installing'[v] > installing[v] =>
           /\ disk.kind = "update" => v \notin disk.poisoned
           /\ disk.kind = "rollback" =>
                disk.from \in disk.poisoned \cup {NoVersion, disk.target}]_vars
  BY InstallerStep
<1> QED
  BY <1>1, InstallerInvHolds, InvHolds, TypeCorrect, PTL DEF Spec, PoisonedIsNotInstalled
=============================================================================

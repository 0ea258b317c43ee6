---------------------------- MODULE OutcomeProofs ----------------------------
(***************************************************************************)
(* Proofs about what AgentUpdater tells the fleet: every terminal outcome  *)
(* is told, waiting, quarantined or counted; each under one id; and how    *)
(* often one version can fail.                                             *)
(***************************************************************************)
EXTENDS AgentUpdaterProofs, FiniteSetTheorems

USE UpdaterAssumption, JournalAssumption

-----------------------------------------------------------------------------
(* Accounting for outcomes in one journal.                                  *)

\* Nobody but the service acts on the device.
Alone == "rollback" \notin Requests

\* Outcome n of journal j is in the outbox, in the slot, quarantined or owed.
Told(box, j, n) ==
  \/ \E r \in box \cup {j.pending} \cup j.quarantined : r.outcome.seq = n
  \/ OwesOutcomeReport(j) /\ n = j.seq

LostFrom(box, j) == {n \in 1 .. j.seq : ~Told(box, j, n)}

CountsLosses(box, j) == Cardinality(LostFrom(box, j)) <= j.dropped

\* What is marked as reported is no outcome to come; a report that waits while
\* the journal is in a terminal phase is the report of that phase; and without
\* rollbacks nothing waits in any other phase.
Books(j) ==
  /\ j.reported.seq <= j.seq
  /\ j.pending # NoReport /\ j.phase \in CountedPhases => j.pending.outcome.seq = j.seq
  /\ j.pending # NoReport /\ Alone => j.phase \in CountedPhases

Accounted(box, j) == Books(j) /\ CountsLosses(box, j)

\* k owes, holds and has dropped what j does.
SameSlot(j, k) ==
  /\ k.reported = j.reported /\ k.pending = j.pending
  /\ k.quarantined = j.quarantined /\ k.dropped = j.dropped

\* What a journal's fingerprint says: the number of the outcome it is in, if any.
LEMMA Fingerprint ==
  ASSUME NEW j \in Journal
  PROVE  /\ j.phase \in CountedPhases =>
              OutcomeFingerprint(j) # NoOutcome /\ OutcomeFingerprint(j).seq = j.seq
         /\ j.phase \notin CountedPhases =>
              OutcomeFingerprint(j) = NoOutcome /\ ~OwesOutcomeReport(j)
         /\ OutcomeFingerprint(j).seq <= j.seq
<1>0. j.seq \in Nat
  BY DEF Journal
<1>1. CASE j.phase \in CountedPhases
  <2> DEFINE n == IF j.phase = "failed" /\ j.target # NoVersion THEN j.failures[j.target] ELSE 0
  <2>1. OutcomeFingerprint(j) = [phase |-> j.phase, target |-> j.target, seq |-> j.seq, fails |-> n]
    BY <1>1 DEF OutcomeFingerprint
  <2> HIDE DEF n
  <2>2. OutcomeFingerprint(j).phase = j.phase /\ OutcomeFingerprint(j).seq = j.seq
    BY <2>1
  <2>3. OutcomeFingerprint(j) # NoOutcome
    BY <1>1, <2>2 DEF NoOutcome, CountedPhases
  <2> QED BY <1>0, <1>1, <2>2, <2>3
<1>2. CASE j.phase \notin CountedPhases
  <2>1. OutcomeFingerprint(j) = NoOutcome
    BY <1>2 DEF OutcomeFingerprint
  <2> QED BY <1>0, <1>2, <2>1 DEF NoOutcome, OwesOutcomeReport
<1> QED BY <1>1, <1>2

\* The lost outcomes of a journal are finitely many.
LEMMA LostFinite ==
  ASSUME NEW j \in Journal, NEW box
  PROVE  IsFiniteSet(LostFrom(box, j)) /\ Cardinality(LostFrom(box, j)) \in Nat
<1>1. j.seq \in Int /\ 1 \in Int
  BY DEF Journal
<1>2. IsFiniteSet(1 .. j.seq)
  BY <1>1, FS_Interval
<1>3. LostFrom(box, j) \subseteq 1 .. j.seq
  BY DEF LostFrom
<1>4. IsFiniteSet(LostFrom(box, j))
  BY <1>2, <1>3, FS_Subset
<1> QED BY <1>4, FS_CardinalityType

\* A journal that has lost no more than another, and counted no less, counts.
LEMMA NoMoreLost ==
  ASSUME NEW j \in Journal, NEW k \in Journal, NEW box, NEW after, CountsLosses(box, j),
         LostFrom(after, k) \subseteq LostFrom(box, j), k.dropped >= j.dropped
  PROVE  CountsLosses(after, k)
<1>1. Cardinality(LostFrom(after, k)) <= Cardinality(LostFrom(box, j))
  BY LostFinite, FS_Subset
<1>2. Cardinality(LostFrom(after, k)) \in Nat /\ Cardinality(LostFrom(box, j)) \in Nat
  BY LostFinite
<1>3. j.dropped \in Nat /\ k.dropped \in Nat
  BY DEF Journal
<1> QED BY <1>1, <1>2, <1>3 DEF CountsLosses

\* One that has lost one more and counted one more counts as well.
LEMMA OneMoreLost ==
  ASSUME NEW j \in Journal, NEW k \in Journal, NEW box, NEW n, CountsLosses(box, j),
         LostFrom(box, k) \subseteq LostFrom(box, j) \cup {n}, k.dropped = j.dropped + 1
  PROVE  CountsLosses(box, k)
<1> DEFINE S == LostFrom(box, j)
<1>1. IsFiniteSet(S) /\ Cardinality(S) \in Nat
  BY LostFinite
<1>2. IsFiniteSet(S \cup {n}) /\ Cardinality(S \cup {n}) <= Cardinality(S) + 1
  <2>1. /\ IsFiniteSet(S \cup {n})
        /\ Cardinality(S \cup {n}) = IF n \in S THEN Cardinality(S) ELSE Cardinality(S) + 1
    BY <1>1, FS_AddElement
  <2> HIDE DEF S
  <2> QED BY <1>1, <2>1
<1>3. Cardinality(LostFrom(box, k)) <= Cardinality(S \cup {n})
  BY <1>2, FS_Subset
<1>4. Cardinality(LostFrom(box, k)) \in Nat /\ Cardinality(S \cup {n}) \in Nat
  BY <1>2, LostFinite, FS_CardinalityType
<1>5. j.dropped \in Nat
  BY DEF Journal
<1> QED BY <1>1, <1>2, <1>3, <1>4, <1>5 DEF CountsLosses

\* A journal that goes on with the books of another: an outcome that was owed
\* is still owed, or waits in the slot.
LEMMA Carried ==
  ASSUME NEW j \in Journal, NEW k \in Journal, NEW box, Accounted(box, j),
         k.seq = j.seq, k.reported = j.reported, k.pending = j.pending,
         k.quarantined = j.quarantined, k.dropped >= j.dropped,
         OwesOutcomeReport(j) => OwesOutcomeReport(k) \/ k.pending.outcome.seq = k.seq,
         k.phase \in CountedPhases => j.phase \in CountedPhases,
         k.pending # NoReport /\ Alone => k.phase \in CountedPhases
  PROVE  Accounted(box, k)
<1>1. Books(k)
  BY DEF Accounted, Books
<1>2. LostFrom(box, k) \subseteq LostFrom(box, j)
  BY DEF LostFrom, Told
<1> QED BY <1>1, <1>2, NoMoreLost DEF Accounted

\* A larger outbox loses no more.
LEMMA OutboxGrows ==
  ASSUME NEW j \in Journal, NEW box, NEW r, Accounted(box, j)
  PROVE  Accounted(box \cup {r}, j)
<1>1. LostFrom(box \cup {r}, j) \subseteq LostFrom(box, j)
  BY DEF LostFrom, Told
<1>2. j.dropped >= j.dropped
  BY DEF Journal
<1> QED BY <1>1, <1>2, NoMoreLost DEF Accounted
-----------------------------------------------------------------------------
(* What the journal operations do to the accounts.                          *)

\* Closing an open attempt with nothing waiting: the new outcome is owed.
LEMMA ClosedAccounts ==
  ASSUME NEW j \in Journal, NEW k \in Journal, NEW box, Accounted(box, j), SameSlot(j, k),
         j.phase \notin CountedPhases, k.phase \in CountedPhases, k.seq = j.seq + 1,
         j.pending = NoReport
  PROVE  Accounted(box, k) /\ OwesOutcomeReport(k)
<1>0. j.seq \in Nat /\ j.reported.seq \in Nat
  BY DEF Journal, Outcome
<1>1. OutcomeFingerprint(k) # NoOutcome /\ OutcomeFingerprint(k).seq = k.seq
  BY Fingerprint
<1>2. k.reported.seq # k.seq
  BY <1>0 DEF SameSlot, Accounted, Books
<1>3. OwesOutcomeReport(k)
  BY <1>1, <1>2 DEF OwesOutcomeReport
<1>4. Books(k)
  BY <1>0 DEF SameSlot, Accounted, Books
<1>5. LostFrom(box, k) \subseteq LostFrom(box, j)
  <2> SUFFICES ASSUME NEW n \in 1 .. k.seq, ~Told(box, k, n) PROVE n \in LostFrom(box, j)
    BY DEF LostFrom
  <2>1. n # k.seq
    BY <1>3 DEF Told
  <2>2. n \in 1 .. j.seq
    BY <1>0, <2>1
  <2>3. ~OwesOutcomeReport(j)
    BY Fingerprint
  <2> QED BY <2>2, <2>3 DEF LostFrom, Told, SameSlot
<1>6. k.dropped >= j.dropped
  BY DEF SameSlot, Journal
<1> QED BY <1>3, <1>4, <1>5, <1>6, NoMoreLost DEF Accounted

\* Closing one that an operator overrides while the slot is taken: the new
\* outcome is dropped, and counted.
LEMMA DroppedAccounts ==
  ASSUME NEW j \in Journal, NEW k \in Journal, NEW box, Accounted(box, j), ~Alone,
         j.phase \notin CountedPhases, k.phase \notin CountedPhases, k.seq = j.seq + 1,
         k.reported = j.reported, k.pending = j.pending, k.quarantined = j.quarantined,
         k.dropped = j.dropped + 1
  PROVE  Accounted(box, k)
<1>0. j.seq \in Nat /\ j.reported.seq \in Nat
  BY DEF Journal, Outcome
<1>1. Books(k)
  BY <1>0 DEF Accounted, Books
<1>2. LostFrom(box, k) \subseteq LostFrom(box, j) \cup {k.seq}
  <2> SUFFICES ASSUME NEW n \in 1 .. k.seq, ~Told(box, k, n), n # k.seq PROVE n \in LostFrom(box, j)
    BY DEF LostFrom
  <2>1. n \in 1 .. j.seq
    BY <1>0
  <2>2. ~OwesOutcomeReport(j)
    BY Fingerprint
  <2> QED BY <2>1, <2>2 DEF LostFrom, Told
<1> QED BY <1>1, <1>2, OneMoreLost DEF Accounted

\* The slot, when it is free, takes the report of the outcome the journal is in.
LEMMA SlottedAccounts ==
  ASSUME NEW j \in Journal, NEW id \in Nat, NEW box, Accounted(box, j), OwesOutcomeReport(j),
         j.pending = NoReport
  PROVE  LET k == MarkReportPending(j, ReportOutcome(j, id))
         IN  Accounted(box, k) /\ k.pending.outcome.seq = k.seq /\ k.pending # NoReport
<1> DEFINE r == ReportOutcome(j, id)
           k == MarkReportPending(j, r)
<1>1. j.phase \in CountedPhases /\ OutcomeFingerprint(j) # NoOutcome /\ OutcomeFingerprint(j).seq = j.seq
  BY Fingerprint
<1>2. r.outcome = OutcomeFingerprint(j) /\ r \in Report
  BY FingerprintType DEF ReportOutcome, Report
<1>3. r # NoReport /\ r.outcome.seq = j.seq
  BY <1>1, <1>2 DEF NoReport
<1>4. k \in Journal
  BY <1>2, SlotType
<1> HIDE DEF r
<1>5. /\ k.pending = r /\ k.seq = j.seq /\ k.reported = j.reported /\ k.phase = j.phase
      /\ k.quarantined = j.quarantined /\ k.dropped = j.dropped
  BY <1>2 DEF MarkReportPending, Journal
<1> HIDE DEF k
<1>6. Books(k)
  BY <1>1, <1>3, <1>5 DEF Accounted, Books
<1>7. LostFrom(box, k) \subseteq LostFrom(box, j)
  <2> SUFFICES ASSUME NEW n \in 1 .. k.seq, ~Told(box, k, n) PROVE n \in LostFrom(box, j)
    BY DEF LostFrom
  <2>1. n # j.seq
    BY <1>3, <1>5 DEF Told
  <2>2. n # NoReport.outcome.seq
    BY <1>5 DEF NoReport, NoOutcome, Journal
  <2> QED BY <1>5, <2>1, <2>2 DEF LostFrom, Told
<1>8. k.dropped >= j.dropped
  BY <1>5 DEF Journal
<1>9. Accounted(box, k)
  BY <1>4, <1>6, <1>7, <1>8, NoMoreLost DEF Accounted
<1> QED BY <1>3, <1>5, <1>9 DEF k, r

\* OweReport: the slot takes what is owed, or it is what waits already.
LEMMA OwedAccounts ==
  ASSUME TypeOK, NEW j \in Journal, NEW box, Accounted(box, j), OwesOutcomeReport(j)
  PROVE  /\ Accounted(box, OweReport(j)) /\ OweReport(j).pending # NoReport
         /\ OweReport(j).pending.outcome.seq = OweReport(j).seq
         /\ OweReport(j).phase = j.phase
<1> DEFINE k == OweReport(j)
<1>0. k \in Journal /\ nextId \in Nat /\ j.phase \in CountedPhases
  BY OweType, Fingerprint DEF TypeOK
<1>1. CASE j.pending = NoReport
  <2>1. k = MarkReportPending(j, ReportOutcome(j, nextId))
    BY <1>1 DEF OweReport, MarkReportPendingIfFree
  <2>2. MarkReportPending(j, ReportOutcome(j, nextId)).phase = j.phase
    BY DEF MarkReportPending, Journal
  <2> QED BY <1>0, <1>1, <2>1, <2>2, SlottedAccounts
<1>2. CASE j.pending # NoReport
  <2>1. k = [j EXCEPT !.dropped = @ + 1]
    BY <1>2 DEF OweReport, MarkReportPendingIfFree
  <2> HIDE DEF k
  <2>2. /\ k.pending = j.pending /\ k.seq = j.seq /\ k.reported = j.reported /\ k.phase = j.phase
        /\ k.quarantined = j.quarantined /\ k.dropped >= j.dropped
    BY <2>1 DEF Journal
  <2>3. j.pending.outcome.seq = j.seq
    BY <1>0, <1>2 DEF Accounted, Books
  <2>4. Accounted(box, k)
    BY <1>0, <2>2, <2>3, Carried
  <2> QED BY <1>2, <2>2, <2>3, <2>4 DEF k
<1> QED BY <1>1, <1>2

\* A flush moves what waits to the outbox, or to quarantine; whichever outcome
\* it marks as reported is the one that waited.
LEMMA FlushedAccounts ==
  ASSUME NEW j \in Journal, NEW box, Accounted(box, j), j.pending # NoReport
  PROVE  /\ Accounted(box \cup {j.pending}, MarkOutcomeReported(j))
         /\ Accounted(box, RecordReportQueueFailure(j))
<1>0. j.seq \in Nat /\ NoReport.outcome.seq = 0
  BY DEF Journal, NoReport, NoOutcome
<1>p. j.phase \in CountedPhases => j.pending.outcome.seq = j.seq
  BY DEF Accounted, Books
<1>f. OutcomeFingerprint(j).seq <= j.seq
  BY Fingerprint
<1>o. ASSUME NEW n, OwesOutcomeReport(j), n = j.seq PROVE j.pending.outcome.seq = n
  BY <1>o, <1>p, Fingerprint
<1>1. Accounted(box \cup {j.pending}, MarkOutcomeReported(j))
  <2> DEFINE k == MarkOutcomeReported(j)
  <2>1. k \in Journal
    BY SlotType DEF Journal
  <2>2. /\ k.pending = NoReport /\ k.seq = j.seq /\ k.reported = OutcomeFingerprint(j)
        /\ k.phase = j.phase /\ k.quarantined = j.quarantined /\ k.dropped = j.dropped
    BY DEF MarkOutcomeReported, Journal
  <2> HIDE DEF k
  <2>3. Books(k)
    BY <1>f, <2>2 DEF Books
  <2>4. LostFrom(box \cup {j.pending}, k) \subseteq LostFrom(box, j)
    BY <1>o, <2>2 DEF LostFrom, Told
  <2>5. k.dropped >= j.dropped
    BY <2>2 DEF Journal
  <2> QED BY <2>1, <2>3, <2>4, <2>5, NoMoreLost DEF Accounted, k
<1>2. Accounted(box, RecordReportQueueFailure(j))
  <2>1. CASE j.queueFails + 1 < ReportMaxAttempts
    <3> DEFINE k == RecordReportQueueFailure(j)
    <3>1. k \in Journal /\ k = [j EXCEPT !.queueFails = @ + 1]
      BY <2>1, SlotType DEF RecordReportQueueFailure, Journal
    <3> HIDE DEF k
    <3>2. /\ SameSlot(j, k) /\ k.phase = j.phase /\ k.seq = j.seq /\ k.target = j.target
          /\ k.failures = j.failures
      BY <3>1 DEF Journal, SameSlot
    <3>3. OwesOutcomeReport(j) => OwesOutcomeReport(k)
      BY <3>2 DEF OwesOutcomeReport, OutcomeFingerprint, SameSlot
    <3>4. k.pending # NoReport /\ Alone => k.phase \in CountedPhases
      BY <3>2 DEF Accounted, Books, SameSlot
    <3>5. k.dropped >= j.dropped
      BY <3>2 DEF SameSlot, Journal
    <3> QED BY <3>1, <3>2, <3>3, <3>4, <3>5, Carried DEF SameSlot, k
  <2>2. CASE ~(j.queueFails + 1 < ReportMaxAttempts)
    <3> DEFINE k == RecordReportQueueFailure(j)
    <3>1. k \in Journal
      BY SlotType DEF Journal
    <3>2. /\ k.pending = NoReport /\ k.seq = j.seq /\ k.reported = OutcomeFingerprint(j)
          /\ k.phase = j.phase /\ k.quarantined = j.quarantined \cup {j.pending}
          /\ k.dropped = j.dropped
      BY <2>2 DEF RecordReportQueueFailure, Journal
    <3> HIDE DEF k
    <3>3. Books(k)
      BY <1>f, <3>2 DEF Books
    <3>4. LostFrom(box, k) \subseteq LostFrom(box, j)
      BY <1>o, <3>2 DEF LostFrom, Told
    <3>5. k.dropped >= j.dropped
      BY <3>2 DEF Journal
    <3> QED BY <3>1, <3>3, <3>4, <3>5, NoMoreLost DEF Accounted, k
  <2> QED BY <2>1, <2>2
<1> QED BY <1>1, <1>2
\* Closing an attempt, as landed or as failed, touches the slot in no way.
LEMMA ClosedFields ==
  ASSUME NEW j \in Journal, NEW c \in Nat, j.phase \notin CountedPhases,
         NEW k \in {Enter(j, "failed"), RecordFailure(j, c), RecordSuccess(j)}
  PROVE  /\ k \in Journal /\ SameSlot(j, k) /\ k.seq = j.seq + 1
         /\ k.phase \in CountedPhases
<1>e. ASSUME NEW i \in Journal, SameSlot(j, i), i.seq = j.seq, i.phase = j.phase, NEW ph \in CountedPhases
      PROVE  /\ Enter(i, ph) \in Journal /\ SameSlot(j, Enter(i, ph)) /\ Enter(i, ph).seq = j.seq + 1
             /\ Enter(i, ph).phase \in CountedPhases
  <2>1. Enter(i, ph) \in Journal
    BY EnterType DEF CountedPhases, Phases
  <2>2. SameSlot(i, Enter(i, ph)) /\ Enter(i, ph).phase = ph
    BY DEF Enter, SameSlot, Journal
  <2>3. Enter(i, ph).seq = IF i.phase # ph /\ ph \in CountedPhases THEN i.seq + 1 ELSE i.seq
    BY DEF Enter, Journal
  <2> QED BY <1>e, <2>1, <2>2, <2>3 DEF SameSlot
<1>f. {"failed", "completed", "rolled_back"} = CountedPhases
  BY DEF CountedPhases
<1>t. ASSUME NEW n \in Nat, j.target \in Versions
      PROVE  LET i == [j EXCEPT !.failures[j.target] = n]
             IN  i \in Journal /\ SameSlot(j, i) /\ i.seq = j.seq /\ i.phase = j.phase
  <2> DEFINE i == [j EXCEPT !.failures[j.target] = n]
  <2>1. i \in Journal
    BY <1>t DEF Journal
  <2>2. SameSlot(j, i) /\ i.seq = j.seq /\ i.phase = j.phase
    BY DEF Journal, SameSlot
  <2> QED BY <2>1, <2>2
<1>v. j.target \in Versions \/ j.target = NoVersion
  BY DEF Journal
<1>s. SameSlot(j, j) /\ NoVersion \notin Versions
  BY DEF SameSlot, NoVersion
<1>1. CASE k = Enter(j, "failed")
  BY <1>1, <1>e, <1>f, <1>s
<1>2. CASE k = RecordSuccess(j)
  <2> DEFINE i == IF j.target = NoVersion THEN j ELSE [j EXCEPT !.failures[j.target] = 0]
  <2>1. i \in Journal /\ SameSlot(j, i) /\ i.seq = j.seq /\ i.phase = j.phase
    BY <1>s, <1>t, <1>v
  <2>2. k \in {Enter(i, "rolled_back"), Enter(i, "completed")}
    BY <1>2 DEF RecordSuccess
  <2> HIDE DEF i
  <2> QED BY <1>e, <1>f, <2>1, <2>2
<1>3. CASE k = RecordFailure(j, c)
  <2>1. CASE j.target = NoVersion
    <3>1. k = Enter(j, "failed")
      BY <1>3, <2>1 DEF RecordFailure
    <3> QED BY <1>1, <3>1
  <2>2. CASE j.target \in Versions
    <3> DEFINE i == [j EXCEPT !.failures[j.target] = @ + 1]
    <3>1. j.failures[j.target] + 1 \in Nat
      <4>1. j.failures \in [Versions -> Nat]
        BY DEF Journal
      <4>2. j.failures[j.target] \in Nat
        BY <2>2, <4>1
      <4> QED BY <4>2
    <3>2. i \in Journal /\ SameSlot(j, i) /\ i.seq = j.seq /\ i.phase = j.phase
      BY <1>t, <2>2, <3>1
    <3>3. k \in {Enter(i, "failed"), Refuse(Enter(i, "failed"), j.target)}
      BY <1>3, <1>s, <2>2 DEF RecordFailure
    <3> HIDE DEF i
    <3> DEFINE e == Enter(i, "failed")
    <3>4. e \in Journal /\ SameSlot(j, e) /\ e.seq = j.seq + 1 /\ e.phase \in CountedPhases
      BY <1>e, <1>f, <3>2
    <3> HIDE DEF e
    <3>5. Refuse(e, j.target) \in Journal
      BY <2>2, <3>4, RefuseType
    <3>6. SameSlot(e, Refuse(e, j.target)) /\ Refuse(e, j.target).seq = e.seq
          /\ Refuse(e, j.target).phase = e.phase
      BY <3>4 DEF Refuse, SameSlot, Journal
    <3> QED BY <3>3, <3>4, <3>5, <3>6 DEF SameSlot, e
  <2> QED BY <1>v, <2>1, <2>2
<1> QED BY <1>1, <1>2, <1>3

\* A new phase of an attempt that is not over, like any change to the attempt
\* alone, leaves the accounts as they are.
LEMMA OpenAccounts ==
  ASSUME NEW j \in Journal, NEW k \in Journal, NEW box, Accounted(box, j), SameSlot(j, k),
         k.seq = j.seq, k.phase \notin CountedPhases,
         ~OwesOutcomeReport(j) \/ k.pending.outcome.seq = k.seq,
         Alone => j.pending = NoReport
  PROVE  Accounted(box, k)
<1>1. k.dropped >= j.dropped
  BY DEF SameSlot, Journal
<1> QED BY <1>1, Carried DEF SameSlot

\* Time changes nothing in the accounts, and neither does a save by a late pass.
LEMMA AgedAccounts ==
  ASSUME NEW j \in Journal, NEW box, Accounted(box, j)
  PROVE  Accounted(box, Aged(j)) /\ \A p \in Procs : Accounted(box, Written(p, j))
<1> DEFINE k == Aged(j)
<1>1. k \in Journal
  BY AgedType
<1>2. /\ SameSlot(j, k) /\ k.phase = j.phase /\ k.seq = j.seq /\ k.target = j.target
      /\ k.failures = j.failures
  BY DEF Aged, SameSlot, Journal
<1> HIDE DEF k
<1>3. OwesOutcomeReport(j) => OwesOutcomeReport(k)
  BY <1>2 DEF OwesOutcomeReport, OutcomeFingerprint, SameSlot
<1>4. k.pending # NoReport /\ Alone => k.phase \in CountedPhases
  BY <1>2 DEF Accounted, Books, SameSlot
<1>5. k.dropped >= j.dropped
  BY <1>2 DEF SameSlot, Journal
<1>6. Accounted(box, k)
  BY <1>1, <1>2, <1>3, <1>4, <1>5, Carried DEF SameSlot
<1> QED BY <1>6 DEF Written, k

\* Enter, for the phases of the hand-over.
LEMMA EnterAccounts ==
  ASSUME NEW j \in Journal, NEW box, Accounted(box, j), j.phase \notin CountedPhases,
         Alone => j.pending = NoReport,
         NEW ph \in {"snapshotted", "disarmed", "executing", "rolling_back"}
  PROVE  /\ Accounted(box, Enter(j, ph)) /\ Enter(j, ph).phase \notin CountedPhases
         /\ Enter(j, ph).pending = j.pending
<1> DEFINE k == Enter(j, ph)
<1>1. ph \in Phases /\ ph \notin CountedPhases
  BY DEF Phases, CountedPhases
<1>2. k \in Journal
  BY <1>1, EnterType
<1>3. SameSlot(j, k) /\ k.seq = j.seq /\ k.phase = ph
  BY <1>1 DEF Enter, SameSlot, Journal
<1>4. ~OwesOutcomeReport(j)
  BY Fingerprint
<1> HIDE DEF k
<1>5. Accounted(box, k)
  BY <1>1, <1>2, <1>3, <1>4, OpenAccounts
<1> QED BY <1>1, <1>3, <1>5 DEF SameSlot, k
\* Rollback accounts for what it overwrites: what is owed, or what an attempt
\* found open amounts to, is in the slot or counted before the journal is begun
\* anew.
LEMMA StackedAccounts ==
  ASSUME TypeOK, NEW p \in Procs, Accounted(outbox, mem[p]), ~Alone,
         NEW t \in Versions \cup {NoVersion}, NEW l \in Versions \cup {NoVersion},
         NEW w \in {BeginRollback(StackOutcome(mem[p]), t, l),
                    Refuse(BeginRollback(StackOutcome(mem[p]), t, l), l)}
  PROVE  Accounted(outbox, w) /\ w.phase \notin CountedPhases
<1> DEFINE j == mem[p]
           s == StackOutcome(j)
           b == BeginRollback(s, t, l)
<1>j. j \in Journal /\ s \in Journal
  BY StackedType DEF TypeOK
<1>b. b \in Journal /\ SameSlot(s, b) /\ b.seq = s.seq /\ b.phase = "verified"
  <2> HIDE DEF s
  <2>1. b \in Journal
    BY <1>j, BeginType
  <2>2. SameSlot(s, b) /\ b.seq = s.seq /\ b.phase = "verified"
    BY <1>j DEF BeginRollback, Begin, SameSlot, Journal
  <2> QED BY <2>1, <2>2
<1>w. w \in Journal /\ SameSlot(s, w) /\ w.seq = s.seq /\ w.phase = "verified"
  <2>1. w \in {b, Refuse(b, l)}
    OBVIOUS
  <2> HIDE DEF b
  <2>2. Refuse(b, l) \in Journal
    BY <1>b, RefuseType
  <2>3. SameSlot(b, Refuse(b, l)) /\ Refuse(b, l).seq = b.seq /\ Refuse(b, l).phase = b.phase
    BY <1>b DEF Refuse, SameSlot, Journal
  <2> QED BY <1>b, <2>1, <2>2, <2>3 DEF SameSlot
<1>v. w.phase \notin CountedPhases
  BY <1>w DEF CountedPhases
<1> HIDE DEF b
<1>1. CASE OwesOutcomeReport(j)
  <2>1. s = OweReport(j)
    BY <1>1 DEF StackOutcome
  <2>2. Accounted(outbox, s) /\ s.pending.outcome.seq = s.seq
    BY <1>1, <1>j, <2>1, OwedAccounts
  <2> HIDE DEF s
  <2>3. w.pending.outcome.seq = w.seq
    BY <1>w, <2>2 DEF SameSlot
  <2> QED BY <1>j, <1>w, <1>v, <2>2, <2>3, OpenAccounts
<1>2. CASE ~OwesOutcomeReport(j) /\ Interrupted(j)
  <2> DEFINE k == IF IsRollback(j) THEN Enter(j, "failed") ELSE RecordFailure(j, DefaultMaxAttempts)
  <2>1. j.phase \notin CountedPhases
    BY <1>2 DEF Interrupted, InterruptedPhases, CountedPhases
  <2>2. k \in Journal /\ SameSlot(j, k) /\ k.seq = j.seq + 1 /\ k.phase \in CountedPhases
    <3>1. k \in {Enter(j, "failed"), RecordFailure(j, DefaultMaxAttempts), RecordSuccess(j)}
      OBVIOUS
    <3>2. DefaultMaxAttempts \in Nat
      OBVIOUS
    <3> HIDE DEF k
    <3> QED BY <1>j, <2>1, <3>1, <3>2, ClosedFields
  <2>3. s = OweReport(k)
    BY <1>2 DEF StackOutcome
  <2> HIDE DEF k, s
  <2>4. CASE j.pending = NoReport
    <3>1. Accounted(outbox, k) /\ OwesOutcomeReport(k)
      BY <1>j, <2>1, <2>2, <2>4, ClosedAccounts
    <3>2. Accounted(outbox, s) /\ s.pending.outcome.seq = s.seq
      BY <2>2, <2>3, <3>1, OwedAccounts
    <3>3. w.pending.outcome.seq = w.seq
      BY <1>w, <3>2 DEF SameSlot
    <3> QED BY <1>j, <1>w, <1>v, <3>2, <3>3, OpenAccounts
  <2>5. CASE j.pending # NoReport
    <3>1. s = [k EXCEPT !.dropped = @ + 1]
      BY <2>2, <2>3, <2>5 DEF OweReport, MarkReportPendingIfFree, SameSlot
    <3>2. /\ s.seq = k.seq /\ s.reported = k.reported /\ s.pending = k.pending
          /\ s.quarantined = k.quarantined /\ s.dropped = k.dropped + 1
      BY <2>2, <3>1 DEF Journal
    <3>3. /\ w.seq = j.seq + 1 /\ w.reported = j.reported /\ w.pending = j.pending
          /\ w.quarantined = j.quarantined /\ w.dropped = j.dropped + 1
      BY <1>w, <2>2, <3>2 DEF SameSlot
    <3> QED BY <1>j, <1>w, <1>v, <2>1, <3>3, DroppedAccounts
  <2> QED BY <2>4, <2>5
<1>3. CASE ~OwesOutcomeReport(j) /\ ~Interrupted(j)
  <2>1. s = j
    BY <1>3 DEF StackOutcome
  <2> QED BY <1>3, <1>j, <1>w, <1>v, <2>1, OpenAccounts
<1> QED BY <1>1, <1>2, <1>3, <1>v

-----------------------------------------------------------------------------
(* Losses are counted.                                                      *)

\* The devices this holds for: one where nobody rolls back, or one where the
\* outbox takes what it is given and no hand-over fails.
Accountable == Alone \/ FaultKinds \cap {"outbox", "disarm", "execute"} = {}

\* Labels from the start of an attempt to the end of its hand-over.
Handing == {"gate", "disarm", "disarming", "exec", "launch", "restore"}

\* What a pass at label l has done about the outcomes its journal j holds.
Settling(l, j) ==
  /\ l = "rollback" => ~Alone
  /\ l \in {"drain_save", "reconcile"} /\ Interrupted(j) => j.pending = NoReport
  /\ l \in {"queue", "queue_save", "fetch"} => ~OwesOutcomeReport(j) \/ j.pending # NoReport
  /\ l \in {"stage", "run"} => ~OwesOutcomeReport(j) /\ j.pending = NoReport
  /\ l \in Handing => j.phase \notin CountedPhases /\ (Alone => j.pending = NoReport)
  /\ l = "restore" => "execute" \in FaultKinds

LossInv ==
  /\ Accounted(outbox, disk)
  /\ \A p \in Procs : Accounted(outbox, mem[p]) /\ Settling(pc[p], mem[p])

\* Most labels say nothing.
LEMMA SettlingNothing ==
  ASSUME NEW j,
         NEW l \in {"idle", "drain", "settle", "settle_save", "owed", "final", "final_save",
                    "report", "release", "record", "rearm"}
  PROVE  Settling(l, j)
BY DEF Settling, Handing

\* The outbox only grows, and by what waits in the pass that flushes.
LEMMA PassOutbox ==
  ASSUME NEW p \in Procs, PassStep(p)
  PROVE  outbox' = outbox \/ (FlushAppended(p) /\ outbox' = outbox \cup {mem[p].pending})
<1> USE DEF machine
<1>1. CASE TickStep(p)
  BY <1>1
  DEF TickStep, FlushNothing, FlushAppended, FlushRefused, FlushSave, Reconcile, Owe, Owed,
      ReportRun, Fetch, Stage
<1>2. CASE RunStep(p) \/ RollbackStep(p) \/ Release(p)
  BY <1>2
  DEF RunStep, RunOutstanding, RunRefused, RunBegin, RunGate, RollbackStep, RollbackNothing,
      RollbackBegin, Release
<1>3. CASE HandOverStep(p)
  BY <1>3
  DEF HandOverStep, RecordDisarm, Disarm, DisarmFails, RecordExecute, Launch, LaunchFails,
      Restore, DeferredRearm, RecordFailedAttempt
<1> QED BY <1>1, <1>2, <1>3 DEF PassStep
\* What a step of a pass leaves in memory is accounted for, and settled as far as
\* its next label says.
LEMMA PassLoss ==
  ASSUME Accountable, TypeOK, LossInv, NEW p \in Procs, PassStep(p), ~Release(p)
  PROVE  Accounted(outbox', mem'[p]) /\ Settling(pc'[p], mem'[p])
<1> DEFINE j == mem[p]
<1>j. j \in Journal /\ Accounted(outbox, j) /\ Settling(pc[p], j)
  BY DEF TypeOK, LossInv
<1>p. pc \in [Procs -> PCs] /\ mem \in [Procs -> Journal] /\ nextId \in Nat
  BY DEF TypeOK
<1>r. AfterRun(p) \in {"report", "release"}
  BY DEF AfterRun
<1>v. ASSUME NEW k, NEW ok, NEW err, Save(p, k, ok, err) PROVE mem'[p] = k
  BY <1>v DEF Save, TypeOK
<1>x. ~(InterruptedPhases \cap CountedPhases # {})
  BY DEF InterruptedPhases, CountedPhases
<1>y. ASSUME Interrupted(j) PROVE j.phase \notin CountedPhases /\ ~OwesOutcomeReport(j)
  BY <1>j, <1>x, <1>y, Fingerprint DEF Interrupted
<1> HIDE DEF j
<1>1. CASE FlushNothing(p)
  <2>1. /\ pc[p] \in FlushPoints /\ j.pending = NoReport /\ mem'[p] = j /\ outbox' = outbox
        /\ pc'[p] = After[pc[p]]
    BY <1>1, <1>p, SkipMemory DEF FlushNothing, j
  <2>2. pc'[p] \in {"reconcile", "owed", "fetch", "release"} /\ (pc'[p] = "fetch" => pc[p] = "queue")
    BY <2>1 DEF FlushPoints, After
  <2>3. pc[p] = "queue" => ~OwesOutcomeReport(j)
    BY <1>j, <2>1 DEF Settling
  <2>4. Settling(pc'[p], j)
    BY <2>1, <2>2, <2>3 DEF Settling, Handing
  <2> QED BY <1>j, <2>1, <2>4
<1>2. CASE FlushAppended(p)
  <2>1. /\ pc[p] \in FlushPoints /\ j.pending # NoReport /\ mem'[p] = MarkOutcomeReported(j)
        /\ outbox' = outbox \cup {j.pending} /\ pc'[p] = Saving[pc[p]]
    BY <1>2, <1>p DEF FlushAppended, j
  <2>2. pc'[p] \in {"drain_save", "settle_save", "queue_save", "final_save"}
    BY <2>1 DEF FlushPoints, Saving
  <2>3. /\ mem'[p].pending = NoReport /\ mem'[p].reported = OutcomeFingerprint(j)
        /\ mem'[p].phase = j.phase /\ mem'[p].target = j.target /\ mem'[p].seq = j.seq
        /\ mem'[p].failures = j.failures
    BY <1>j, <2>1 DEF MarkOutcomeReported, Journal
  <2>4. ~OwesOutcomeReport(mem'[p])
    BY <2>3 DEF OwesOutcomeReport, OutcomeFingerprint
  <2>5. Settling(pc'[p], mem'[p])
    BY <2>2, <2>3, <2>4 DEF Settling, Handing
  <2> QED BY <1>j, <2>1, <2>5, FlushedAccounts
<1>3. CASE FlushRefused(p)
  <2>1. /\ pc[p] \in FlushPoints /\ j.pending # NoReport /\ mem'[p] = RecordReportQueueFailure(j)
        /\ outbox' = outbox /\ pc'[p] = Saving[pc[p]] /\ "outbox" \in FaultKinds
    BY <1>3, <1>p DEF FlushRefused, Fault, j
  <2>2. pc'[p] \in {"drain_save", "settle_save", "queue_save", "final_save"}
    BY <2>1 DEF FlushPoints, Saving
  <2>3. j.phase \in CountedPhases
    BY <1>j, <2>1 DEF Accountable, Accounted, Books
  <2>4. mem'[p].phase = j.phase
    BY <1>j, <2>1 DEF RecordReportQueueFailure, Journal
  <2>5. ~OwesOutcomeReport(mem'[p]) \/ mem'[p].pending # NoReport
    <3>1. CASE j.queueFails + 1 < ReportMaxAttempts
      <4>1. mem'[p] = [j EXCEPT !.queueFails = @ + 1]
        BY <2>1, <3>1 DEF RecordReportQueueFailure
      <4> QED BY <1>j, <2>1, <4>1 DEF Journal
    <3>2. CASE ~(j.queueFails + 1 < ReportMaxAttempts)
      <4>1. /\ mem'[p].reported = OutcomeFingerprint(j) /\ mem'[p].target = j.target
            /\ mem'[p].seq = j.seq /\ mem'[p].failures = j.failures
        BY <1>j, <2>1, <3>2 DEF RecordReportQueueFailure, Journal
      <4> QED BY <2>4, <4>1 DEF OwesOutcomeReport, OutcomeFingerprint
    <3> QED BY <3>1, <3>2
  <2>6. ~Interrupted(mem'[p])
    BY <1>x, <2>3, <2>4 DEF Interrupted
  <2>7. Settling(pc'[p], mem'[p])
    BY <2>2, <2>5, <2>6 DEF Settling, Handing
  <2> QED BY <1>j, <2>1, <2>7, FlushedAccounts
<1>4. CASE FlushSave(p)
  <2>1. PICK f \in FlushPoints : pc[p] = Saving[f] /\ Save(p, mem[p], After[f], After[f])
    BY <1>4 DEF FlushSave
  <2>2. mem'[p] = j /\ pc'[p] = After[f] /\ outbox' = outbox
    BY <1>4, <1>p, <2>1, SaveMemory DEF FlushSave, j
  <2>3. /\ pc'[p] \in {"reconcile", "owed", "fetch", "release"}
        /\ pc'[p] = "fetch" => pc[p] = "queue_save"
        /\ pc'[p] = "reconcile" => pc[p] = "drain_save"
    BY <2>1, <2>2 DEF FlushPoints, After, Saving
  <2>4. Settling(pc'[p], j)
    BY <1>j, <2>3 DEF Settling, Handing
  <2> QED BY <1>j, <2>2, <2>4
<1>5. CASE Reconcile(p)
  <2> DEFINE done == RecordSuccess(j)
             told == MarkReportPending(done, ReportOutcome(done, nextId))
  <2>1. /\ outbox' = outbox /\ pc[p] = "reconcile"
        /\ \/ Interrupted(j) /\ mem'[p] = told /\ pc'[p] \in {"settle", "release"}
           \/ mem'[p] = j /\ pc'[p] = "owed"
    BY <1>5, <1>p, SaveMemory, SkipMemory DEF Reconcile, Landed, j
  <2>2. Settling(pc'[p], mem'[p])
    BY <2>1, SettlingNothing
  <2>3. ASSUME Interrupted(j) PROVE Accounted(outbox, told)
    <3>1. j.pending = NoReport /\ j.phase \notin CountedPhases
      BY <1>j, <1>y, <2>1, <2>3 DEF Settling
    <3>2. 0 \in Nat /\ done \in {Enter(j, "failed"), RecordFailure(j, 0), RecordSuccess(j)}
      OBVIOUS
    <3> HIDE DEF done
    <3>3. done \in Journal /\ SameSlot(j, done) /\ done.seq = j.seq + 1 /\ done.phase \in CountedPhases
      BY <1>j, <3>1, <3>2, ClosedFields
    <3>4. Accounted(outbox, done) /\ OwesOutcomeReport(done)
      BY <1>j, <3>1, <3>3, ClosedAccounts
    <3>5. done.pending = NoReport
      BY <3>1, <3>3 DEF SameSlot
    <3> QED BY <1>p, <3>3, <3>4, <3>5, SlottedAccounts
  <2> HIDE DEF told
  <2> QED BY <1>j, <2>1, <2>2, <2>3
<1>6. CASE Owed(p) \/ ReportRun(p)
  <2>1. /\ outbox' = outbox
        /\ \/ OwesOutcomeReport(j) /\ mem'[p] = OweReport(j)
           \/ ~OwesOutcomeReport(j) /\ mem'[p] = j
        /\ pc'[p] \in {"queue", "final"}
    BY <1>6, <1>p, SaveMemory, SkipMemory DEF Owed, ReportRun, Owe, j
  <2>2. /\ Accounted(outbox, mem'[p])
        /\ ~OwesOutcomeReport(mem'[p]) \/ mem'[p].pending # NoReport
    BY <1>j, <2>1, OwedAccounts
  <2>3. Settling(pc'[p], mem'[p])
    BY <2>1, <2>2 DEF Settling, Handing
  <2> QED BY <2>1, <2>2, <2>3
<1>7. CASE Fetch(p)
  <2>1. /\ outbox' = outbox /\ pc[p] = "fetch" /\ mem'[p] = j
        /\ pc'[p] = "release" \/ (pc'[p] = "stage" /\ j.pending = NoReport)
    <3>1. \/ Skip(p, "release")
          \/ /\ mem[p].pending = NoReport
             /\ \E next \in {"release", "stage"} : Skip(p, next) \/ Save(p, mem[p], next, next)
      BY <1>7, Zenon DEF Fetch
    <3>2. outbox' = outbox /\ pc[p] = "fetch"
      BY <1>7 DEF Fetch
    <3> QED BY <1>p, <3>1, <3>2, SaveMemory, SkipMemory DEF j
  <2>2. Settling(pc'[p], j)
    BY <1>j, <2>1 DEF Settling, Handing
  <2> QED BY <1>j, <2>1, <2>2
<1>8. CASE Stage(p)
  <2>1. outbox' = outbox /\ pc[p] = "stage" /\ mem'[p] = j /\ pc'[p] \in {"run", "release"}
    BY <1>8, <1>p, SkipMemory DEF Stage, j
  <2>2. Settling(pc'[p], j)
    BY <1>j, <2>1 DEF Settling, Handing
  <2> QED BY <1>j, <2>1, <2>2
<1>9. CASE RunOutstanding(p) \/ RunRefused(p)
  <2>1. /\ outbox' = outbox /\ pc[p] = "run" /\ pc'[p] = "report"
        /\ mem'[p] = j \/ (Interrupted(j) /\ mem'[p] = Enter(j, "failed"))
    BY <1>9, <1>p, SaveMemory, SkipMemory DEF RunOutstanding, RunRefused, j
  <2>2. ASSUME Interrupted(j) PROVE Accounted(outbox, Enter(j, "failed"))
    <3>1. j.pending = NoReport /\ j.phase \notin CountedPhases
      BY <1>j, <1>y, <2>1, <2>2 DEF Settling
    <3>2. 0 \in Nat
      OBVIOUS
    <3> QED BY <1>j, <3>1, <3>2, ClosedFields, ClosedAccounts
  <2> QED BY <1>j, <2>1, <2>2, SettlingNothing
<1>10. CASE RunBegin(p)
  <2> DEFINE b == Begin(j, arg[p].offer, RunningVersion)
             f == [j EXCEPT !.from = RunningVersion]
  <2>1. outbox' = outbox /\ pc[p] = "run" /\ pc'[p] \in {"gate", "report"} /\ ~Interrupted(j)
    BY <1>10, <1>p, SaveMemory, SkipMemory DEF RunBegin, MayAttempt, j
  <2>2. mem'[p] = b \/ (~Terminal(j) /\ mem'[p] \in {f, j})
    BY <1>10, <1>p, SaveMemory, SkipMemory DEF RunBegin, j
  <2>3. ~OwesOutcomeReport(j) /\ j.pending = NoReport
    BY <1>j, <2>1 DEF Settling
  <2>a. arg[p].offer \in Versions \cup {NoVersion} /\ RunningVersion \in Versions \cup {NoVersion}
    BY DEF TypeOK, Args, RunningVersion
  <2>4. b \in Journal /\ f \in Journal
    BY <1>j, <2>a, BeginType DEF Journal
  <2>5. SameSlot(j, b) /\ b.seq = j.seq /\ b.phase = "verified"
    BY <1>j DEF Begin, SameSlot, Journal
  <2>6. SameSlot(j, f) /\ f.seq = j.seq /\ f.phase = j.phase
    BY <1>j DEF SameSlot, Journal
  <2> HIDE DEF b, f
  <2>7. /\ mem'[p] \in Journal /\ SameSlot(j, mem'[p]) /\ mem'[p].seq = j.seq
        /\ mem'[p].phase \notin CountedPhases
    BY <1>j, <2>2, <2>4, <2>5, <2>6 DEF SameSlot, Terminal, CountedPhases
  <2>8. Accounted(outbox, mem'[p])
    BY <1>j, <2>3, <2>7, OpenAccounts
  <2>9. Settling(pc'[p], mem'[p])
    BY <2>1, <2>3, <2>7 DEF Settling, Handing, SameSlot
  <2> QED BY <2>1, <2>8, <2>9
<1>11. CASE RunGate(p) \/ RecordDisarm(p) \/ RecordExecute(p)
  <2>1. /\ outbox' = outbox /\ pc[p] \in {"gate", "disarm", "exec"}
        /\ pc'[p] \in {"report", "release", "disarm", "disarming", "exec", "launch", "rearm"}
        /\ mem'[p] = j \/ \E ph \in {"snapshotted", "disarmed", "executing", "rolling_back"} :
                            mem'[p] = Enter(j, ph)
    <3>1. CASE RunGate(p)
      BY <3>1, <1>p, SaveMemory, SkipMemory DEF RunGate, j
    <3>2. CASE RecordDisarm(p)
      BY <3>2, <1>p, <1>r, SaveMemory DEF RecordDisarm, j
    <3>3. CASE RecordExecute(p)
      BY <3>3, <1>p, <1>r, SaveMemory DEF RecordExecute, j
    <3> QED BY <1>11, <3>1, <3>2, <3>3
  <2>2. j.phase \notin CountedPhases /\ (Alone => j.pending = NoReport)
    BY <1>j, <2>1 DEF Settling, Handing
  <2>3. /\ Accounted(outbox, mem'[p]) /\ mem'[p].phase \notin CountedPhases
        /\ mem'[p].pending = j.pending
    BY <1>j, <2>1, <2>2, EnterAccounts
  <2>4. Settling(pc'[p], mem'[p])
    BY <2>1, <2>2, <2>3 DEF Settling, Handing
  <2> QED BY <2>1, <2>3, <2>4
<1>12. CASE Disarm(p) \/ Launch(p) \/ LaunchFails(p) \/ DeferredRearm(p)
  <2>1. /\ outbox' = outbox /\ mem'[p] = j
        /\ \/ pc[p] = "disarming" /\ pc'[p] = "exec"
           \/ pc'[p] \in {"report", "release", "record"}
           \/ pc[p] = "launch" /\ pc'[p] = "restore" /\ "execute" \in FaultKinds
    <3>1. CASE Disarm(p) \/ Launch(p) \/ DeferredRearm(p)
      BY <3>1, <1>p, <1>r DEF Disarm, Launch, DeferredRearm, j
    <3>2. CASE LaunchFails(p)
      BY <3>2, <1>p DEF LaunchFails, Fault, j
    <3> QED BY <1>12, <3>1, <3>2
  <2>2. Settling(pc'[p], j)
    BY <1>j, <2>1 DEF Settling, Handing
  <2> QED BY <1>j, <2>1, <2>2
<1>13. CASE DisarmFails(p) \/ Restore(p)
  <2>1. /\ outbox' = outbox /\ pc[p] \in Handing /\ pc'[p] = "record"
        /\ mem'[p] = FailedAttempt(p)
    BY <1>13, <1>p DEF DisarmFails, Restore, Handing
  <2>2. {"disarm", "execute"} \cap FaultKinds # {}
    BY <1>13, <1>j DEF DisarmFails, Restore, Fault, Settling
  <2>3. j.phase \notin CountedPhases /\ j.pending = NoReport
    BY <1>j, <2>1, <2>2 DEF Settling, Accountable
  <2>4. mem'[p] \in {Enter(j, "failed"), RecordFailure(j, MaxAttempts), RecordSuccess(j)}
        /\ MaxAttempts \in Nat
    BY <2>1 DEF FailedAttempt, j
  <2>5. /\ mem'[p] \in Journal /\ SameSlot(j, mem'[p]) /\ mem'[p].seq = j.seq + 1
        /\ mem'[p].phase \in CountedPhases
    BY <1>j, <2>3, <2>4, ClosedFields
  <2>6. Accounted(outbox, mem'[p])
    BY <1>j, <2>3, <2>5, ClosedAccounts
  <2> QED BY <2>1, <2>6, SettlingNothing
<1>14. CASE RecordFailedAttempt(p) \/ RollbackNothing(p)
  <2>1. outbox' = outbox /\ mem'[p] = j /\ pc'[p] \in {"report", "release"}
    BY <1>14, <1>p, <1>r, SaveMemory, SkipMemory DEF RecordFailedAttempt, RollbackNothing, j
  <2> QED BY <1>j, <2>1, SettlingNothing
<1>15. CASE RollbackBegin(p)
  <2>1. PICK to \in Versions \cup {NoVersion}, installed \in {agentVer, NoVersion} :
          LET t == RollbackTarget(j, to)
              l == IF agentUp THEN agentVer ELSE installed
          IN  Save(p, IF l = t THEN BeginRollback(StackOutcome(j), t, l)
                      ELSE Refuse(BeginRollback(StackOutcome(j), t, l), l),
                   IF FailOpen THEN "disarm" ELSE "exec", "release")
    BY <1>15 DEF RollbackBegin, j
  <2>2. RollbackTarget(j, to) \in Versions \cup {NoVersion}
    BY <1>j DEF RollbackTarget, Journal
  <2>3. (IF agentUp THEN agentVer ELSE installed) \in Versions \cup {NoVersion}
    BY DEF TypeOK
  <2>4. PICK t \in Versions \cup {NoVersion}, l \in Versions \cup {NoVersion} :
          mem'[p] \in {BeginRollback(StackOutcome(j), t, l),
                       Refuse(BeginRollback(StackOutcome(j), t, l), l)}
    BY <1>v, <2>1, <2>2, <2>3
  <2>5. pc[p] = "rollback" /\ outbox' = outbox
    BY <1>15 DEF RollbackBegin
  <2>6. pc'[p] \in {"disarm", "exec", "release"}
    BY <1>15, RollbackEffect
  <2>7. ~Alone
    BY <1>j, <2>5 DEF Settling
  <2>8. Accounted(outbox, mem'[p]) /\ mem'[p].phase \notin CountedPhases
    BY <1>j, <2>4, <2>7, StackedAccounts DEF j
  <2>9. Settling(pc'[p], mem'[p])
    BY <2>6, <2>7, <2>8 DEF Settling, Handing
  <2> QED BY <2>5, <2>8, <2>9
<1> QED
  BY <1>1, <1>2, <1>3, <1>4, <1>5, <1>6, <1>7, <1>8, <1>9, <1>10, <1>11, <1>12, <1>13, <1>14, <1>15
  DEF PassStep, TickStep, RunStep, HandOverStep, RollbackStep
\* A journal with nothing in it is accounted for.
LEMMA NewAccounts ==
  ASSUME NEW box
  PROVE  NewJournal \in Journal /\ Accounted(box, NewJournal)
<1>1. NewJournal.seq = 0 /\ NewJournal.reported = NoOutcome /\ NewJournal.pending = NoReport
      /\ NewJournal.dropped = 0
  BY DEF NewJournal
<1>2. LostFrom(box, NewJournal) = {}
  BY <1>1 DEF LostFrom
<1>3. Cardinality({}) = 0
  BY FS_EmptySet
<1> QED BY <1>1, <1>2, <1>3, NewJournalType DEF Accounted, Books, CountsLosses, NoOutcome

\* The accounts are kept by every step.
LEMMA LossStep ==
  ASSUME Accountable, TypeOK, TypeOK', LossInv, [Next]_vars
  PROVE  LossInv'
<1> USE DEF machine
<1>t. /\ disk \in Journal /\ mem \in [Procs -> Journal] /\ pc \in [Procs -> PCs]
      /\ disk' \in Journal /\ mem' \in [Procs -> Journal]
  BY DEF TypeOK
<1>i. Accounted(outbox, disk) /\ \A q \in Procs : Accounted(outbox, mem[q]) /\ Settling(pc[q], mem[q])
  BY DEF LossInv
<1>1. ASSUME NEW p \in Procs, Start(p) PROVE LossInv'
  <2>1. PICK r \in Requests : pc' = [pc EXCEPT ![p] = IF r = "tick" THEN "drain" ELSE "rollback"]
    BY <1>1 DEF Start
  <2>2. disk' = disk /\ outbox' = outbox /\ mem' = [mem EXCEPT ![p] = disk]
    BY <1>1 DEF Start
  <2>3. Settling(pc'[p], disk)
    <3>1. CASE r = "tick"
      <4>1. pc'[p] = "drain"
        BY <1>t, <2>1, <3>1
      <4> QED BY <4>1, SettlingNothing
    <3>2. CASE r = "rollback"
      <4>1. pc'[p] = "rollback" /\ ~Alone
        BY <1>t, <2>1, <3>2 DEF Alone
      <4> QED BY <4>1 DEF Settling, Handing
    <3> QED BY <3>1, <3>2
  <2>4. \A q \in Procs : Accounted(outbox, mem'[q]) /\ Settling(pc'[q], mem'[q])
    BY <1>t, <1>i, <2>1, <2>2, <2>3
  <2> QED BY <1>i, <2>2, <2>4 DEF LossInv
<1>2. ASSUME NEW p \in Procs, Release(p) \/ Crash(p) PROVE LossInv'
  <2>1. /\ disk' = disk /\ outbox' = outbox /\ mem' = [mem EXCEPT ![p] = NewJournal]
        /\ pc' = [pc EXCEPT ![p] = "idle"]
    BY <1>2 DEF Release, Crash, Leave
  <2>2. Accounted(outbox, NewJournal) /\ Settling("idle", NewJournal)
    BY NewAccounts, SettlingNothing
  <2>3. \A q \in Procs : Accounted(outbox, mem'[q]) /\ Settling(pc'[q], mem'[q])
    BY <1>t, <1>i, <2>1, <2>2
  <2> QED BY <1>i, <2>1, <2>3 DEF LossInv
<1>3. ASSUME NEW p \in Procs, PassStep(p), ~Release(p) PROVE LossInv'
  <2>1. Accounted(outbox', mem'[p]) /\ Settling(pc'[p], mem'[p])
    BY <1>3, PassLoss
  <2>2. outbox' = outbox \/ outbox' = outbox \cup {mem[p].pending}
    BY <1>3, PassOutbox
  <2>3. ASSUME NEW j \in Journal, Accounted(outbox, j) PROVE Accounted(outbox', j)
    <3>1. Accounted(outbox \cup {mem[p].pending}, j)
      BY <2>3, OutboxGrows
    <3> QED BY <2>2, <2>3, <3>1
  <2>4. \A q \in Procs \ {p} : pc'[q] = pc[q] /\ mem'[q] = mem[q]
    BY <1>3, PassFrame
  <2>5. \A q \in Procs : Accounted(outbox', mem'[q]) /\ Settling(pc'[q], mem'[q])
    BY <1>t, <1>i, <2>1, <2>3, <2>4
  <2>6. disk' = disk \/ disk' = Written(p, mem'[p])
    BY <1>3, WritesItsMemory
  <2>7. Accounted(outbox', disk')
    BY <1>t, <1>i, <2>1, <2>3, <2>6, AgedAccounts
  <2> QED BY <2>5, <2>7 DEF LossInv
<1>4. ASSUME MachineStep \/ UNCHANGED vars PROVE LossInv'
  <2>1. disk' \in {disk, Aged(disk)} /\ mem' = mem /\ pc' = pc /\ outbox' = outbox
    BY <1>4
    DEF MachineStep, AgentStops, AgentStarts, TimePasses, InstallerCompletes, InstallerAborts, vars
  <2>2. Accounted(outbox, Aged(disk))
    BY <1>t, <1>i, AgedAccounts
  <2> QED BY <1>i, <2>1, <2>2 DEF LossInv
<1> QED BY <1>1, <1>2, <1>3, <1>4 DEF Next

\* The accounts are right to begin with.
LEMMA LossInit == Init => LossInv
<1> SUFFICES ASSUME Init PROVE LossInv
  OBVIOUS
<1>1. disk = NewJournal /\ \A p \in Procs : mem[p] = NewJournal /\ pc[p] = "idle"
  BY DEF Init
<1> QED BY <1>1, NewAccounts, SettlingNothing DEF LossInv

\* LossesAreCounted speaks of the outcomes the journal on disk has lost.
LEMMA LostIsLostFrom ==
  ASSUME TypeOK
  PROVE  LossesAreCounted <=> CountsLosses(outbox, disk)
<1> DEFINE held == outbox \cup {disk.pending} \cup disk.quarantined
           owed == IF OwesOutcomeReport(disk) THEN {disk.seq} ELSE {}
<1>1. Lost = (1 .. disk.seq) \ ({r.outcome.seq : r \in held} \cup owed)
  BY DEF Lost
<1>2. ASSUME NEW n
      PROVE  n \in {r.outcome.seq : r \in held} \cup owed <=> Told(outbox, disk, n)
  BY DEF Told
<1> HIDE DEF held, owed
<1>3. Lost = LostFrom(outbox, disk)
  BY <1>1, <1>2 DEF LostFrom
<1> QED BY <1>3 DEF LossesAreCounted, CountsLosses

\* Every terminal outcome that reached the disk is in the outbox, waiting, owed,
\* quarantined or counted as dropped (LossesAreCounted), whatever crashes and
\* whichever save fails: on a device nobody rolls back, or one whose outbox takes
\* what it is given and whose hand-overs do not fail.
THEOREM LossesAreCountedHolds ==
  ASSUME Accountable
  PROVE  Spec => []LossesAreCounted
<1>1. Init => LossInv
  BY LossInit
<1>2. TypeOK /\ TypeOK' /\ LossInv /\ [Next]_vars => LossInv'
  BY LossStep
<1>3. TypeOK /\ LossInv => LossesAreCounted
  BY LostIsLostFrom DEF LossInv, Accounted
<1> QED BY <1>1, <1>2, <1>3, TypeCorrect, PTL DEF Spec

-----------------------------------------------------------------------------
(* One report per outcome.                                                  *)

SavePoints == {"drain_save", "settle_save", "queue_save", "final_save"}

\* What waits in j is in the outbox under no other id; what j owes and has not
\* put in the slot is not in the outbox at all.
Unheard(box, j) ==
  /\ j.pending # NoReport =>
       /\ j.pending.outcome.seq <= j.seq
       /\ \A r \in box : r.outcome = j.pending.outcome => r.id = j.pending.id
  /\ OwesOutcomeReport(j) /\ j.pending = NoReport =>
       \A r \in box : r.outcome # OutcomeFingerprint(j)

\* A pass at label l with j in memory and d on the disk: the two hold the same
\* report, but for a flush that is not saved yet.
Hears(box, d, l, j) ==
  /\ Unheard(box, j)
  /\ d.seq <= j.seq
  /\ l \in Handing => j.phase \notin CountedPhases
  /\ IF l \in SavePoints THEN j.pending \in {NoReport, d.pending} ELSE j.pending = d.pending

ReportInv ==
  /\ EdgeSeesOneEvent
  /\ \A r \in outbox : r.outcome.seq <= disk.seq
  /\ Unheard(outbox, disk)
  /\ \A p \in Procs : pc[p] # "idle" => Hears(outbox, disk, pc[p], mem[p])

\* A journal that owes no more than another, with the same in the slot.
LEMMA UnheardSame ==
  ASSUME NEW j \in Journal, NEW k \in Journal, NEW box, Unheard(box, j), k.pending = j.pending,
         k.seq >= j.seq,
         \/ ~OwesOutcomeReport(k)
         \/ /\ k.phase = j.phase /\ k.seq = j.seq /\ k.target = j.target
            /\ k.failures = j.failures /\ k.reported = j.reported
  PROVE  Unheard(box, k)
<1>1. k.pending # NoReport => k.pending.outcome.seq <= k.seq
  BY DEF Unheard, Journal, Report, Outcome
<1>2. OwesOutcomeReport(k) => OwesOutcomeReport(j) /\ OutcomeFingerprint(k) = OutcomeFingerprint(j)
  BY DEF OwesOutcomeReport, OutcomeFingerprint
<1> QED BY <1>1, <1>2 DEF Unheard

\* An attempt just closed has an outcome nobody has heard of.
LEMMA UnheardClosed ==
  ASSUME NEW j \in Journal, NEW k \in Journal, NEW box, Unheard(box, j), SameSlot(j, k),
         k.phase \in CountedPhases, k.seq = j.seq + 1,
         \A r \in box : r.outcome.seq <= j.seq
  PROVE  /\ Unheard(box, k)
         /\ \A r \in box : r.outcome # OutcomeFingerprint(k)
<1>0. j.seq \in Nat
  BY DEF Journal
<1>1. OutcomeFingerprint(k).seq = j.seq + 1
  BY Fingerprint
<1>2. \A r \in box : r.outcome # OutcomeFingerprint(k)
  <2> SUFFICES ASSUME NEW r \in box, r.outcome = OutcomeFingerprint(k) PROVE FALSE
    OBVIOUS
  <2>1. r.outcome.seq <= j.seq /\ r.outcome.seq = j.seq + 1
    BY <1>1
  <2> QED BY <1>0, <2>1
<1>3. k.pending # NoReport => k.pending.outcome.seq <= k.seq
  BY DEF SameSlot, Unheard, Journal, Report, Outcome
<1> QED BY <1>2, <1>3 DEF Unheard, SameSlot

\* The slot takes the report of an outcome that is not in the outbox.
LEMMA UnheardSlotted ==
  ASSUME NEW j \in Journal, NEW id \in Nat, NEW box,
         \A r \in box : r.outcome # OutcomeFingerprint(j)
  PROVE  LET k == MarkReportPending(j, ReportOutcome(j, id))
         IN  k \in Journal /\ Unheard(box, k) /\ k.seq = j.seq /\ k.phase = j.phase
<1> DEFINE r == ReportOutcome(j, id)
           k == MarkReportPending(j, r)
<1>1. r \in Report /\ r.outcome = OutcomeFingerprint(j)
  BY FingerprintType DEF ReportOutcome, Report
<1>2. k \in Journal
  BY <1>1, SlotType
<1> HIDE DEF r
<1>3. k.pending = r /\ k.seq = j.seq /\ k.phase = j.phase /\ k.target = j.target
      /\ k.failures = j.failures
  BY DEF MarkReportPending, Journal
<1>4. OutcomeFingerprint(k) = OutcomeFingerprint(j) /\ OutcomeFingerprint(j).seq <= j.seq
  BY <1>3, Fingerprint DEF OutcomeFingerprint
<1> HIDE DEF k
<1>5. Unheard(box, k)
  BY <1>1, <1>3, <1>4 DEF Unheard
<1> QED BY <1>2, <1>3, <1>5 DEF k, r

\* OweReport: the same, or the slot is taken and stays as it is.
LEMMA UnheardOwed ==
  ASSUME TypeOK, NEW j \in Journal, NEW box, Unheard(box, j),
         j.pending = NoReport => \A r \in box : r.outcome # OutcomeFingerprint(j)
  PROVE  LET k == OweReport(j)
         IN  k \in Journal /\ Unheard(box, k) /\ k.seq = j.seq /\ k.phase = j.phase
<1> DEFINE k == OweReport(j)
<1>0. k \in Journal /\ nextId \in Nat
  BY OweType DEF TypeOK
<1>1. CASE j.pending = NoReport
  <2>1. k = MarkReportPending(j, ReportOutcome(j, nextId))
    BY <1>1 DEF OweReport, MarkReportPendingIfFree
  <2> QED BY <1>0, <1>1, <2>1, UnheardSlotted
<1>2. CASE j.pending # NoReport
  <2>1. k = [j EXCEPT !.dropped = @ + 1]
    BY <1>2 DEF OweReport, MarkReportPendingIfFree
  <2> HIDE DEF k
  <2>2. /\ k.pending = j.pending /\ k.seq = j.seq /\ k.phase = j.phase /\ k.target = j.target
        /\ k.failures = j.failures /\ k.reported = j.reported /\ k.seq >= j.seq
    BY <2>1 DEF Journal
  <2>3. Unheard(box, k)
    BY <1>0, <2>2, UnheardSame
  <2> QED BY <1>0, <2>2, <2>3 DEF k
<1> QED BY <1>1, <1>2

\* Time, and a late save, change nothing of what is owed.
LEMMA UnheardAged ==
  ASSUME NEW j \in Journal, NEW box, Unheard(box, j), NEW k \in {Aged(j)} \cup {Written(p, j) : p \in Procs}
  PROVE  k \in Journal /\ Unheard(box, k) /\ k.seq = j.seq /\ k.pending = j.pending
<1> DEFINE a == Aged(j)
<1>1. a \in Journal
  BY AgedType
<1>2. /\ a.pending = j.pending /\ a.seq = j.seq /\ a.phase = j.phase /\ a.target = j.target
      /\ a.failures = j.failures /\ a.reported = j.reported /\ a.seq >= j.seq
  BY DEF Aged, Journal
<1>3. k \in {j, a}
  BY DEF Written
<1> HIDE DEF a
<1>4. Unheard(box, a)
  BY <1>1, <1>2, UnheardSame
<1> QED BY <1>1, <1>2, <1>3, <1>4

\* A save that did not fail leaves disk and memory with the same report.
LEMMA SavedHears ==
  ASSUME TypeOK, AllSaved', NEW p \in Procs, NEW k \in Journal, NEW ok, NEW err,
         Save(p, k, ok, err), Unheard(outbox, k), mem[p].seq <= k.seq,
         ok \notin SavePoints, ok \in Handing => k.phase \notin CountedPhases
  PROVE  Hears(outbox, disk', pc'[p], mem'[p]) /\ mem[p].seq <= mem'[p].seq
<1>0. ~SaveFails(p, k)
  BY FaultType DEF SaveFails, AllSaved, TypeOK
<1>1. mem'[p] = k /\ pc'[p] = ok /\ disk' = Written(p, k)
  BY <1>0 DEF Save, SaveOk, TypeOK
<1>2. Written(p, k).seq = k.seq /\ Written(p, k).pending = k.pending
  BY UnheardAged
<1>3. k.seq \in Nat
  BY DEF Journal
<1> QED BY <1>1, <1>2, <1>3 DEF Hears

\* A step that writes nothing.
LEMMA SkippedHears ==
  ASSUME TypeOK, NEW p \in Procs, NEW l, mem'[p] = mem[p], disk' = disk, pc'[p] = l,
         Hears(outbox, disk, pc[p], mem[p]), pc[p] \notin SavePoints, l \notin SavePoints,
         l \in Handing => mem[p].phase \notin CountedPhases
  PROVE  Hears(outbox, disk', pc'[p], mem'[p]) /\ mem[p].seq <= mem'[p].seq
<1>1. mem[p].seq \in Nat
  BY DEF TypeOK, Journal
<1> QED BY <1>1 DEF Hears
\* Rollback puts what it overwrites in the slot if the slot is free.
LEMMA UnheardStacked ==
  ASSUME TypeOK, NEW p \in Procs, Unheard(outbox, mem[p]),
         \A r \in outbox : r.outcome.seq <= mem[p].seq
  PROVE  LET s == StackOutcome(mem[p])
         IN  s \in Journal /\ Unheard(outbox, s) /\ mem[p].seq <= s.seq
<1> DEFINE j == mem[p]
           s == StackOutcome(j)
<1>j. j \in Journal /\ s \in Journal /\ j.seq \in Nat
  BY StackedType DEF TypeOK, Journal
<1>1. CASE OwesOutcomeReport(j)
  <2>1. s = OweReport(j)
    BY <1>1 DEF StackOutcome
  <2>2. j.pending = NoReport => \A r \in outbox : r.outcome # OutcomeFingerprint(j)
    BY <1>1 DEF Unheard
  <2> QED BY <1>j, <2>1, <2>2, UnheardOwed
<1>2. CASE ~OwesOutcomeReport(j) /\ Interrupted(j)
  <2> DEFINE k == IF IsRollback(j) THEN Enter(j, "failed") ELSE RecordFailure(j, DefaultMaxAttempts)
  <2>1. j.phase \notin CountedPhases
    BY <1>2 DEF Interrupted, InterruptedPhases, CountedPhases
  <2>2. k \in Journal /\ SameSlot(j, k) /\ k.seq = j.seq + 1 /\ k.phase \in CountedPhases
    <3>1. k \in {Enter(j, "failed"), RecordFailure(j, DefaultMaxAttempts), RecordSuccess(j)}
      OBVIOUS
    <3>2. DefaultMaxAttempts \in Nat
      OBVIOUS
    <3> HIDE DEF k
    <3> QED BY <1>j, <2>1, <3>1, <3>2, ClosedFields
  <2>3. s = OweReport(k)
    BY <1>2 DEF StackOutcome
  <2> HIDE DEF k, s
  <2>4. Unheard(outbox, k) /\ \A r \in outbox : r.outcome # OutcomeFingerprint(k)
    BY <1>j, <2>2, UnheardClosed
  <2>5. Unheard(outbox, s) /\ s.seq = k.seq
    BY <2>2, <2>3, <2>4, UnheardOwed
  <2> QED BY <1>j, <2>2, <2>5 DEF s
<1>3. CASE ~OwesOutcomeReport(j) /\ ~Interrupted(j)
  <2>1. s = j
    BY <1>3 DEF StackOutcome
  <2> QED BY <1>j, <2>1
<1> QED BY <1>1, <1>2, <1>3

\* What a step of a pass leaves in memory, on the disk and in the outbox.
LEMMA PassReport ==
  ASSUME AllSaved', TypeOK, ReportInv, NEW p \in Procs, PassStep(p), ~Release(p)
  PROVE  Hears(outbox', disk', pc'[p], mem'[p]) /\ mem[p].seq <= mem'[p].seq
<1> DEFINE j == mem[p]
<1>p. pc \in [Procs -> PCs] /\ mem \in [Procs -> Journal] /\ nextId \in Nat /\ disk \in Journal
  BY DEF TypeOK
<1>0. pc[p] # "idle"
  BY PassFrame
<1>j. /\ j \in Journal /\ j.seq \in Nat /\ disk.seq \in Nat /\ Hears(outbox, disk, pc[p], j)
      /\ Unheard(outbox, j)
  BY <1>0, <1>p DEF ReportInv, Hears, Journal
<1>b. \A r \in outbox : r.outcome.seq <= j.seq
  <2> SUFFICES ASSUME NEW r \in outbox PROVE r.outcome.seq <= j.seq
    OBVIOUS
  <2>1. r.outcome.seq <= disk.seq /\ disk.seq <= j.seq
    BY <1>j DEF ReportInv, Hears
  <2>2. r.outcome.seq \in Nat
    BY DEF TypeOK, Report, Outcome
  <2> QED BY <1>j, <2>1, <2>2
<1>r. AfterRun(p) \in {"report", "release"}
  BY DEF AfterRun
<1>v. ASSUME NEW k, NEW ok, NEW err, Save(p, k, ok, err) PROVE mem'[p] = k
  BY <1>v DEF Save, TypeOK
<1>l. ASSUME NEW l, Skip(p, l) PROVE mem'[p] = j /\ disk' = disk /\ pc'[p] = l
  BY <1>l DEF Skip, TypeOK
<1>y. ASSUME Interrupted(j) PROVE j.phase \notin CountedPhases
  BY <1>y DEF Interrupted, InterruptedPhases, CountedPhases
<1>s. /\ {"reconcile", "owed", "fetch", "release", "settle", "queue", "final", "stage", "run",
          "report", "record", "rearm"} \cap (SavePoints \cup Handing) = {}
      /\ (FlushPoints \cup Handing) \cap SavePoints = {}
  BY DEF SavePoints, Handing, FlushPoints
<1> HIDE DEF j
<1>1. CASE FlushNothing(p)
  <2>1. /\ pc[p] \in FlushPoints /\ mem'[p] = j /\ outbox' = outbox /\ disk' = disk
        /\ pc'[p] = After[pc[p]]
    BY <1>1, <1>l DEF FlushNothing
  <2>2. pc'[p] \in {"reconcile", "owed", "fetch", "release"}
    BY <2>1 DEF FlushPoints, After
  <2>3. pc[p] \notin SavePoints /\ pc'[p] \notin SavePoints /\ pc'[p] \notin Handing
    BY <1>s, <2>1, <2>2
  <2> QED BY <1>j, <2>1, <2>3, SkippedHears DEF j
<1>2. CASE FlushAppended(p)
  <2>1. /\ pc[p] \in FlushPoints /\ j.pending # NoReport /\ mem'[p] = MarkOutcomeReported(j)
        /\ pc'[p] = Saving[pc[p]] /\ disk' = disk
    BY <1>2, <1>p DEF FlushAppended, j
  <2>2. pc'[p] \in SavePoints /\ pc'[p] \notin Handing
    BY <2>1 DEF FlushPoints, Saving, SavePoints, Handing
  <2>3. /\ mem'[p].pending = NoReport /\ mem'[p].reported = OutcomeFingerprint(j)
        /\ mem'[p].phase = j.phase /\ mem'[p].target = j.target /\ mem'[p].seq = j.seq
        /\ mem'[p].failures = j.failures
    BY <1>j, <2>1 DEF MarkOutcomeReported, Journal
  <2>4. ~OwesOutcomeReport(mem'[p])
    BY <2>3 DEF OwesOutcomeReport, OutcomeFingerprint
  <2> QED BY <1>j, <2>1, <2>2, <2>3, <2>4 DEF Hears, Unheard, j
<1>3. CASE FlushRefused(p)
  <2>1. /\ pc[p] \in FlushPoints /\ j.pending # NoReport /\ mem'[p] = RecordReportQueueFailure(j)
        /\ outbox' = outbox /\ pc'[p] = Saving[pc[p]] /\ disk' = disk
    BY <1>3, <1>p DEF FlushRefused, j
  <2>2. pc'[p] \in SavePoints /\ pc'[p] \notin Handing /\ pc[p] \notin SavePoints
    BY <2>1 DEF FlushPoints, Saving, SavePoints, Handing
  <2>3. /\ mem'[p].phase = j.phase /\ mem'[p].target = j.target /\ mem'[p].seq = j.seq
        /\ mem'[p].failures = j.failures /\ mem'[p] \in Journal
    <3>1. j.pending \in Report
      BY <1>j DEF Journal
    <3>2. mem'[p] \in Journal
      BY <1>j, <2>1, <3>1, SlotType
    <3> QED BY <1>j, <2>1, <3>2 DEF RecordReportQueueFailure, Journal
  <2>4. Unheard(outbox, mem'[p]) /\ mem'[p].pending \in {NoReport, j.pending}
    <3>1. CASE j.queueFails + 1 < ReportMaxAttempts
      <4>1. mem'[p] = [j EXCEPT !.queueFails = @ + 1]
        BY <2>1, <3>1 DEF RecordReportQueueFailure
      <4>2. mem'[p].pending = j.pending /\ mem'[p].reported = j.reported
        BY <1>j, <4>1 DEF Journal
      <4> QED BY <1>j, <2>3, <4>2, UnheardSame
    <3>2. CASE ~(j.queueFails + 1 < ReportMaxAttempts)
      <4>1. mem'[p].reported = OutcomeFingerprint(j) /\ mem'[p].pending = NoReport
        BY <1>j, <2>1, <3>2 DEF RecordReportQueueFailure, Journal
      <4>2. ~OwesOutcomeReport(mem'[p])
        BY <2>3, <4>1 DEF OwesOutcomeReport, OutcomeFingerprint
      <4> QED BY <4>1, <4>2 DEF Unheard
    <3> QED BY <3>1, <3>2
  <2> QED BY <1>j, <2>1, <2>2, <2>3, <2>4 DEF Hears, j
<1>4. CASE FlushSave(p)
  <2>1. PICK f \in FlushPoints : pc[p] = Saving[f] /\ Save(p, mem[p], After[f], After[f])
    BY <1>4 DEF FlushSave
  <2>2. outbox' = outbox /\ After[f] \in {"reconcile", "owed", "fetch", "release"}
    BY <1>4, <2>1 DEF FlushSave, FlushPoints, After
  <2>3. After[f] \notin SavePoints /\ After[f] \notin Handing /\ j.seq <= j.seq
    BY <1>j, <1>s, <2>2
  <2> QED BY <1>j, <2>1, <2>2, <2>3, SavedHears DEF j
<1>5. CASE Reconcile(p)
  <2> DEFINE done == RecordSuccess(j)
             told == MarkReportPending(done, ReportOutcome(done, nextId))
  <2>1. /\ outbox' = outbox /\ pc[p] = "reconcile"
        /\ \/ Interrupted(j) /\ Save(p, told, "settle", "release")
           \/ Skip(p, "owed")
    BY <1>5 DEF Reconcile, Landed, j
  <2>2. CASE Skip(p, "owed")
    BY <1>j, <1>l, <1>s, <2>1, <2>2, SkippedHears DEF j
  <2>3. CASE Interrupted(j) /\ Save(p, told, "settle", "release")
    <3>1. j.phase \notin CountedPhases
      BY <1>y, <2>3
    <3>2. 0 \in Nat /\ done \in {Enter(j, "failed"), RecordFailure(j, 0), RecordSuccess(j)}
      OBVIOUS
    <3> HIDE DEF done
    <3>3. done \in Journal /\ SameSlot(j, done) /\ done.seq = j.seq + 1 /\ done.phase \in CountedPhases
      BY <1>j, <3>1, <3>2, ClosedFields
    <3>4. \A r \in outbox : r.outcome # OutcomeFingerprint(done)
      BY <1>j, <1>b, <3>3, UnheardClosed
    <3>5. told \in Journal /\ Unheard(outbox, told) /\ told.seq = done.seq
      BY <1>p, <3>3, <3>4, UnheardSlotted
    <3> HIDE DEF told
    <3>6. j.seq <= told.seq /\ "settle" \notin SavePoints /\ "settle" \notin Handing
      BY <1>j, <1>s, <3>3, <3>5
    <3> QED BY <2>1, <2>3, <3>5, <3>6, SavedHears DEF j
  <2> QED BY <2>1, <2>2, <2>3
<1>6. CASE Owed(p) \/ ReportRun(p)
  <2>1. PICK l \in {"queue", "final"} :
          /\ outbox' = outbox /\ pc[p] \in {"owed", "report"}
          /\ \/ OwesOutcomeReport(j) /\ Save(p, OweReport(j), l, l)
             \/ Skip(p, l)
    BY <1>6 DEF Owed, ReportRun, Owe, j
  <2>2. CASE Skip(p, l)
    BY <1>j, <1>l, <1>s, <2>1, <2>2, SkippedHears DEF j
  <2>3. CASE OwesOutcomeReport(j) /\ Save(p, OweReport(j), l, l)
    <3>1. j.pending = NoReport => \A r \in outbox : r.outcome # OutcomeFingerprint(j)
      BY <1>j, <2>3 DEF Unheard
    <3>2. OweReport(j) \in Journal /\ Unheard(outbox, OweReport(j)) /\ OweReport(j).seq = j.seq
      BY <1>j, <3>1, UnheardOwed
    <3>3. j.seq <= OweReport(j).seq /\ l \notin SavePoints /\ l \notin Handing
      BY <1>j, <1>s, <3>2
    <3> QED BY <2>1, <2>3, <3>2, <3>3, SavedHears DEF j
  <2> QED BY <2>1, <2>2, <2>3
<1>7. CASE Fetch(p) \/ Stage(p) \/ RollbackNothing(p) \/ RunRefused(p) \/ RecordFailedAttempt(p)
  <2>1. PICK l \in {"release", "stage", "run", "report"} : Skip(p, l) \/ Save(p, mem[p], l, l)
    <3>1. CASE Fetch(p)
      <4>1. \/ Skip(p, "release")
            \/ \E next \in {"release", "stage"} : Skip(p, next) \/ Save(p, mem[p], next, next)
        BY <3>1, Zenon DEF Fetch
      <4> QED BY <4>1
    <3>2. CASE Stage(p) \/ RollbackNothing(p) \/ RunRefused(p) \/ RecordFailedAttempt(p)
      BY <1>r, <3>2 DEF Stage, RollbackNothing, RunRefused, RecordFailedAttempt
    <3> QED BY <1>7, <3>1, <3>2
  <2>2. outbox' = outbox /\ pc[p] \in {"fetch", "stage", "rollback", "run", "record"}
    BY <1>7 DEF Fetch, Stage, RollbackNothing, RunRefused, RecordFailedAttempt
  <2>3. l \notin SavePoints /\ l \notin Handing /\ pc[p] \notin SavePoints /\ j.seq <= j.seq
    BY <1>j, <2>2 DEF SavePoints, Handing
  <2>4. CASE Skip(p, l)
    BY <1>j, <1>l, <2>2, <2>3, <2>4, SkippedHears DEF j
  <2>5. CASE Save(p, mem[p], l, l)
    BY <1>j, <2>2, <2>3, <2>5, SavedHears DEF j
  <2> QED BY <2>1, <2>4, <2>5
<1>8. CASE RunOutstanding(p)
  <2>1. /\ outbox' = outbox /\ pc[p] = "run" /\ Interrupted(j)
        /\ Skip(p, "report") \/ Save(p, Enter(j, "failed"), "report", "report")
    BY <1>8 DEF RunOutstanding, j
  <2>2. CASE Skip(p, "report")
    BY <1>j, <1>l, <1>s, <2>1, <2>2, SkippedHears DEF j
  <2>3. CASE Save(p, Enter(j, "failed"), "report", "report")
    <3> DEFINE k == Enter(j, "failed")
    <3>1. 0 \in Nat /\ j.phase \notin CountedPhases
      BY <1>y, <2>1
    <3>2. k \in Journal /\ SameSlot(j, k) /\ k.seq = j.seq + 1 /\ k.phase \in CountedPhases
      BY <1>j, <3>1, ClosedFields
    <3> HIDE DEF k
    <3>3. Unheard(outbox, k) /\ j.seq <= k.seq
      BY <1>j, <1>b, <3>2, UnheardClosed
    <3> QED BY <1>s, <2>1, <2>3, <3>2, <3>3, SavedHears DEF j, k
  <2> QED BY <2>1, <2>2, <2>3
<1>9. CASE RunBegin(p)
  <2> DEFINE b == Begin(j, arg[p].offer, RunningVersion)
             f == [j EXCEPT !.from = RunningVersion]
  <2>1. outbox' = outbox /\ pc[p] = "run" /\ ~Interrupted(j)
    BY <1>9 DEF RunBegin, MayAttempt, j
  <2>2. \/ Save(p, b, "gate", "report")
        \/ ~Terminal(j) /\ Save(p, f, "gate", "report")
        \/ ~Terminal(j) /\ Skip(p, "gate")
    BY <1>9 DEF RunBegin, j
  <2>a. arg[p].offer \in Versions \cup {NoVersion} /\ RunningVersion \in Versions \cup {NoVersion}
    BY DEF TypeOK, Args, RunningVersion
  <2>4. b \in Journal /\ f \in Journal
    BY <1>j, <2>a, BeginType DEF Journal
  <2>5. b.pending = j.pending /\ b.seq = j.seq /\ b.phase = "verified"
    BY <1>j DEF Begin, Journal
  <2>6. /\ f.pending = j.pending /\ f.seq = j.seq /\ f.phase = j.phase /\ f.target = j.target
        /\ f.failures = j.failures /\ f.reported = j.reported
    BY <1>j DEF Journal
  <2>g. "gate" \notin SavePoints /\ "run" \notin SavePoints
    BY DEF SavePoints
  <2>t. ~Terminal(j) => j.phase \notin CountedPhases
    BY DEF Terminal, CountedPhases
  <2> HIDE DEF b, f
  <2>7. CASE Save(p, b, "gate", "report")
    <3>1. b.phase \notin CountedPhases /\ b.seq >= j.seq /\ j.seq <= b.seq
      BY <1>j, <2>5 DEF CountedPhases
    <3>2. ~OwesOutcomeReport(b)
      BY <2>4, <3>1, Fingerprint
    <3>3. Unheard(outbox, b)
      BY <1>j, <2>4, <2>5, <3>1, <3>2, UnheardSame
    <3> QED BY <2>1, <2>4, <2>7, <2>g, <3>1, <3>3, SavedHears DEF j
  <2>8. CASE ~Terminal(j) /\ Save(p, f, "gate", "report")
    <3>1. f.phase \notin CountedPhases /\ f.seq >= j.seq /\ j.seq <= f.seq
      BY <1>j, <2>6, <2>8, <2>t
    <3>3. Unheard(outbox, f)
      BY <1>j, <2>4, <2>6, <3>1, UnheardSame
    <3> QED BY <2>1, <2>4, <2>8, <2>g, <3>1, <3>3, SavedHears DEF j
  <2>9. CASE ~Terminal(j) /\ Skip(p, "gate")
    BY <1>j, <1>l, <2>1, <2>9, <2>g, <2>t, SkippedHears DEF j
  <2> QED BY <2>2, <2>7, <2>8, <2>9
<1>10. CASE RunGate(p) \/ RecordDisarm(p) \/ RecordExecute(p)
  <2>1. /\ outbox' = outbox /\ pc[p] \in {"gate", "disarm", "exec"}
        /\ \/ Skip(p, "report")
           \/ Save(p, j, "report", "report")
           \/ \E ph \in {"snapshotted", "disarmed", "executing", "rolling_back"},
                 ok \in {"disarm", "disarming", "exec", "launch"},
                 err \in {"report", "release", "rearm"} : Save(p, Enter(j, ph), ok, err)
    <3>1. CASE RunGate(p)
      BY <3>1 DEF RunGate, j
    <3>2. CASE RecordDisarm(p)
      BY <3>2, <1>r DEF RecordDisarm, j
    <3>3. CASE RecordExecute(p)
      BY <3>3, <1>r DEF RecordExecute, j
    <3> QED BY <1>10, <3>1, <3>2, <3>3
  <2>2. CASE Skip(p, "report")
    <3>1. pc[p] \notin SavePoints
      BY <2>1 DEF SavePoints
    <3> QED BY <1>j, <1>l, <1>s, <2>1, <2>2, <3>1, SkippedHears DEF j
  <2>3. CASE Save(p, j, "report", "report")
    <3>1. j.seq <= j.seq
      BY <1>j
    <3> QED BY <1>j, <1>s, <2>1, <2>3, <3>1, SavedHears DEF j
  <2>4. ASSUME NEW ph \in {"snapshotted", "disarmed", "executing", "rolling_back"},
               NEW ok \in {"disarm", "disarming", "exec", "launch"}, NEW err,
               Save(p, Enter(j, ph), ok, err)
        PROVE  Hears(outbox', disk', pc'[p], mem'[p]) /\ mem[p].seq <= mem'[p].seq
    <3> DEFINE k == Enter(j, ph)
    <3>1. ph \in Phases /\ ph \notin CountedPhases
      BY <2>4 DEF Phases, CountedPhases
    <3>2. k \in Journal
      BY <1>j, <3>1, EnterType
    <3>3. k.pending = j.pending /\ k.seq = j.seq /\ k.phase = ph
      BY <1>j, <3>1 DEF Enter, Journal
    <3> HIDE DEF k
    <3>4. ~OwesOutcomeReport(k) /\ k.seq >= j.seq /\ j.seq <= k.seq
      BY <1>j, <3>1, <3>2, <3>3, Fingerprint
    <3>5. Unheard(outbox, k)
      BY <1>j, <3>2, <3>3, <3>4, UnheardSame
    <3>6. ok \notin SavePoints /\ k.phase \notin CountedPhases
      BY <2>4, <3>1, <3>3 DEF SavePoints
    <3> QED BY <2>1, <2>4, <3>2, <3>4, <3>5, <3>6, SavedHears DEF j, k
  <2> QED BY <2>1, <2>2, <2>3, <2>4
<1>11. CASE Disarm(p) \/ Launch(p) \/ LaunchFails(p) \/ DeferredRearm(p)
  <2>1. /\ outbox' = outbox /\ mem'[p] = j /\ disk' = disk
        /\ pc[p] \in {"disarming", "launch", "rearm"}
        /\ \/ pc'[p] \in {"exec", "restore"} /\ pc[p] \in Handing
           \/ pc'[p] \in {"report", "release", "record"}
    BY <1>11, <1>p, <1>r DEF Disarm, Launch, LaunchFails, DeferredRearm, j, Handing
  <2>2. pc[p] \notin SavePoints /\ pc'[p] \notin SavePoints
    BY <2>1 DEF SavePoints
  <2>3. pc'[p] \in Handing => j.phase \notin CountedPhases
    BY <1>j, <1>s, <2>1 DEF Hears
  <2> QED BY <1>j, <2>1, <2>2, <2>3, SkippedHears DEF j
<1>12. CASE DisarmFails(p) \/ Restore(p)
  <2>1. /\ outbox' = outbox /\ pc[p] \in Handing /\ pc'[p] = "record" /\ disk' = disk
        /\ mem'[p] = FailedAttempt(p)
    BY <1>12, <1>p DEF DisarmFails, Restore, Handing
  <2>2. j.phase \notin CountedPhases
    BY <1>j, <2>1 DEF Hears
  <2>3. mem'[p] \in {Enter(j, "failed"), RecordFailure(j, MaxAttempts), RecordSuccess(j)}
        /\ MaxAttempts \in Nat
    BY <2>1 DEF FailedAttempt, j
  <2>4. /\ mem'[p] \in Journal /\ SameSlot(j, mem'[p]) /\ mem'[p].seq = j.seq + 1
        /\ mem'[p].phase \in CountedPhases
    BY <1>j, <2>2, <2>3, ClosedFields
  <2>5. Unheard(outbox, mem'[p])
    BY <1>j, <1>b, <2>4, UnheardClosed
  <2>6. j.pending = disk.pending /\ disk.seq <= j.seq
    BY <1>j, <1>s, <2>1 DEF Hears
  <2>7. disk.seq <= mem'[p].seq /\ j.seq <= mem'[p].seq /\ mem'[p].pending = disk.pending
    BY <1>j, <2>4, <2>6 DEF SameSlot
  <2> QED BY <1>s, <2>1, <2>5, <2>7 DEF Hears, j
<1>13. CASE RollbackBegin(p)
  <2> DEFINE s == StackOutcome(j)
  <2>1. PICK to \in Versions \cup {NoVersion}, installed \in {agentVer, NoVersion} :
          LET t == RollbackTarget(j, to)
              l == IF agentUp THEN agentVer ELSE installed
          IN  Save(p, IF l = t THEN BeginRollback(s, t, l)
                      ELSE Refuse(BeginRollback(s, t, l), l),
                   IF FailOpen THEN "disarm" ELSE "exec", "release")
    BY <1>13 DEF RollbackBegin, j
  <2>2. RollbackTarget(j, to) \in Versions \cup {NoVersion}
    BY <1>j DEF RollbackTarget, Journal
  <2>3. (IF agentUp THEN agentVer ELSE installed) \in Versions \cup {NoVersion}
    BY DEF TypeOK
  <2> HIDE DEF s
  <2>t. PICK t \in Versions \cup {NoVersion}, l \in Versions \cup {NoVersion} :
          \E w \in {BeginRollback(s, t, l), Refuse(BeginRollback(s, t, l), l)},
             ok \in {"disarm", "exec"} :
            Save(p, w, ok, "release")
    <3> DEFINE t == RollbackTarget(j, to)
               l == IF agentUp THEN agentVer ELSE installed
               w == IF l = t THEN BeginRollback(s, t, l) ELSE Refuse(BeginRollback(s, t, l), l)
               ok == IF FailOpen THEN "disarm" ELSE "exec"
    <3>1. Save(p, w, ok, "release") /\ t \in Versions \cup {NoVersion} /\ l \in Versions \cup {NoVersion}
      BY <2>1, <2>2, <2>3
    <3>2. w \in {BeginRollback(s, t, l), Refuse(BeginRollback(s, t, l), l)} /\ ok \in {"disarm", "exec"}
      OBVIOUS
    <3> HIDE DEF t, l, w, ok
    <3> QED BY <3>1, <3>2
  <2>4. PICK w \in {BeginRollback(s, t, l), Refuse(BeginRollback(s, t, l), l)},
             ok \in {"disarm", "exec"} :
          Save(p, w, ok, "release")
    BY <2>t
  <2>5. s \in Journal /\ Unheard(outbox, s) /\ j.seq <= s.seq
    BY <1>j, <1>b, UnheardStacked DEF s, j
  <2>6. BeginRollback(s, t, l) \in Journal /\ Refuse(BeginRollback(s, t, l), l) \in Journal
    BY <2>5, BeginType, RefuseType
  <2>7. w \in Journal /\ w.pending = s.pending /\ w.seq = s.seq /\ w.phase = "verified"
    <3> DEFINE b == BeginRollback(s, t, l)
    <3>1. b.pending = s.pending /\ b.seq = s.seq /\ b.phase = "verified"
      BY <2>5 DEF BeginRollback, Begin, Journal
    <3>2. b \in Journal
      BY <2>6
    <3>3. w \in {b, Refuse(b, l)} /\ w \in Journal
      BY <2>4, <2>6
    <3> HIDE DEF b
    <3>4. Refuse(b, l).pending = b.pending /\ Refuse(b, l).seq = b.seq /\ Refuse(b, l).phase = b.phase
      BY <3>2 DEF Refuse, Journal
    <3> QED BY <3>1, <3>3, <3>4
  <2>8. w.phase \notin CountedPhases /\ ~OwesOutcomeReport(w)
    BY <2>7, Fingerprint DEF CountedPhases
  <2>9. w.seq >= s.seq /\ j.seq <= w.seq
    BY <2>5, <2>7 DEF Journal
  <2>10. Unheard(outbox, w)
    BY <2>5, <2>7, <2>8, <2>9, UnheardSame
  <2>11. outbox' = outbox /\ ok \notin SavePoints
    BY <1>13, <2>4 DEF RollbackBegin, SavePoints
  <2> QED BY <2>4, <2>7, <2>8, <2>9, <2>10, <2>11, SavedHears DEF j
<1> QED
  BY <1>1, <1>2, <1>3, <1>4, <1>5, <1>6, <1>7, <1>8, <1>9, <1>10, <1>11, <1>12, <1>13
  DEF PassStep, TickStep, RunStep, HandOverStep, RollbackStep
\* Reports stay told apart by every step.
LEMMA ReportStep ==
  ASSUME AllSaved', TypeOK, TypeOK', LockInv, ReportInv, [Next]_vars
  PROVE  ReportInv'
<1> USE DEF machine
<1>t. /\ disk \in Journal /\ mem \in [Procs -> Journal] /\ pc \in [Procs -> PCs]
      /\ disk' \in Journal /\ mem' \in [Procs -> Journal] /\ disk.seq \in Nat /\ disk'.seq \in Nat
      /\ outbox \subseteq Report
  BY DEF TypeOK, Journal
<1>i. /\ EdgeSeesOneEvent /\ Unheard(outbox, disk)
      /\ \A r \in outbox : r.outcome.seq <= disk.seq
      /\ \A q \in Procs : pc[q] # "idle" => Hears(outbox, disk, pc[q], mem[q])
  BY DEF ReportInv
<1>1. ASSUME NEW p \in Procs, Start(p) PROVE ReportInv'
  <2>1. PICK r \in Requests : pc' = [pc EXCEPT ![p] = IF r = "tick" THEN "drain" ELSE "rollback"]
    BY <1>1 DEF Start
  <2>2. disk' = disk /\ outbox' = outbox /\ mem' = [mem EXCEPT ![p] = disk]
    BY <1>1 DEF Start
  <2>3. pc'[p] \in {"drain", "rollback"}
    BY <1>t, <2>1
  <2>4. Hears(outbox, disk, pc'[p], disk)
    BY <1>t, <1>i, <2>3 DEF Hears, Handing, SavePoints
  <2>5. \A q \in Procs : pc'[q] # "idle" => Hears(outbox, disk, pc'[q], mem'[q])
    BY <1>t, <1>i, <2>1, <2>2, <2>4
  <2> QED BY <1>i, <2>2, <2>5 DEF ReportInv, EdgeSeesOneEvent
<1>2. ASSUME NEW p \in Procs, Release(p) \/ Crash(p) PROVE ReportInv'
  <2>1. /\ disk' = disk /\ outbox' = outbox /\ mem' = [mem EXCEPT ![p] = NewJournal]
        /\ pc' = [pc EXCEPT ![p] = "idle"]
    BY <1>2 DEF Release, Crash, Leave
  <2>2. \A q \in Procs : pc'[q] # "idle" => Hears(outbox, disk, pc'[q], mem'[q])
    BY <1>t, <1>i, <2>1
  <2> QED BY <1>i, <2>1, <2>2 DEF ReportInv, EdgeSeesOneEvent
<1>3. ASSUME NEW p \in Procs, PassStep(p), ~Release(p) PROVE ReportInv'
  <2> DEFINE j == mem[p]
  <2>1. Hears(outbox', disk', pc'[p], mem'[p]) /\ mem[p].seq <= mem'[p].seq
    BY <1>3, PassReport
  <2>2. pc[p] # "idle" /\ \A q \in Procs \ {p} : pc'[q] = pc[q] /\ pc[q] = "idle"
    BY <1>3, PassFrame DEF LockInv
  <2>3. \A q \in Procs : pc'[q] # "idle" => Hears(outbox', disk', pc'[q], mem'[q])
    BY <2>1, <2>2
  <2>h. Hears(outbox, disk, pc[p], j) /\ j \in Journal /\ mem'[p] \in Journal
    BY <1>t, <1>i, <2>2
  <2>4. \/ disk' = disk
        \/ disk' = Written(p, mem'[p]) /\ disk.seq <= disk'.seq /\ Unheard(outbox', disk')
    <3>1. disk' = disk \/ disk' = Written(p, mem'[p])
      BY <1>3, WritesItsMemory
    <3>2. Unheard(outbox', mem'[p]) /\ disk.seq <= j.seq /\ j.seq <= mem'[p].seq
      BY <2>1, <2>h DEF Hears
    <3>3. Unheard(outbox', Written(p, mem'[p])) /\ Written(p, mem'[p]).seq = mem'[p].seq
      BY <2>h, <3>2, UnheardAged
    <3>4. disk.seq <= mem'[p].seq
      <4>1. j.seq \in Nat /\ mem'[p].seq \in Nat
        BY <2>h DEF Journal
      <4> QED BY <1>t, <3>2, <4>1
    <3> QED BY <3>1, <3>3, <3>4
  <2>5. CASE outbox' = outbox
    <3>1. Unheard(outbox', disk')
      BY <1>i, <2>4, <2>5
    <3>2. \A r \in outbox : r.outcome.seq <= disk'.seq
      <4> SUFFICES ASSUME NEW r \in outbox PROVE r.outcome.seq <= disk'.seq
        OBVIOUS
      <4>1. r.outcome.seq \in Nat /\ r.outcome.seq <= disk.seq
        BY <1>t, <1>i DEF Report, Outcome
      <4> QED BY <1>t, <2>4, <4>1
    <3> QED BY <1>i, <2>3, <2>5, <3>1, <3>2 DEF ReportInv, EdgeSeesOneEvent
  <2>6. CASE FlushAppended(p)
    <3>1. /\ outbox' = outbox \cup {j.pending} /\ disk' = disk /\ j.pending # NoReport
          /\ pc[p] \notin SavePoints
      BY <2>6 DEF FlushAppended, FlushPoints, SavePoints
    <3>2. disk.pending = j.pending /\ Unheard(outbox, j)
      BY <2>h, <3>1 DEF Hears
    <3> HIDE DEF j
    <3>3. EdgeSeesOneEvent'
      BY <1>i, <3>1, <3>2 DEF EdgeSeesOneEvent, Unheard
    <3>4. \A r \in outbox' : r.outcome.seq <= disk'.seq
      BY <1>i, <3>1, <3>2 DEF Unheard
    <3>5. Unheard(outbox', disk')
      BY <1>i, <3>1, <3>2 DEF Unheard
    <3> QED BY <2>3, <3>3, <3>4, <3>5 DEF ReportInv
  <2> QED BY <1>3, <2>5, <2>6, PassOutbox
<1>4. ASSUME MachineStep \/ UNCHANGED vars PROVE ReportInv'
  <2>1. disk' \in {disk, Aged(disk)} /\ mem' = mem /\ pc' = pc /\ outbox' = outbox
    BY <1>4
    DEF MachineStep, AgentStops, AgentStarts, TimePasses, InstallerCompletes, InstallerAborts, vars
  <2>2. Unheard(outbox, disk') /\ disk'.seq = disk.seq /\ disk'.pending = disk.pending
    BY <1>t, <1>i, <2>1, UnheardAged
  <2>3. \A q \in Procs : pc[q] # "idle" => Hears(outbox, disk', pc[q], mem[q])
    BY <1>i, <2>2 DEF Hears
  <2>4. \A r \in outbox : r.outcome.seq <= disk'.seq
    BY <1>i, <2>2
  <2> QED BY <1>i, <2>1, <2>2, <2>3, <2>4 DEF ReportInv, EdgeSeesOneEvent
<1> QED BY <1>1, <1>2, <1>3, <1>4 DEF Next

\* No outcome is queued under two ids (OneReportPerOutcome), with a service and
\* an operator at work and whatever crashes, as long as no save has failed: a report
\* is on the disk before it is in the outbox, so a pass that dies between the two
\* leaves the next one the report it must repeat.
THEOREM OneReportPerOutcomeHolds == Spec => []OneReportPerOutcome
<1> DEFINE SavedInv == AllSaved => ReportInv
<1>1. Init => SavedInv
  <2> SUFFICES ASSUME Init PROVE ReportInv
    OBVIOUS
  <2>1. outbox = {} /\ disk = NewJournal /\ \A p \in Procs : pc[p] = "idle"
    BY DEF Init
  <2>2. NewJournal.pending = NoReport
    BY DEF NewJournal
  <2> QED BY <2>1, <2>2 DEF ReportInv, EdgeSeesOneEvent, Unheard
<1>2. TypeOK /\ TypeOK' /\ Inv /\ SavedInv /\ [Next]_vars => SavedInv'
  <2> SUFFICES ASSUME TypeOK, TypeOK', Inv, SavedInv, [Next]_vars, AllSaved' PROVE ReportInv'
    OBVIOUS
  <2>1. AllSaved
    BY UnsavedStays DEF AllSaved
  <2> QED BY <2>1, ReportStep DEF Inv
<1>3. SavedInv => OneReportPerOutcome
  BY DEF ReportInv, OneReportPerOutcome
<1> HIDE DEF SavedInv
<1> QED BY <1>1, <1>2, <1>3, InvHolds, TypeCorrect, PTL DEF Spec

=============================================================================

-------------------------- MODULE ReportOutboxProofs --------------------------
(***************************************************************************)
(* Proofs about ReportOutbox: what two processes on one directory do to    *)
(* the reports in it and to the count of the ones thrown away.             *)
(***************************************************************************)
EXTENDS ReportOutbox, CollectionLemmas

-----------------------------------------------------------------------------
(* Tallies, files of counts, faults.                                        *)

\* The sum of two tallies is a tally, and an empty tally is one.
LEMMA TallyTypes ==
  /\ None \in Tallies /\ \A i \in Ids : None[i] = 0
  /\ \A a, b \in Tallies : Plus(a, b) \in Tallies /\ \A i \in Ids : Plus(a, b)[i] = a[i] + b[i]
  /\ \A a \in Tallies : (\A i \in Ids : a[i] = 0) => a = None
BY DEF Tallies, None, Plus

\* What is read from a ledger file is a tally.
LEMMA InFileType ==
  /\ \A f \in Tallies \cup {NoFile} : InFile(f) \in Tallies
  /\ InFile(NoFile) = None /\ \A f \in Tallies : InFile(f) = f
BY TallyTypes, OutboxAssumption DEF InFile

\* Where a process goes after addDropped.
LEMMA AfterAddIs == AfterAdd["updater"] = "mark" /\ AfterAdd["sender"] = "idle"
BY DEF AfterAdd

\* A fault adds its harm to what has been done.
LEMMA FailsType ==
  ASSUME faults \in [n : 0 .. MaxFaults, harm : Harms], NEW k, NEW h \in Harms, Fails(k, h)
  PROVE  /\ faults' \in [n : 0 .. MaxFaults, harm : Harms]
         /\ k \in FaultKinds /\ faults' # faults
         /\ faults'.harm >= faults.harm /\ faults'.harm >= h
<1>1. faults.n \in Nat /\ faults.n < MaxFaults /\ faults.harm \in 0 .. 2 /\ h \in 0 .. 2
  BY OutboxAssumption DEF Fails, Harms
<1>2. \A a, b \in 0 .. 2 : Max({a, b}) \in {a, b} /\ Max({a, b}) >= a /\ Max({a, b}) >= b
  BY DEF Max
<1>3. Max({faults.harm, h}) \in 0 .. 2 /\ Max({faults.harm, h}) >= faults.harm /\ Max({faults.harm, h}) >= h
  BY <1>1, <1>2
<1>4. faults' = [n |-> faults.n + 1, harm |-> Max({faults.harm, h})] /\ k \in FaultKinds
  BY DEF Fails
<1>5. faults.n + 1 \in 0 .. MaxFaults /\ faults.n + 1 # faults.n
  BY <1>1, OutboxAssumption
<1>6. faults'.n = faults.n + 1 /\ faults'.harm = Max({faults.harm, h})
  BY <1>4
<1> QED BY <1>3, <1>4, <1>5, <1>6 DEF Harms

\* The harm of a fault and of a crash.
LEMMA HarmTypes ==
  /\ \A k : HarmOf(k) \in Harms
  /\ \A p, at : CrashHarm(p, at) \in 1 .. 2
BY DEF HarmOf, CrashHarm, Harms

\* The same of the faults that have a harm of their own.
LEMMA FaultType ==
  ASSUME faults \in [n : 0 .. MaxFaults, harm : Harms], NEW k, Fault(k)
  PROVE  /\ faults' \in [n : 0 .. MaxFaults, harm : Harms]
         /\ k \in FaultKinds /\ faults' # faults
         /\ faults'.harm >= faults.harm /\ faults'.harm >= HarmOf(k)
BY HarmTypes, FailsType DEF Fault

-----------------------------------------------------------------------------
(* Types.                                                                   *)

\* The types, and that a report is there to be sent.
TypeInv == TypeOK /\ (pc["sender"] \in {"send", "sent"} => names # {})

\* Init gives every variable its type.
LEMMA TypeInit == Init => TypeInv
<1> SUFFICES ASSUME Init PROVE TypeInv
  OBVIOUS
<1>1. edge \in Seq(Ids) /\ IsInjective(edge)
  BY DEF Init, IsInjective
<1>2. pc["sender"] = "idle" /\ pc["updater"] = "idle"
  BY DEF Init, Procs
<1>3. faults \in [n : 0 .. MaxFaults, harm : Harms]
  BY OutboxAssumption DEF Init, Harms
<1>4. pc \in [Procs -> UpdaterPCs \cup SenderPCs] /\ count \in [Procs -> Tallies] /\ total \in [Procs -> Tallies]
  BY TallyTypes DEF Init, UpdaterPCs
<1>5. owed \in 0 .. lastId /\ lastId \in Ids \cup {0}
  BY DEF Init
<1> QED BY <1>1, <1>2, <1>3, <1>4, <1>5, TallyTypes DEF Init, TypeInv, TypeOK, UpdaterPCs, SenderPCs, Procs

\* The report the sender is at.
LEMMA HeadType ==
  ASSUME TypeInv, names # {}
  PROVE  Min(names) \in names /\ Min(names) \in Ids /\ \A n \in names : Min(names) <= n
<1>1. names \in SUBSET Nat
  BY OutboxAssumption DEF TypeInv, TypeOK, Ids
<1> QED BY <1>1, MinProperties DEF TypeInv, TypeOK

\* The Edge takes a report it does not have at the end of what it has.
LEMMA EdgeType ==
  ASSUME TypeInv, NEW id \in Ids, EdgeRecords(id)
  PROVE  /\ edge' \in Seq(Ids) /\ IsInjective(edge') /\ declared' \in Tallies
         /\ ToSet(edge') = ToSet(edge) \cup {id}
<1>1. edge \in Seq(Ids) /\ IsInjective(edge) /\ declared \in Tallies /\ dropped \in Tallies
  BY DEF TypeInv, TypeOK
<1>2. CASE id \in ToSet(edge)
  BY <1>1, <1>2 DEF EdgeRecords
<1>3. CASE id \notin ToSet(edge)
  <2>1. edge' = Append(edge, id) /\ declared' = Plus(declared, dropped)
    BY <1>3 DEF EdgeRecords
  <2>2. edge' \in Seq(Ids) /\ ToSet(edge') = ToSet(edge) \cup {id}
    BY <1>1, <2>1, ToSetAppend
  <2>3. /\ DOMAIN edge = 1 .. Len(edge) /\ DOMAIN edge' = 1 .. Len(edge) + 1 /\ Len(edge) \in Nat
        /\ \A i \in 1 .. Len(edge) : edge'[i] = edge[i]
        /\ edge'[Len(edge) + 1] = id
    BY <1>1, <2>1
  <2>4. \A i \in 1 .. Len(edge) : edge[i] # id
    BY <1>3, <2>3 DEF ToSet
  <2>5. IsInjective(edge')
    <3> SUFFICES ASSUME NEW a \in 1 .. Len(edge) + 1, NEW b \in 1 .. Len(edge) + 1, edge'[a] = edge'[b]
                 PROVE  a = b
      BY <2>3 DEF IsInjective
    <3>1. CASE a \in 1 .. Len(edge) /\ b \in 1 .. Len(edge)
      BY <1>1, <2>3, <3>1 DEF IsInjective
    <3>2. CASE a = Len(edge) + 1 \/ b = Len(edge) + 1
      BY <2>3, <2>4, <3>2
    <3> QED BY <2>3, <3>1, <3>2
  <2> QED BY <1>1, <2>1, <2>2, <2>5, TallyTypes
<1> QED BY <1>2, <1>3

\* What a new or repeated append does to the numbers.
LEMMA NumberedType ==
  ASSUME TypeInv, NEW id \in Ids, NEW r \in Refusals \cup {NoRefusal}, Numbered(id, r),
         Fresh(id, r) \/ Requeued(id, r)
  PROVE  /\ lastId' \in Ids \cup {0} /\ owed' \in 0 .. lastId'
         /\ lastId' \in Nat /\ lastId \in Nat /\ id <= lastId' /\ lastId <= lastId'
         /\ Fresh(id, r) => id = lastId + 1 /\ lastId' = id
         /\ Requeued(id, r) => id <= lastId /\ lastId' = lastId /\ id = owed
<1>1. lastId \in Nat /\ owed \in Nat /\ owed <= lastId /\ lastId \in Ids \cup {0} /\ id \in Nat
  BY OutboxAssumption DEF TypeInv, TypeOK, Ids
<1>2. CASE Fresh(id, r)
  BY <1>1, <1>2 DEF Fresh, Requeued, Numbered
<1>3. CASE Requeued(id, r)
  BY <1>1, <1>3 DEF Fresh, Requeued, Numbered
<1> QED BY <1>2, <1>3

\* The updater's own steps keep the types.
LEMMA TypeUpdater ==
  ASSUME TypeInv,
         \/ \E id \in Ids, r \in Refusals \cup {NoRefusal} : AppendReport(id, r) \/ AppendUnconfirmed(id, r)
         \/ ClearRefusal \/ PruneList \/ PruneRemove \/ PruneDone \/ MarkRefusal
         \/ \E id \in Ids : Damage(id)
  PROVE  TypeInv'
<1> USE DEF disk, updater, sender, history, Go
<1>0. faults \in [n : 0 .. MaxFaults, harm : Harms]
  BY DEF TypeInv, TypeOK
<1>1. ASSUME NEW id \in Ids, NEW r \in Refusals \cup {NoRefusal}, AppendReport(id, r)
      PROVE  TypeInv'
  <2>1. lastId' \in Ids \cup {0} /\ owed' \in 0 .. lastId'
    BY <1>1, NumberedType DEF AppendReport
  <2>2. faults' \in [n : 0 .. MaxFaults, harm : Harms]
    BY <1>0, <1>1, FaultType DEF AppendReport
  <2> QED BY <1>1, <2>1, <2>2 DEF AppendReport, TypeInv, TypeOK, UpdaterPCs, Procs
<1>2. ASSUME NEW id \in Ids, NEW r \in Refusals \cup {NoRefusal}, AppendUnconfirmed(id, r)
      PROVE  TypeInv'
  <2>1. lastId' \in Ids \cup {0} /\ owed' \in 0 .. lastId'
    BY <1>2, NumberedType DEF AppendUnconfirmed
  <2>2. faults' \in [n : 0 .. MaxFaults, harm : Harms]
    BY <1>0, <1>2, FaultType DEF AppendUnconfirmed
  <2> QED BY <1>2, <2>1, <2>2 DEF AppendUnconfirmed, TypeInv, TypeOK
<1>3. CASE ClearRefusal
  BY <1>3 DEF ClearRefusal, TypeInv, TypeOK
<1>4. CASE PruneList
  <2>2. faults' \in [n : 0 .. MaxFaults, harm : Harms]
    BY <1>0, <1>4, FaultType DEF PruneList
  <2> QED BY <1>4, <2>2 DEF PruneList, TypeInv, TypeOK, UpdaterPCs, Procs
<1>5. CASE PruneRemove
  <2> DEFINE id == Min(victims)
  <2>1. victims \in SUBSET Nat /\ victims # {} /\ victims \subseteq Ids
    BY <1>5, OutboxAssumption DEF PruneRemove, TypeInv, TypeOK, Ids
  <2>2. id \in Ids
    BY <2>1, MinProperties
  <2>3. count["updater"] \in Tallies /\ count \in [Procs -> Tallies] /\ "updater" \in Procs
    BY DEF TypeInv, TypeOK, Procs
  <2> HIDE DEF id
  <2>4. [count EXCEPT !["updater"][id] = @ + 1] \in [Procs -> Tallies]
    BY <2>2, <2>3 DEF Tallies
  <2>5. /\ count' \in [Procs -> Tallies] /\ victims' \subseteq Ids /\ files' \subseteq Ids
        /\ pruned' \subseteq Ids /\ stuck' \subseteq Ids
    BY <1>5, <2>1, <2>2, <2>4 DEF PruneRemove, TypeInv, TypeOK, id
  <2>6. faults' \in [n : 0 .. MaxFaults, harm : Harms]
    BY <1>0, <1>5, FaultType DEF PruneRemove
  <2> QED BY <1>5, <2>5, <2>6 DEF PruneRemove, TypeInv, TypeOK
<1>6. CASE PruneDone
  BY <1>6 DEF PruneDone, TypeInv, TypeOK, UpdaterPCs, Procs
<1>7. CASE MarkRefusal
  <2>2. faults' \in [n : 0 .. MaxFaults, harm : Harms]
    BY <1>0, <1>7, FaultType DEF MarkRefusal
  <2> QED BY <1>7, <2>2 DEF MarkRefusal, TypeInv, TypeOK, UpdaterPCs, Procs
<1>8. ASSUME NEW id \in Ids, Damage(id) PROVE TypeInv'
  <2>2. faults' \in [n : 0 .. MaxFaults, harm : Harms]
    BY <1>0, <1>8, FaultType DEF Damage
  <2> QED BY <1>8, <2>2 DEF Damage, TypeInv, TypeOK
<1> QED BY <1>1, <1>2, <1>3, <1>4, <1>5, <1>6, <1>7, <1>8

\* addDropped and a crash keep the types, in either process.
LEMMA TypeAdd ==
  ASSUME TypeInv, NEW p \in Procs, AddStep(p) \/ Crash(p)
  PROVE  TypeInv'
<1> USE DEF disk, updater, sender, history, Go
<1>0. /\ faults \in [n : 0 .. MaxFaults, harm : Harms] /\ p \in {"updater", "sender"}
      /\ InFile(ledger) \in Tallies /\ count[p] \in Tallies
      /\ total[p] \in Tallies /\ None \in Tallies
  BY InFileType, TallyTypes DEF TypeInv, TypeOK, Procs
<1>1. CASE LockLedger(p)
  BY <1>0, <1>1 DEF LockLedger, TypeInv, TypeOK, UpdaterPCs, SenderPCs, Procs
<1>2. CASE LockTimesOut(p)
  <2>2. faults' \in [n : 0 .. MaxFaults, harm : Harms]
    BY <1>0, <1>2, FaultType DEF LockTimesOut
  <2> QED BY <1>0, <1>2, <2>2, AfterAddIs DEF LockTimesOut, TypeInv, TypeOK, UpdaterPCs, SenderPCs, Procs
<1>3. CASE ReadAndTruncate(p)
  <2>1. Plus(InFile(ledger), count[p]) \in Tallies
    BY <1>0, TallyTypes
  <2> QED BY <1>0, <1>3, <2>1 DEF ReadAndTruncate, TypeInv, TypeOK, UpdaterPCs, SenderPCs, Procs
<1>4. CASE WriteLedger(p)
  BY <1>0, <1>4, AfterAddIs DEF WriteLedger, TypeInv, TypeOK, UpdaterPCs, SenderPCs, Procs
<1>5. CASE WriteLedgerFails(p)
  <2>2. faults' \in [n : 0 .. MaxFaults, harm : Harms]
    BY <1>0, <1>5, FaultType DEF WriteLedgerFails
  <2> QED BY <1>0, <1>5, <2>2, AfterAddIs DEF WriteLedgerFails, TypeInv, TypeOK, UpdaterPCs, SenderPCs, Procs
<1>6. CASE Crash(p)
  <2>1. CrashHarm(p, pc[p]) \in Harms
    BY HarmTypes DEF Harms
  <2>2. faults' \in [n : 0 .. MaxFaults, harm : Harms]
    BY <1>0, <1>6, <2>1, FailsType DEF Crash
  <2> QED BY <1>0, <1>6, <2>2 DEF Crash, TypeInv, TypeOK, UpdaterPCs, SenderPCs, Procs
<1> QED BY <1>1, <1>2, <1>3, <1>4, <1>5, <1>6 DEF AddStep

\* The sender's own steps keep the types.
LEMMA TypeSender ==
  ASSUME TypeInv,
         \/ DrainStart \/ ClaimLock \/ Recover \/ Fold \/ Unclaim \/ Rename
         \/ Read \/ Send \/ RemoveSent \/ ReleaseDropped
  PROVE  TypeInv'
<1> USE DEF disk, updater, sender, history, Go
<1>0. /\ faults \in [n : 0 .. MaxFaults, harm : Harms]
      /\ InFile(ledger) \in Tallies /\ InFile(claim) \in Tallies
      /\ total["sender"] \in Tallies /\ None \in Tallies
  BY InFileType, TallyTypes DEF TypeInv, TypeOK, Procs
<1>1. CASE DrainStart
  BY <1>1 DEF DrainStart, TypeInv, TypeOK, SenderPCs, Procs
<1>2. CASE ClaimLock
  <2>2. faults' \in [n : 0 .. MaxFaults, harm : Harms]
    BY <1>0, <1>2, FaultType DEF ClaimLock
  <2> QED BY <1>2, <2>2 DEF ClaimLock, TypeInv, TypeOK, SenderPCs, Procs
<1>3. CASE Recover
  <2>1. InFile(claim) # None => Plus(InFile(ledger), claim) \in Tallies
    BY <1>0, TallyTypes DEF InFile
  <2>2. faults' \in [n : 0 .. MaxFaults, harm : Harms]
    BY <1>0, <1>3, FaultType DEF Recover
  <2> QED BY <1>0, <1>3, <2>1, <2>2 DEF Recover, TypeInv, TypeOK, SenderPCs, Procs
<1>4. CASE Fold
  BY <1>0, <1>4 DEF Fold, TypeInv, TypeOK, SenderPCs, Procs
<1>5. CASE Unclaim
  <2>2. faults' \in [n : 0 .. MaxFaults, harm : Harms]
    BY <1>0, <1>5, FaultType DEF Unclaim
  <2> QED BY <1>0, <1>5, <2>2 DEF Unclaim, TypeInv, TypeOK, SenderPCs, Procs
<1>6. CASE Rename
  <2>2. faults' \in [n : 0 .. MaxFaults, harm : Harms]
    BY <1>0, <1>6, FaultType DEF Rename
  <2> QED BY <1>0, <1>6, <2>2 DEF Rename, TypeInv, TypeOK, SenderPCs, Procs
<1>7. CASE Read
  <2>2. faults' \in [n : 0 .. MaxFaults, harm : Harms]
    BY <1>0, <1>7, FaultType DEF Read
  <2> QED BY <1>7, <2>2 DEF Read, TypeInv, TypeOK, SenderPCs, Procs
<1>8. CASE Send
  <2>1. names # {} /\ Min(names) \in Ids
    BY <1>8, HeadType DEF Send, TypeInv
  <2>2. faults' \in [n : 0 .. MaxFaults, harm : Harms]
    BY <1>0, <1>8, FaultType DEF Send
  <2>3. edge' \in Seq(Ids) /\ IsInjective(edge') /\ declared' \in Tallies
    <3>1. CASE EdgeRecords(Min(names))
      BY <2>1, <3>1, EdgeType
    <3>2. CASE UNCHANGED <<edge, declared>>
      BY <3>2 DEF TypeInv, TypeOK
    <3> QED BY <1>8, <3>1, <3>2 DEF Send
  <2> QED BY <1>0, <1>8, <2>1, <2>2, <2>3 DEF Send, TypeInv, TypeOK, SenderPCs, Procs
<1>9. CASE RemoveSent
  <2>2. faults' \in [n : 0 .. MaxFaults, harm : Harms]
    BY <1>0, <1>9, FaultType DEF RemoveSent
  <2> QED BY <1>9, <2>2 DEF RemoveSent, TypeInv, TypeOK, SenderPCs, Procs
<1>10. CASE ReleaseDropped
  <2>2. faults' \in [n : 0 .. MaxFaults, harm : Harms]
    BY <1>0, <1>10, FaultType DEF ReleaseDropped
  <2> QED BY <1>0, <1>10, <2>2 DEF ReleaseDropped, TypeInv, TypeOK, SenderPCs, Procs
<1> QED BY <1>1, <1>2, <1>3, <1>4, <1>5, <1>6, <1>7, <1>8, <1>9, <1>10

\* The actors whose step a step is.
LEMMA WhoSteps ==
  ASSUME Next
  PROVE  \/ \/ \E id \in Ids, r \in Refusals \cup {NoRefusal} : AppendReport(id, r) \/ AppendUnconfirmed(id, r)
            \/ ClearRefusal \/ PruneList \/ PruneRemove \/ PruneDone \/ MarkRefusal
            \/ \E id \in Ids : Damage(id)
         \/ \E p \in Procs : AddStep(p) \/ Crash(p)
         \/ \/ DrainStart \/ ClaimLock \/ Recover \/ Fold \/ Unclaim \/ Rename
            \/ Read \/ Send \/ RemoveSent \/ ReleaseDropped
BY DEF Next, UpdaterStep, SenderStep, Procs

\* Every step keeps the types.
LEMMA TypeNext == TypeInv /\ [Next]_vars => TypeInv'
<1> SUFFICES ASSUME TypeInv, [Next]_vars PROVE TypeInv'
  OBVIOUS
<1>1. CASE UNCHANGED vars
  BY <1>1 DEF TypeInv, TypeOK, vars, disk, updater, sender, history
<1> QED BY <1>1, WhoSteps, TypeUpdater, TypeAdd, TypeSender

\* The directory, the ledger, the two processes and what the Edge has keep their
\* types.
THEOREM OutboxTypeCorrect == Spec => []TypeOK
<1>1. TypeInv => TypeOK
  BY DEF TypeInv
<1> QED BY <1>1, TypeInit, TypeNext, PTL DEF Spec

-----------------------------------------------------------------------------
(* What each process leaves alone.                                          *)

\* A step of the updater outside addDropped leaves the ledger, the sender and the
\* Edge alone.
LEMMA UpdaterFrame ==
  ASSUME TypeInv,
         \/ \E id \in Ids, r \in Refusals \cup {NoRefusal} : AppendReport(id, r) \/ AppendUnconfirmed(id, r)
         \/ ClearRefusal \/ PruneList \/ PruneRemove \/ PruneDone \/ MarkRefusal
         \/ \E id \in Ids : Damage(id)
  PROVE  /\ UNCHANGED <<ledger, claim, ledgerLock, names, claimed, dropped, edge, declared, total>>
         /\ pc'["sender"] = pc["sender"] /\ count'["sender"] = count["sender"]
         /\ faults'.harm >= faults.harm
<1> USE DEF disk, updater, sender, history, Go
<1>1. faults \in [n : 0 .. MaxFaults, harm : Harms] /\ faults.harm \in Nat
  BY DEF TypeInv, TypeOK, Harms
<1>2. faults' = faults \/ (\E k : Fault(k))
  BY DEF AppendReport, AppendUnconfirmed, ClearRefusal, PruneList, PruneRemove, PruneDone, MarkRefusal, Damage
<1>3. faults'.harm >= faults.harm
  BY <1>1, <1>2, FaultType
<1>4. pc'["sender"] = pc["sender"] /\ count'["sender"] = count["sender"]
  BY DEF AppendReport, AppendUnconfirmed, ClearRefusal, PruneList, PruneRemove, PruneDone, MarkRefusal, Damage,
     TypeInv, TypeOK, Procs
<1> QED BY <1>3, <1>4 DEF AppendReport, AppendUnconfirmed, ClearRefusal, PruneList, PruneRemove, PruneDone,
     MarkRefusal, Damage

\* A step of the sender outside addDropped leaves the updater and its history alone,
\* and adds nothing to the directory.
LEMMA SenderFrame ==
  ASSUME TypeInv,
         \/ DrainStart \/ ClaimLock \/ Recover \/ Fold \/ Unclaim \/ Rename
         \/ Read \/ Send \/ RemoveSent \/ ReleaseDropped
  PROVE  /\ UNCHANGED <<unreadable, marker, lastId, owed, job, victims, stuck, pruned, stored>>
         /\ files' \subseteq files
         /\ pc'["updater"] = pc["updater"] /\ count'["updater"] = count["updater"]
         /\ total'["updater"] = total["updater"]
         /\ faults'.harm >= faults.harm
<1> USE DEF disk, updater, sender, history, Go
<1>1. faults \in [n : 0 .. MaxFaults, harm : Harms] /\ faults.harm \in Nat
  BY DEF TypeInv, TypeOK, Harms
<1>2. faults' = faults \/ (\E k : Fault(k))
  BY DEF DrainStart, ClaimLock, Recover, Fold, Unclaim, Rename, Read, Send, RemoveSent, ReleaseDropped
<1>3. faults'.harm >= faults.harm
  BY <1>1, <1>2, FaultType
<1>4. /\ pc'["updater"] = pc["updater"] /\ count'["updater"] = count["updater"]
      /\ total'["updater"] = total["updater"]
  BY DEF DrainStart, ClaimLock, Recover, Fold, Unclaim, Rename, Read, Send, RemoveSent, ReleaseDropped,
     TypeInv, TypeOK, Procs
<1> QED BY <1>3, <1>4 DEF DrainStart, ClaimLock, Recover, Fold, Unclaim, Rename, Read, Send, RemoveSent,
     ReleaseDropped

\* addDropped leaves the directory, the claim and the Edge alone; the other process
\* is where it was.
LEMMA AddFrame ==
  ASSUME TypeInv, NEW p \in Procs, AddStep(p)
  PROVE  /\ UNCHANGED <<files, unreadable, claim, marker, lastId, owed, job, victims, stuck, names, claimed,
                        dropped, edge, declared, pruned, stored>>
         /\ \A q \in Procs \ {p} : pc'[q] = pc[q] /\ count'[q] = count[q] /\ total'[q] = total[q]
         /\ <<pc[p], pc'[p]>> \in {<<"lock", "add">>, <<"lock", AfterAdd[p]>>, <<"add", "write">>,
                                   <<"add", AfterAdd[p]>>, <<"write", AfterAdd[p]>>}
         /\ faults'.harm >= faults.harm
<1> USE DEF disk, updater, sender, history, Go
<1>1. faults \in [n : 0 .. MaxFaults, harm : Harms] /\ faults.harm \in Nat
  BY DEF TypeInv, TypeOK, Harms
<1>2. faults' = faults \/ (\E k : Fault(k))
  BY DEF AddStep, LockLedger, LockTimesOut, ReadAndTruncate, WriteLedger, WriteLedgerFails
<1>3. faults'.harm >= faults.harm
  BY <1>1, <1>2, FaultType
<1>4. \A q \in Procs \ {p} : pc'[q] = pc[q] /\ count'[q] = count[q] /\ total'[q] = total[q]
  BY DEF AddStep, LockLedger, LockTimesOut, ReadAndTruncate, WriteLedger, WriteLedgerFails, TypeInv, TypeOK
<1>5. <<pc[p], pc'[p]>> \in {<<"lock", "add">>, <<"lock", AfterAdd[p]>>, <<"add", "write">>,
                             <<"add", AfterAdd[p]>>, <<"write", AfterAdd[p]>>}
  BY DEF AddStep, LockLedger, LockTimesOut, ReadAndTruncate, WriteLedger, WriteLedgerFails, TypeInv, TypeOK
<1> QED BY <1>3, <1>4, <1>5 DEF AddStep, LockLedger, LockTimesOut, ReadAndTruncate, WriteLedger, WriteLedgerFails

\* A crash takes what the process had in memory and its lock.
LEMMA CrashFrame ==
  ASSUME TypeInv, NEW p \in Procs, Crash(p)
  PROVE  /\ UNCHANGED <<files, unreadable, ledger, claim, marker, lastId, owed, edge, declared, pruned, stored>>
         /\ \A q \in Procs \ {p} : pc'[q] = pc[q] /\ count'[q] = count[q] /\ total'[q] = total[q]
         /\ pc[p] # "idle" /\ pc'[p] = "idle" /\ count'[p] = None /\ total'[p] = None
         /\ ledgerLock' = IF ledgerLock = p THEN "free" ELSE ledgerLock
         /\ p = "updater" => job' = NoRefusal /\ victims' = {} /\ stuck' = {} /\ UNCHANGED <<names, claimed, dropped>>
         /\ p = "sender" => names' = {} /\ claimed' = FALSE /\ dropped' = None /\ UNCHANGED <<job, victims, stuck>>
         /\ faults' # faults /\ faults'.harm >= faults.harm /\ faults'.harm >= CrashHarm(p, pc[p])
<1> USE DEF disk, updater, sender, history, Go
<1>1. faults \in [n : 0 .. MaxFaults, harm : Harms] /\ CrashHarm(p, pc[p]) \in Harms
  BY HarmTypes DEF TypeInv, TypeOK, Harms
<1>2. faults' # faults /\ faults'.harm >= faults.harm /\ faults'.harm >= CrashHarm(p, pc[p])
  BY <1>1, FailsType DEF Crash
<1>3. /\ \A q \in Procs \ {p} : pc'[q] = pc[q] /\ count'[q] = count[q] /\ total'[q] = total[q]
      /\ pc[p] # "idle" /\ pc'[p] = "idle" /\ count'[p] = None /\ total'[p] = None
  BY DEF Crash, TypeInv, TypeOK
<1>4. /\ p = "updater" => job' = NoRefusal /\ victims' = {} /\ stuck' = {} /\ UNCHANGED <<names, claimed, dropped>>
      /\ p = "sender" => names' = {} /\ claimed' = FALSE /\ dropped' = None /\ UNCHANGED <<job, victims, stuck>>
  BY DEF Crash
<1> QED BY <1>2, <1>3, <1>4 DEF Crash

-----------------------------------------------------------------------------
(* The suppression marker.                                                  *)

\* The refusal being queued is already in the directory, so that the marker may name
\* it.
JobInv ==
  /\ pc["updater"] = "idle" => job = NoRefusal
  /\ job # NoRefusal => job \in stored
  /\ SuppressedWasQueued

\* Nothing is marked at first.
LEMMA JobInit == Init => JobInv
BY DEF Init, JobInv, SuppressedWasQueued

\* The marker is written last and cleared with the set it names a member of.
LEMMA JobNext == TypeInv /\ JobInv /\ [Next]_vars => JobInv'
<1> SUFFICES ASSUME TypeInv, JobInv, [Next]_vars PROVE JobInv'
  OBVIOUS
<1> USE DEF JobInv, SuppressedWasQueued
<1>1. CASE UNCHANGED vars
  BY <1>1 DEF vars, disk, updater, history
<1>2. ASSUME NEW id \in Ids, NEW r \in Refusals \cup {NoRefusal}, AppendReport(id, r)
      PROVE  JobInv'
  BY <1>2 DEF AppendReport, Go, TypeInv, TypeOK, Procs
<1>3. ASSUME NEW id \in Ids, NEW r \in Refusals \cup {NoRefusal}, AppendUnconfirmed(id, r)
      PROVE  JobInv'
  BY <1>3 DEF AppendUnconfirmed, updater, history
<1>4. CASE ClearRefusal
  BY <1>4 DEF ClearRefusal, updater
<1>5. CASE PruneList \/ PruneRemove \/ PruneDone
  BY <1>5 DEF PruneList, PruneRemove, PruneDone, Go, disk, updater, history, TypeInv, TypeOK, Procs
<1>6. CASE MarkRefusal
  BY <1>6 DEF MarkRefusal, Go, history, TypeInv, TypeOK, Procs
<1>7. ASSUME NEW id \in Ids, Damage(id) PROVE JobInv'
  BY <1>7 DEF Damage, updater, history
<1>8. ASSUME NEW p \in Procs, AddStep(p) PROVE JobInv'
  <2>1. pc'["updater"] = "idle" => pc["updater"] = "idle"
    BY <1>8, AddFrame, AfterAddIs DEF Procs
  <2> QED BY <1>8, <2>1, AddFrame
<1>9. ASSUME NEW p \in Procs, Crash(p) PROVE JobInv'
  <2>1. UNCHANGED <<marker, stored>>
    BY <1>9, CrashFrame
  <2>2. CASE p = "updater"
    BY <1>9, <2>1, <2>2, CrashFrame
  <2>3. CASE p = "sender"
    <3>1. UNCHANGED job /\ pc'["updater"] = pc["updater"]
      BY <1>9, <2>3, CrashFrame DEF Procs
    <3> QED BY <2>1, <3>1
  <2> QED BY <2>2, <2>3 DEF Procs
<1>10. CASE \/ DrainStart \/ ClaimLock \/ Recover \/ Fold \/ Unclaim \/ Rename
            \/ Read \/ Send \/ RemoveSent \/ ReleaseDropped
  BY <1>10, SenderFrame
<1> QED BY <1>1, <1>2, <1>3, <1>4, <1>5, <1>6, <1>7, <1>8, <1>9, <1>10, WhoSteps

\* A refusal that AppendRefusal suppresses as a repeat was queued since the last
\* progress, wherever an append, a marker or a process failed in between.
THEOREM SuppressedWasQueuedHolds == Spec => []SuppressedWasQueued
<1>1. JobInv => SuppressedWasQueued
  BY DEF JobInv
<1> QED BY <1>1, TypeInit, TypeNext, JobInit, JobNext, PTL DEF Spec

-----------------------------------------------------------------------------
(* Where a report goes.                                                     *)

\* Every id anywhere is one that was made, and what the sender removes as sent has
\* been sent.
MadeInv ==
  /\ files \subseteq 1 .. lastId /\ victims \subseteq 1 .. lastId /\ names \subseteq 1 .. lastId
  /\ pruned \subseteq 1 .. lastId /\ ToSet(edge) \subseteq 1 .. lastId
  /\ pc["sender"] = "sent" => Min(names) \in ToSet(edge)
  /\ NothingVanishes

\* Nothing is made at first.
LEMMA MadeInit == Init => MadeInv
BY DEF Init, MadeInv, NothingVanishes, ToSet, Procs

\* What Send does to the sender and the Edge.
LEMMA SendEffect ==
  ASSUME TypeInv, Send
  PROVE  /\ names # {} /\ Min(names) \in names /\ Min(names) \in Ids
         /\ UNCHANGED <<files, unreadable, ledger, claim, ledgerLock, names, claimed, pruned>>
         /\ pc["sender"] = "send" /\ pc'["sender"] \in {"sent", "release"}
         /\ pc'["sender"] = "sent" => EdgeRecords(Min(names)) /\ dropped' = None
         /\ pc'["sender"] = "release" => dropped' = dropped
         /\ \/ ToSet(edge') = ToSet(edge) \cup {Min(names)} /\ EdgeRecords(Min(names))
            \/ UNCHANGED <<edge, declared>> /\ pc'["sender"] = "release"
<1>1. names # {} /\ Min(names) \in names /\ Min(names) \in Ids
  BY HeadType DEF Send, TypeInv
<1>2. EdgeRecords(Min(names)) => ToSet(edge') = ToSet(edge) \cup {Min(names)}
  BY <1>1, EdgeType
<1>3. "sender" \in DOMAIN pc
  BY DEF TypeInv, TypeOK, Procs
<1> HIDE DEF EdgeRecords
<1> QED BY <1>1, <1>2, <1>3 DEF Send, Go, disk, updater, sender

\* A report leaves the directory for the Edge, as pruned, or as unreadable.
LEMMA MadeNext == TypeInv /\ MadeInv /\ [Next]_vars => MadeInv'
<1> SUFFICES ASSUME TypeInv, MadeInv, [Next]_vars PROVE MadeInv'
  OBVIOUS
<1> USE DEF MadeInv, NothingVanishes
<1>0. lastId \in Nat
  BY OutboxAssumption DEF TypeInv, TypeOK, Ids
<1>1. CASE UNCHANGED vars
  BY <1>1 DEF vars, disk, updater, sender, history
<1>2. ASSUME NEW id \in Ids, NEW r \in Refusals \cup {NoRefusal}, AppendReport(id, r) \/ AppendUnconfirmed(id, r)
      PROVE  MadeInv'
  <2>1. /\ lastId' \in Nat /\ lastId <= lastId' /\ id \in 1 .. lastId'
        /\ \A i \in 1 .. lastId' : i \in 1 .. lastId \/ i = id
    <3>1. Numbered(id, r) /\ (Fresh(id, r) \/ Requeued(id, r))
      BY <1>2 DEF AppendReport, AppendUnconfirmed
    <3>2. id \in Nat \ {0}
      BY OutboxAssumption DEF Ids
    <3> QED BY <3>1, <3>2, NumberedType
  <2>2. /\ UNCHANGED <<victims, names, pruned, edge>> /\ files' = files \cup {id} /\ pc'["sender"] = pc["sender"]
        /\ unreadable \subseteq unreadable' \cup {id}
    BY <1>2, UpdaterFrame DEF AppendReport, AppendUnconfirmed, updater, sender, history
  <2>3. 1 .. lastId \subseteq 1 .. lastId'
    BY <1>0, <2>1
  <2>4. 1 .. lastId \subseteq files \cup ToSet(edge) \cup pruned \cup unreadable
    BY <1>0
  <2>5. 1 .. lastId' \subseteq files' \cup ToSet(edge') \cup pruned' \cup unreadable'
    BY <2>1, <2>2, <2>4
  <2> QED BY <2>1, <2>2, <2>3, <2>5
<1>3. CASE ClearRefusal \/ PruneDone \/ MarkRefusal \/ \E id \in Ids : Damage(id)
  <2>1. UNCHANGED <<files, victims, names, pruned, edge, lastId>> /\ pc'["sender"] = pc["sender"]
    BY <1>3, UpdaterFrame DEF ClearRefusal, PruneDone, MarkRefusal, Damage, disk, updater, sender, history
  <2>2. unreadable \subseteq unreadable'
    BY <1>3 DEF ClearRefusal, PruneDone, MarkRefusal, Damage, disk
  <2> QED BY <2>1, <2>2
<1>4. CASE PruneList
  <2>1. /\ UNCHANGED <<files, names, pruned, edge, lastId, unreadable>> /\ pc'["sender"] = pc["sender"]
        /\ victims' \subseteq files \cup victims
    BY <1>4, UpdaterFrame DEF PruneList, disk, history
  <2> QED BY <2>1
<1>5. CASE PruneRemove
  <2>1. /\ UNCHANGED <<names, edge, lastId, unreadable>> /\ pc'["sender"] = pc["sender"]
        /\ victims' \subseteq victims
        /\ files' \subseteq files /\ files \subseteq files' \cup pruned'
        /\ pruned \subseteq pruned' /\ pruned' \subseteq pruned \cup files
    BY <1>5, UpdaterFrame DEF PruneRemove
  <2> QED BY <2>1
<1>6. ASSUME NEW p \in Procs, AddStep(p) PROVE MadeInv'
  <2>1. pc'["sender"] = "sent" => pc["sender"] = "sent"
    BY <1>6, AddFrame, AfterAddIs DEF Procs
  <2> QED BY <1>6, <2>1, AddFrame
<1>7. ASSUME NEW p \in Procs, Crash(p) PROVE MadeInv'
  <2>1. pc'["sender"] = "sent" => pc["sender"] = "sent" /\ p = "updater"
    BY <1>7, CrashFrame DEF Procs
  <2>2. victims' \subseteq victims /\ names' \subseteq names
    BY <1>7, CrashFrame DEF Procs
  <2> QED BY <1>7, <2>1, <2>2, CrashFrame
<1>8. CASE DrainStart \/ ClaimLock \/ Recover \/ Fold \/ Unclaim \/ Rename \/ ReleaseDropped
  <2>1. UNCHANGED <<unreadable, lastId, victims, pruned, files, edge>>
    BY <1>8, SenderFrame DEF DrainStart, ClaimLock, Recover, Fold, Unclaim, Rename, ReleaseDropped, disk, history
  <2>2. pc'["sender"] # "sent" /\ names' \subseteq files \cup names
    BY <1>8 DEF DrainStart, ClaimLock, Recover, Fold, Unclaim, Rename, ReleaseDropped, Go, sender,
       TypeInv, TypeOK, Procs
  <2> QED BY <2>1, <2>2
<1>9. CASE Read
  <2>1. UNCHANGED <<unreadable, lastId, victims, pruned, edge>> /\ files' \subseteq files
    BY <1>9, SenderFrame DEF Read, history
  <2>2. pc'["sender"] # "sent" /\ names' \subseteq names /\ files \subseteq files' \cup unreadable
    BY <1>9 DEF Read, Go, TypeInv, TypeOK, Procs
  <2> QED BY <2>1, <2>2
<1>10. CASE Send
  <2>1. UNCHANGED <<unreadable, lastId, victims, pruned, files, names>>
    BY <1>10, SenderFrame, SendEffect
  <2>2. ToSet(edge) \subseteq ToSet(edge') /\ ToSet(edge') \subseteq ToSet(edge) \cup names
    BY <1>10, SendEffect
  <2>3. pc'["sender"] = "sent" => Min(names) \in ToSet(edge')
    BY <1>10, SendEffect
  <2> QED BY <2>1, <2>2, <2>3
<1>11. CASE RemoveSent
  <2>1. UNCHANGED <<unreadable, lastId, victims, pruned, edge>> /\ files' \subseteq files
    BY <1>11, SenderFrame DEF RemoveSent, history
  <2>2. /\ pc'["sender"] # "sent" /\ names' \subseteq names /\ files \subseteq files' \cup {Min(names)}
        /\ Min(names) \in ToSet(edge)
    BY <1>11 DEF RemoveSent, Go, TypeInv, TypeOK, Procs
  <2> QED BY <2>1, <2>2
<1> QED BY <1>1, <1>2, <1>3, <1>4, <1>5, <1>6, <1>7, <1>8, <1>9, <1>10, <1>11, WhoSteps

\* A report that left the directory reached the Edge, was pruned, or could not be
\* parsed: neither process removes a file for any other reason, however the two
\* interleave and wherever they die.
THEOREM NothingVanishesHolds == Spec => []NothingVanishes
<1>1. MadeInv => NothingVanishes
  BY DEF MadeInv
<1> QED BY <1>1, TypeInit, TypeNext, MadeInit, MadeNext, PTL DEF Spec

-----------------------------------------------------------------------------
(* The bound on the directory.                                              *)

\* What is left once the victims are gone is within the bound, but for what pruning
\* could not remove, and the newest report is not among the victims.
PruneInv ==
  /\ pc["updater"] = "remove" => Cardinality(files \ (victims \cup stuck)) <= MaxStored
  /\ pc["updater"] \in {"lock", "add", "write", "mark"} => Cardinality(files \ stuck) <= MaxStored
  /\ pc["updater"] \in {"idle", "prune"} => stuck = {}
  /\ lastId \notin pruned \cup victims

\* Nothing is pruned at first.
LEMMA PruneInit == Init => PruneInv
BY DEF Init, PruneInv, Procs

\* A set of reports is finite, and a part of it no larger.
LEMMA ReportCount ==
  ASSUME NEW S \in SUBSET Ids, NEW T \in SUBSET S
  PROVE  /\ IsFiniteSet(S) /\ Cardinality(S) \in Nat
         /\ IsFiniteSet(T) /\ Cardinality(T) \in Nat /\ Cardinality(T) <= Cardinality(S)
         /\ Cardinality(S \ T) = Cardinality(S) - Cardinality(T)
<1>1. IsFiniteSet(Ids)
  BY FS_Interval, OutboxAssumption DEF Ids
<1>2. IsFiniteSet(S)
  BY <1>1, FS_Subset
<1>3. IsFiniteSet(T) /\ Cardinality(T) <= Cardinality(S)
  BY <1>2, FS_Subset
<1>4. Cardinality(S) \in Nat /\ Cardinality(T) \in Nat
  BY <1>2, <1>3, FS_CardinalityType
<1>5. Cardinality(S \ T) = Cardinality(S) - Cardinality(S \cap T)
  BY <1>2, <1>3, FS_Difference
<1>6. S \cap T = T
  OBVIOUS
<1> QED BY <1>2, <1>3, <1>4, <1>5, <1>6

\* Pruning takes as many as are too many, and never the newest.
LEMMA VictimsAreOldest ==
  ASSUME NEW S \in SUBSET Ids, Cardinality(S) > MaxStored,
         NEW V, V = {id \in S : Rank(S, id) <= Cardinality(S) - MaxStored}
  PROVE  /\ Cardinality(S \ V) = MaxStored
         /\ \A l : (\A i \in S : i <= l) => l \notin V
<1> DEFINE n == Cardinality(S)
<1>0. S \in SUBSET S
  OBVIOUS
<1>1. S \in SUBSET Nat /\ IsFiniteSet(S) /\ n \in Nat
  <2>1. IsFiniteSet(S) /\ n \in Nat
    BY <1>0, ReportCount
  <2> QED BY <2>1, OutboxAssumption DEF Ids
<1>2. n - MaxStored \in Nat /\ n - MaxStored <= n /\ n - MaxStored < n
  BY <1>1, OutboxAssumption
<1>3. Cardinality(V) = n - MaxStored
  BY <1>1, <1>2, RankCount
<1>4. Cardinality(S \ V) = n - Cardinality(V)
  BY ReportCount
<1>5. ASSUME NEW l, \A i \in S : i <= l, l \in V PROVE FALSE
  <2>1. {j \in S : j <= l} = S
    BY <1>5
  <2> QED BY <1>1, <1>2, <1>5, <2>1 DEF Rank
<1> QED BY <1>1, <1>2, <1>3, <1>4, <1>5, OutboxAssumption

\* No step but an append makes the directory larger, and that one is pruned.
LEMMA PruneNext == TypeInv /\ MadeInv /\ PruneInv /\ [Next]_vars => PruneInv'
<1> SUFFICES ASSUME TypeInv, MadeInv, PruneInv, [Next]_vars PROVE PruneInv'
  OBVIOUS
<1> USE DEF PruneInv
<1>0. /\ lastId \in Nat /\ files \subseteq Ids /\ files \subseteq 1 .. lastId
      /\ pruned \subseteq 1 .. lastId /\ victims \subseteq 1 .. lastId /\ "updater" \in DOMAIN pc
      /\ Cardinality(files) \in Nat /\ MaxStored \in Nat
  <2>1. files \in SUBSET Ids /\ files \in SUBSET files
    BY DEF TypeInv, TypeOK
  <2>2. Cardinality(files) \in Nat
    BY <2>1, ReportCount
  <2> QED BY <2>2, OutboxAssumption DEF TypeInv, TypeOK, Ids, MadeInv, Procs
<1>1. CASE UNCHANGED vars
  BY <1>1 DEF vars, disk, updater, history
<1>2. ASSUME NEW id \in Ids, NEW r \in Refusals \cup {NoRefusal}, AppendReport(id, r) \/ AppendUnconfirmed(id, r)
      PROVE  PruneInv'
  <2>1. Numbered(id, r) /\ (Fresh(id, r) \/ Requeued(id, r))
    BY <1>2 DEF AppendReport, AppendUnconfirmed
  <2>2. lastId' \in {lastId, lastId + 1}
    BY <2>1, NumberedType
  <2>3. /\ pc["updater"] = "idle" /\ pc'["updater"] \in {"idle", "prune"}
        /\ UNCHANGED <<pruned, victims, stuck>>
    BY <1>0, <1>2 DEF AppendReport, AppendUnconfirmed, Go, history, updater
  <2>4. lastId + 1 \notin 1 .. lastId
    BY <1>0
  <2> QED BY <1>0, <2>2, <2>3, <2>4
<1>3. CASE ClearRefusal \/ \E id \in Ids : Damage(id)
  BY <1>3 DEF ClearRefusal, Damage, updater, history
<1>4. CASE PruneList
  <2>0. stuck = {} /\ files \ stuck = files
    BY <1>4 DEF PruneList
  <2>1. UNCHANGED <<files, lastId, pruned>>
    BY <1>4 DEF PruneList, disk, history
  <2>2. CASE Cardinality(files) <= MaxStored /\ UNCHANGED <<victims, stuck>> /\ pc'["updater"] = "mark"
    BY <1>0, <2>0, <2>1, <2>2
  <2>3. CASE /\ Cardinality(files) > MaxStored /\ UNCHANGED stuck /\ pc'["updater"] = "remove"
             /\ victims' = {id \in files : Rank(files, id) <= Cardinality(files) - MaxStored}
    <3>1. \A i \in files : i <= lastId
      BY <1>0
    <3>2. Cardinality(files \ victims') = MaxStored /\ lastId \notin victims'
      BY <1>0, <2>3, <3>1, VictimsAreOldest
    <3>3. files' \ (victims' \cup stuck') = files \ victims'
      BY <2>0, <2>1, <2>3
    <3>4. Cardinality(files' \ (victims' \cup stuck')) <= MaxStored
      BY <1>0, <3>2, <3>3
    <3> QED BY <2>1, <2>3, <3>2, <3>4
  <2>4. CASE stuck' = files /\ UNCHANGED victims /\ pc'["updater"] = "mark"
    <3>1. files' \ stuck' = {}
      BY <2>1, <2>4
    <3>2. Cardinality({}) = 0
      BY FS_EmptySet
    <3> QED BY <1>0, <2>1, <2>4, <3>1, <3>2
  <2> QED BY <1>0, <1>4, <2>2, <2>3, <2>4 DEF PruneList, Go
<1>5. CASE PruneRemove
  <2>1. /\ UNCHANGED <<pc, lastId>> /\ pc["updater"] = "remove"
        /\ files' \ (victims' \cup stuck') \subseteq files \ (victims \cup stuck)
        /\ victims' \subseteq victims /\ pruned' \subseteq pruned \cup victims
    <3>1. victims \in SUBSET Nat /\ victims # {}
      BY <1>5, OutboxAssumption DEF PruneRemove, TypeInv, TypeOK, Ids
    <3>2. Min(victims) \in victims
      BY <3>1, MinProperties
    <3> QED BY <1>5, <3>2 DEF PruneRemove
  <2>2. /\ Cardinality(files' \ (victims' \cup stuck')) <= Cardinality(files \ (victims \cup stuck))
        /\ Cardinality(files' \ (victims' \cup stuck')) \in Nat
        /\ Cardinality(files \ (victims \cup stuck)) \in Nat
    BY <1>0, <2>1, ReportCount
  <2> QED BY <1>0, <2>1, <2>2
<1>6. CASE PruneDone
  <2>1. /\ UNCHANGED <<files, lastId, pruned, victims, stuck>> /\ victims = {} /\ pc["updater"] = "remove"
        /\ pc'["updater"] \in {"mark", "lock"}
    BY <1>0, <1>6 DEF PruneDone, Go, disk, updater, history
  <2>2. files \ (victims \cup stuck) = files \ stuck
    BY <2>1
  <2> QED BY <2>1, <2>2
<1>7. CASE MarkRefusal
  BY <1>0, <1>7 DEF MarkRefusal, Go, history
<1>8. ASSUME NEW p \in Procs, AddStep(p) PROVE PruneInv'
  <2>1. /\ pc'["updater"] # "remove" \/ pc'["updater"] = pc["updater"]
        /\ pc'["updater"] \in {"lock", "add", "write", "mark"} =>
             pc["updater"] \in {"lock", "add", "write", "mark"}
        /\ pc'["updater"] \in {"idle", "prune"} => pc["updater"] \in {"idle", "prune"}
    BY <1>8, AddFrame, AfterAddIs DEF Procs
  <2> QED BY <1>8, <2>1, AddFrame
<1>9. ASSUME NEW p \in Procs, Crash(p) PROVE PruneInv'
  <2>1. UNCHANGED <<files, lastId, pruned>>
    BY <1>9, CrashFrame
  <2>2. CASE p = "updater"
    BY <1>9, <2>1, <2>2, CrashFrame
  <2>3. CASE p = "sender"
    <3>1. UNCHANGED <<victims, stuck>> /\ pc'["updater"] = pc["updater"]
      BY <1>9, <2>3, CrashFrame DEF Procs
    <3> QED BY <2>1, <3>1
  <2> QED BY <2>2, <2>3 DEF Procs
<1>10. CASE \/ DrainStart \/ ClaimLock \/ Recover \/ Fold \/ Unclaim \/ Rename
            \/ Read \/ Send \/ RemoveSent \/ ReleaseDropped
  <2>1. /\ UNCHANGED <<lastId, victims, stuck, pruned>> /\ files' \subseteq files
        /\ pc'["updater"] = pc["updater"]
    BY <1>10, SenderFrame
  <2>2. /\ Cardinality(files' \ stuck) \in Nat /\ Cardinality(files \ stuck) \in Nat
        /\ Cardinality(files' \ stuck) <= Cardinality(files \ stuck)
    BY <1>0, <2>1, ReportCount
  <2>3. /\ Cardinality(files' \ (victims \cup stuck)) \in Nat /\ Cardinality(files \ (victims \cup stuck)) \in Nat
        /\ Cardinality(files' \ (victims \cup stuck)) <= Cardinality(files \ (victims \cup stuck))
    BY <1>0, <2>1, ReportCount
  <2> QED BY <1>0, <2>1, <2>2, <2>3
<1> QED BY <1>1, <1>2, <1>3, <1>4, <1>5, <1>6, <1>7, <1>8, <1>9, <1>10, WhoSteps

\* An append that runs to its end leaves the directory within maxStoredReports but for
\* the reports that very append could not remove, and has not thrown away the newest
\* report, whatever earlier appends left behind and whatever the sender removed while
\* pruneReports was at work on its list.
THEOREM DirectoryIsBoundedHolds == Spec => DirectoryIsBounded
<1> DEFINE Bounded == pc["updater"] # "idle" /\ pc'["updater"] = "idle" /\ faults' = faults =>
                        Cardinality(files' \ stuck) <= MaxStored /\ lastId' \notin pruned'
<1>1. ASSUME TypeInv, PruneInv, [Next]_vars PROVE Bounded \/ UNCHANGED vars
  <2>0. "updater" \in DOMAIN pc
    BY <1>1 DEF TypeInv, TypeOK, Procs
  <2>1. CASE \E id \in Ids, r \in Refusals \cup {NoRefusal} : AppendReport(id, r) \/ AppendUnconfirmed(id, r)
    BY <2>1 DEF AppendReport, AppendUnconfirmed
  <2>2. CASE ClearRefusal \/ (\E id \in Ids : Damage(id)) \/ PruneRemove
    BY <2>2 DEF ClearRefusal, Damage, PruneRemove
  <2>3. CASE PruneList \/ PruneDone
    BY <2>0, <2>3 DEF PruneList, PruneDone, Go
  <2>4. CASE MarkRefusal
    BY <1>1, <2>4 DEF MarkRefusal, PruneInv, history
  <2>5. ASSUME NEW p \in Procs, AddStep(p) PROVE Bounded
    <3>1. pc["updater"] # "idle" => pc'["updater"] # "idle"
      BY <1>1, <2>5, AddFrame, AfterAddIs DEF Procs
    <3> QED BY <3>1
  <2>6. ASSUME NEW p \in Procs, Crash(p) PROVE Bounded
    BY <1>1, <2>6, CrashFrame
  <2>7. CASE \/ DrainStart \/ ClaimLock \/ Recover \/ Fold \/ Unclaim \/ Rename
             \/ Read \/ Send \/ RemoveSent \/ ReleaseDropped
    BY <1>1, <2>7, SenderFrame
  <2> QED BY <1>1, <2>1, <2>2, <2>3, <2>4, <2>5, <2>6, <2>7, WhoSteps
<1>2. TypeInv /\ PruneInv /\ [Next]_vars => [Bounded]_vars
  BY <1>1
<1> QED BY <1>2, TypeInit, TypeNext, MadeInit, MadeNext, PruneInit, PruneNext, PTL DEF Spec, DirectoryIsBounded

-----------------------------------------------------------------------------
(* The ledger, its lock and its claim.                                      *)

\* The steps of ClaimDropped under the lock.
Claiming == {"recover", "fold", "unclaim", "rename"}

\* Whoever is reading or writing the ledger holds its lock.
LockInv ==
  /\ pc["updater"] \in {"add", "write"} => ledgerLock = "updater"
  /\ pc["sender"] \in Claiming \cup {"add", "write"} => ledgerLock = "sender"

\* A process has drops in hand only on its way to add them; while it holds a sum to
\* write, the ledger it was read from is empty.
HandInv ==
  /\ pc["updater"] \notin {"remove", "lock", "add"} => count["updater"] = None
  /\ pc["sender"] \notin {"lock", "add"} => count["sender"] = None
  /\ pc["updater"] # "write" => total["updater"] = None
  /\ pc["sender"] \notin {"write", "fold"} => total["sender"] = None
  /\ pc["updater"] = "write" => ledger = None
  /\ pc["sender"] \in {"write", "fold"} => ledger = None

\* What the sender is to declare is what its claim says; a claim is deleted after a
\* fold only when the ledger has it.
ClaimInv ==
  /\ claimed => pc["sender"] \in {"read", "send", "sent", "release"}
  /\ ~claimed => dropped = None
  /\ claimed /\ dropped # None => dropped = InFile(claim)
  /\ pc["sender"] = "fold" => \A i \in Ids : InFile(claim)[i] <= total["sender"][i]
  /\ pc["sender"] = "unclaim" => \A i \in Ids : InFile(claim)[i] <= InFile(ledger)[i]

LedgerInv == LockInv /\ HandInv /\ ClaimInv

\* Nobody holds anything at first.
LEMMA LedgerInit == Init => LedgerInv
BY DEF Init, LedgerInv, LockInv, HandInv, ClaimInv, Procs, Claiming

\* The updater's steps outside addDropped.
LEMMA LedgerUpdater ==
  ASSUME TypeInv, LedgerInv,
         \/ \E id \in Ids, r \in Refusals \cup {NoRefusal} : AppendReport(id, r) \/ AppendUnconfirmed(id, r)
         \/ ClearRefusal \/ PruneList \/ PruneRemove \/ PruneDone \/ MarkRefusal
         \/ \E id \in Ids : Damage(id)
  PROVE  LedgerInv'
<1>1. /\ UNCHANGED <<ledger, claim, ledgerLock, names, claimed, dropped, edge, declared, total>>
      /\ pc'["sender"] = pc["sender"] /\ count'["sender"] = count["sender"]
  BY UpdaterFrame
<1>2. \/ UNCHANGED <<pc, count>>
      \/ /\ pc["updater"] \notin {"add", "write"} /\ pc'["updater"] \notin {"add", "write"}
         /\ pc'["updater"] \notin {"remove", "lock", "add"} => count'["updater"] = None
  BY DEF AppendReport, AppendUnconfirmed, ClearRefusal, PruneList, PruneRemove, PruneDone, MarkRefusal, Damage,
     Go, TypeInv, TypeOK, Procs, LedgerInv, HandInv
<1>3. ClaimInv'
  BY <1>1 DEF LedgerInv, ClaimInv
<1>4. LockInv' /\ HandInv'
  BY <1>1, <1>2 DEF LedgerInv, LockInv, HandInv
<1> QED BY <1>3, <1>4 DEF LedgerInv

\* addDropped and a crash, in either process.
LEMMA LedgerAdd ==
  ASSUME TypeInv, LedgerInv, NEW p \in Procs, AddStep(p) \/ Crash(p)
  PROVE  LedgerInv'
<1> USE DEF LedgerInv, Procs
<1>0. /\ pc \in [Procs -> UpdaterPCs \cup SenderPCs] /\ count \in [Procs -> Tallies] /\ total \in [Procs -> Tallies]
      /\ pc["updater"] \in UpdaterPCs /\ pc["sender"] \in SenderPCs
  BY DEF TypeInv, TypeOK
<1>1. CASE AddStep(p)
  <2>1. /\ UNCHANGED <<claim, claimed, dropped>>
        /\ \A q \in Procs \ {p} : pc'[q] = pc[q] /\ count'[q] = count[q] /\ total'[q] = total[q]
        /\ <<pc[p], pc'[p]>> \in {<<"lock", "add">>, <<"lock", AfterAdd[p]>>, <<"add", "write">>,
                                  <<"add", AfterAdd[p]>>, <<"write", AfterAdd[p]>>}
    BY <1>1, AddFrame
  <2>2. LockInv'
    BY <1>0, <1>1, AfterAddIs DEF AddStep, LockLedger, LockTimesOut, ReadAndTruncate, WriteLedger,
       WriteLedgerFails, LockInv, Go, Claiming
  <2>3. HandInv'
    <3>1. CASE LockLedger(p)
      BY <1>0, <3>1 DEF LockLedger, HandInv, LockInv, Go, disk
    <3>2. CASE LockTimesOut(p)
      BY <1>0, <3>2, AfterAddIs DEF LockTimesOut, HandInv, LockInv, Go, disk
    <3>3. CASE ReadAndTruncate(p)
      BY <1>0, <3>3 DEF ReadAndTruncate, HandInv, LockInv, Go
    <3>4. CASE WriteLedger(p)
      BY <1>0, <3>4, AfterAddIs DEF WriteLedger, HandInv, LockInv, Claiming, Go
    <3>5. CASE WriteLedgerFails(p)
      BY <1>0, <3>5, AfterAddIs DEF WriteLedgerFails, HandInv, LockInv, Go
    <3> QED BY <1>1, <3>1, <3>2, <3>3, <3>4, <3>5 DEF AddStep
  <2>4. ClaimInv'
    <3>1. pc'["sender"] \notin {"fold", "unclaim"} \/ (p = "updater" /\ pc'["sender"] = pc["sender"])
      BY <2>1, AfterAddIs
    <3>2. claimed => pc'["sender"] = pc["sender"]
      BY <2>1 DEF ClaimInv
    <3>3. p = "updater" /\ pc["sender"] = "unclaim" => UNCHANGED ledger
      BY <1>0, <1>1 DEF AddStep, LockLedger, LockTimesOut, ReadAndTruncate, WriteLedger, WriteLedgerFails,
         LockInv, Claiming, disk
    <3>4. p = "updater" => total'["sender"] = total["sender"]
      BY <2>1
    <3> QED BY <2>1, <3>1, <3>2, <3>3, <3>4 DEF ClaimInv
  <2> QED BY <2>2, <2>3, <2>4
<1>2. CASE Crash(p)
  <2>1. /\ UNCHANGED <<ledger, claim>>
        /\ ledgerLock' = IF ledgerLock = p THEN "free" ELSE ledgerLock
        /\ pc'[p] = "idle" /\ count'[p] = None /\ total'[p] = None
    BY <1>2, CrashFrame
  <2>2. CASE p = "updater"
    <3>1. /\ UNCHANGED <<claimed, dropped>>
          /\ pc'["sender"] = pc["sender"] /\ count'["sender"] = count["sender"] /\ total'["sender"] = total["sender"]
      BY <1>2, <2>2, CrashFrame
    <3> QED BY <2>1, <2>2, <3>1 DEF LockInv, HandInv, ClaimInv
  <2>3. CASE p = "sender"
    <3>1. /\ claimed' = FALSE /\ dropped' = None
          /\ pc'["updater"] = pc["updater"] /\ count'["updater"] = count["updater"]
          /\ total'["updater"] = total["updater"]
      BY <1>2, <2>3, CrashFrame
    <3> QED BY <2>1, <2>3, <3>1 DEF LockInv, HandInv, ClaimInv, Claiming
  <2> QED BY <2>2, <2>3
<1> QED BY <1>1, <1>2

\* The sender's steps outside addDropped.
LEMMA LedgerSender ==
  ASSUME TypeInv, LedgerInv,
         \/ DrainStart \/ ClaimLock \/ Recover \/ Fold \/ Unclaim \/ Rename
         \/ Read \/ Send \/ RemoveSent \/ ReleaseDropped
  PROVE  LedgerInv'
<1> USE DEF LedgerInv, Go, sender, disk, Claiming
<1>0. /\ pc \in [Procs -> UpdaterPCs \cup SenderPCs] /\ count \in [Procs -> Tallies] /\ total \in [Procs -> Tallies]
      /\ "updater" \in Procs /\ "sender" \in Procs
      /\ InFile(ledger) \in Tallies /\ InFile(claim) \in Tallies
  BY InFileType DEF TypeInv, TypeOK, Procs
<1>1. /\ pc'["updater"] = pc["updater"] /\ count'["updater"] = count["updater"]
      /\ total'["updater"] = total["updater"]
  BY SenderFrame
<1>2. CASE DrainStart
  BY <1>0, <1>1, <1>2 DEF DrainStart, LockInv, HandInv, ClaimInv
<1>3. CASE ClaimLock
  BY <1>0, <1>1, <1>3 DEF ClaimLock, LockInv, HandInv, ClaimInv
<1>4. CASE Recover
  <2>1. LockInv'
    BY <1>0, <1>1, <1>4 DEF Recover, LockInv
  <2>2. HandInv'
    BY <1>0, <1>1, <1>4 DEF Recover, LockInv, HandInv
  <2>3. pc'["sender"] = "fold" => \A i \in Ids : InFile(claim)[i] <= total'["sender"][i]
    <3> SUFFICES ASSUME pc'["sender"] = "fold" PROVE \A i \in Ids : InFile(claim)[i] <= total'["sender"][i]
      OBVIOUS
    <3>1. InFile(claim) # None /\ total'["sender"] = Plus(InFile(ledger), claim)
      BY <1>0, <1>4 DEF Recover
    <3>2. InFile(claim) = claim
      BY <3>1 DEF InFile
    <3>3. \A i \in Ids : InFile(ledger)[i] \in Nat /\ InFile(claim)[i] \in Nat
      BY <1>0 DEF Tallies
    <3> QED BY <1>0, <3>1, <3>2, <3>3, TallyTypes
  <2>4. pc'["sender"] \in {"rename", "fold"} /\ UNCHANGED <<claimed, dropped>> /\ ~claimed
    BY <1>0, <1>4 DEF Recover, ClaimInv
  <2>5. pc'["sender"] = "fold" => UNCHANGED claim
    BY <1>0, <1>4 DEF Recover
  <2>6. ClaimInv'
    BY <2>3, <2>4, <2>5 DEF ClaimInv
  <2> QED BY <2>1, <2>2, <2>6
<1>5. CASE Fold
  <2>1. LockInv' /\ HandInv'
    BY <1>0, <1>1, <1>5 DEF Fold, LockInv, HandInv
  <2>2. InFile(total["sender"]) = total["sender"]
    BY <1>0, InFileType
  <2>3. ClaimInv'
    BY <1>0, <1>5, <2>2 DEF Fold, ClaimInv
  <2> QED BY <2>1, <2>3
<1>6. CASE Unclaim
  BY <1>0, <1>1, <1>6 DEF Unclaim, LockInv, HandInv, ClaimInv
<1>7. CASE Rename
  <2>1. LockInv' /\ HandInv'
    BY <1>0, <1>1, <1>7 DEF Rename, LockInv, HandInv
  <2>2. CASE dropped' = InFile(ledger) /\ claimed' = (InFile(ledger) # None) /\ ~UNCHANGED <<claim, claimed, dropped>>
    <3>1. InFile(ledger) # None => InFile(claim') = InFile(ledger)
      BY <1>7, <2>2 DEF Rename, InFile
    <3>2. pc'["sender"] = "read"
      BY <1>0, <1>7 DEF Rename
    <3> QED BY <2>1, <2>2, <3>1, <3>2 DEF ClaimInv
  <2>3. CASE UNCHANGED <<claim, claimed, dropped>>
    <3>1. pc'["sender"] = "read" /\ ~claimed
      BY <1>0, <1>7 DEF Rename, ClaimInv
    <3> QED BY <2>1, <2>3, <3>1 DEF ClaimInv
  <2> QED BY <1>7, <2>2, <2>3 DEF Rename
<1>8. CASE Read
  BY <1>0, <1>1, <1>8 DEF Read, LockInv, HandInv, ClaimInv
<1>9. CASE Send
  <2>1. /\ UNCHANGED <<ledger, claim, ledgerLock, claimed>>
        /\ pc["sender"] = "send" /\ pc'["sender"] \in {"sent", "release"} /\ dropped' \in {dropped, None}
    BY <1>9, SendEffect
  <2>2. count' = count /\ total' = total
    BY <1>9 DEF Send
  <2> QED BY <1>1, <2>1, <2>2 DEF LockInv, HandInv, ClaimInv
<1>10. CASE RemoveSent
  BY <1>0, <1>1, <1>10 DEF RemoveSent, LockInv, HandInv, ClaimInv
<1>11. CASE ReleaseDropped
  <2>1. LockInv'
    BY <1>0, <1>1, <1>11 DEF ReleaseDropped, LockInv
  <2>2. HandInv'
    BY <1>0, <1>1, <1>11 DEF ReleaseDropped, HandInv
  <2>3. pc'["sender"] \in {"lock", "idle"} /\ claimed' = FALSE /\ dropped' = None
    BY <1>0, <1>11 DEF ReleaseDropped
  <2>4. ClaimInv'
    BY <2>3 DEF ClaimInv
  <2> QED BY <2>1, <2>2, <2>4
<1> QED BY <1>2, <1>3, <1>4, <1>5, <1>6, <1>7, <1>8, <1>9, <1>10, <1>11

\* Every step keeps the ledger in order.
LEMMA LedgerNext == TypeInv /\ LedgerInv /\ [Next]_vars => LedgerInv'
<1> SUFFICES ASSUME TypeInv, LedgerInv, [Next]_vars PROVE LedgerInv'
  OBVIOUS
<1>1. CASE UNCHANGED vars
  BY <1>1 DEF LedgerInv, LockInv, HandInv, ClaimInv, vars, disk, sender
<1> QED BY <1>1, WhoSteps, LedgerUpdater, LedgerAdd, LedgerSender

-----------------------------------------------------------------------------
(* Gaps are visible.                                                        *)

\* While no fault could lose a count, a report is sent to the Edge once.
OnceInv ==
  faults.harm < 2 =>
    /\ pc["sender"] # "sent" => files \cap ToSet(edge) = {}
    /\ pc["sender"] = "sent" => (files \cup names) \cap ToSet(edge) \subseteq {Min(names)}
    /\ pc["sender"] \in Claiming \cup {"claim", "read", "send"} => names \cap ToSet(edge) = {}

\* Nothing has been sent at first.
LEMMA OnceInit == Init => OnceInv
BY DEF Init, OnceInv, ToSet, Procs

\* A report is in the directory again only by a fault that repeats it.
LEMMA OnceNext == TypeInv /\ MadeInv /\ OnceInv /\ [Next]_vars => OnceInv'
<1> SUFFICES ASSUME TypeInv, MadeInv, OnceInv, [Next]_vars, faults'.harm < 2 PROVE OnceInv'
  BY DEF OnceInv
<1>0. /\ faults \in [n : 0 .. MaxFaults, harm : Harms] /\ faults.harm \in Nat /\ lastId \in Nat
      /\ "sender" \in DOMAIN pc /\ faults'.harm \in Nat
  <2>1. TypeInv'
    BY TypeNext
  <2> QED BY <2>1, OutboxAssumption DEF TypeInv, TypeOK, Ids, Harms, Procs
<1>1. CASE UNCHANGED vars
  BY <1>1 DEF OnceInv, vars, disk, sender, history
<1>2. ASSUME NEW id \in Ids, NEW r \in Refusals \cup {NoRefusal}, AppendReport(id, r) \/ AppendUnconfirmed(id, r)
      PROVE  OnceInv'
  <2>1. faults'.harm >= faults.harm /\ UNCHANGED <<names, edge>> /\ pc'["sender"] = pc["sender"]
    BY <1>2, UpdaterFrame
  <2>2. Fresh(id, r)
    <3>1. ~Fault("retry")
      <4>1. HarmOf("retry") = 2
        BY DEF HarmOf
      <4> QED BY <1>0, <4>1, FaultType
    <3> QED BY <1>2, <3>1 DEF AppendReport, AppendUnconfirmed
  <2>3. id \notin ToSet(edge)
    BY <1>0, <2>2 DEF Fresh, MadeInv
  <2>4. files' = files \cup {id}
    BY <1>2 DEF AppendReport, AppendUnconfirmed
  <2>5. faults.harm < 2
    BY <1>0, <2>1
  <2> QED BY <2>1, <2>3, <2>4, <2>5 DEF OnceInv
<1>3. CASE ClearRefusal \/ PruneList \/ PruneRemove \/ PruneDone \/ MarkRefusal \/ \E id \in Ids : Damage(id)
  <2>1. faults'.harm >= faults.harm /\ UNCHANGED <<names, edge>> /\ pc'["sender"] = pc["sender"]
    BY <1>3, UpdaterFrame
  <2>2. files' \subseteq files
    BY <1>3 DEF ClearRefusal, PruneList, PruneRemove, PruneDone, MarkRefusal, Damage, disk
  <2>3. faults.harm < 2
    BY <1>0, <2>1
  <2> QED BY <2>1, <2>2, <2>3 DEF OnceInv
<1>4. ASSUME NEW p \in Procs, AddStep(p) PROVE OnceInv'
  <2>1. faults'.harm >= faults.harm /\ UNCHANGED <<files, names, edge>>
    BY <1>4, AddFrame
  <2>2. \/ pc'["sender"] = pc["sender"]
        \/ pc["sender"] # "sent" /\ pc'["sender"] \in {"idle", "add", "write"}
    BY <1>4, AddFrame, AfterAddIs DEF Procs
  <2>3. faults.harm < 2
    BY <1>0, <2>1
  <2> QED BY <2>1, <2>2, <2>3 DEF OnceInv, Claiming
<1>5. ASSUME NEW p \in Procs, Crash(p) PROVE OnceInv'
  <2>1. faults'.harm >= faults.harm /\ faults'.harm >= CrashHarm(p, pc[p]) /\ UNCHANGED <<files, edge>>
    BY <1>5, CrashFrame
  <2>2. CrashHarm(p, pc[p]) # 2
    BY <1>0, <2>1, HarmTypes
  <2>3. p = "sender" /\ pc["sender"] # "sent" /\ pc'["sender"] = "idle"
    BY <1>5, <2>2, CrashFrame DEF CrashHarm
  <2>4. faults.harm < 2
    BY <1>0, <2>1
  <2> QED BY <2>1, <2>3, <2>4 DEF OnceInv, Claiming
<1>6. CASE DrainStart \/ ClaimLock \/ Recover \/ Fold \/ Unclaim \/ Rename \/ ReleaseDropped
  <2>1. faults'.harm >= faults.harm /\ UNCHANGED <<files, edge>>
    BY <1>6, SenderFrame DEF DrainStart, ClaimLock, Recover, Fold, Unclaim, Rename, ReleaseDropped, disk, history
  <2>2. pc["sender"] # "sent" /\ pc'["sender"] # "sent"
    BY <1>0, <1>6 DEF DrainStart, ClaimLock, Recover, Fold, Unclaim, Rename, ReleaseDropped, Go
  <2>3. \/ names' \in {files, {}}
        \/ names' = names /\ pc["sender"] \in Claiming \cup {"claim"}
    BY <1>6 DEF DrainStart, ClaimLock, Recover, Fold, Unclaim, Rename, ReleaseDropped, sender, Claiming
  <2>4. faults.harm < 2
    BY <1>0, <2>1
  <2> QED BY <2>1, <2>2, <2>3, <2>4 DEF OnceInv
<1>7. CASE Read
  <2>1. UNCHANGED edge /\ files' \subseteq files /\ names' \subseteq names
    BY <1>7 DEF Read, history
  <2>2. pc["sender"] = "read" /\ pc'["sender"] \in {"read", "send", "release"}
    BY <1>0, <1>7 DEF Read, Go
  <2>3. faults.harm < 2
    BY <1>0, <1>7, SenderFrame
  <2> QED BY <2>1, <2>2, <2>3 DEF OnceInv
<1>8. CASE Send
  <2>1. pc["sender"] = "send" /\ UNCHANGED <<files, names>> /\ faults'.harm >= faults.harm
    BY <1>8, SendEffect, SenderFrame
  <2>2. ~Fault("answer")
    <3>1. HarmOf("answer") = 2
      BY DEF HarmOf
    <3> QED BY <1>0, <3>1, FaultType
  <2>3. faults.harm < 2
    BY <1>0, <2>1
  <2>4. CASE pc'["sender"] = "sent"
    <3>1. ToSet(edge') = ToSet(edge) \cup {Min(names)}
      BY <1>8, <2>4, SendEffect
    <3> QED BY <2>1, <2>3, <2>4, <3>1 DEF OnceInv, Claiming
  <2>5. CASE pc'["sender"] = "release"
    <3>1. UNCHANGED edge
      BY <1>0, <1>8, <2>2, <2>5 DEF Send, Go
    <3> QED BY <2>1, <2>3, <2>5, <3>1 DEF OnceInv, Claiming
  <2> QED BY <1>8, <2>4, <2>5, SendEffect
<1>9. CASE RemoveSent
  <2>1. ~Fault("remove")
    <3>1. HarmOf("remove") = 2
      BY DEF HarmOf
    <3> QED BY <1>0, <3>1, FaultType
  <2>2. pc["sender"] = "sent" /\ UNCHANGED edge /\ UNCHANGED faults /\ pc'["sender"] \in {"read", "release"}
    BY <1>0, <1>9, <2>1 DEF RemoveSent, Go, history
  <2>3. CASE pc'["sender"] = "read"
    <3>1. files' = files \ {Min(names)} /\ names' = names \ {Min(names)}
      BY <1>0, <1>9, <2>3 DEF RemoveSent, Go
    <3> QED BY <2>2, <2>3, <3>1 DEF OnceInv
  <2>4. CASE pc'["sender"] = "release"
    <3>1. Min(names) \notin files /\ UNCHANGED <<files, names>>
      BY <1>0, <1>9, <2>1, <2>4 DEF RemoveSent, Go
    <3> QED BY <2>2, <2>4, <3>1 DEF OnceInv, Claiming
  <2> QED BY <2>2, <2>3, <2>4
<1> QED BY <1>1, <1>2, <1>3, <1>4, <1>5, <1>6, <1>7, <1>8, <1>9, WhoSteps

\* While no fault could lose a count, a claim is overwritten only by a ledger that has
\* every drop in it, and is deleted only with every drop in it declared.
GapInv ==
  /\ NoSilentGap
  /\ faults.harm < 2 =>
       /\ pc["sender"] = "rename" => \A i \in Ids : InFile(claim)[i] > 0 => InFile(ledger)[i] > 0
       /\ claimed /\ dropped = None => \A i \in Ids : InFile(claim)[i] > 0 => declared[i] > 0

\* Nothing has been dropped at first.
LEMMA GapInit == Init => GapInv
BY DEF Init, GapInv, NoSilentGap, Procs

\* Counts are numbers.
LEMMA CountTypes ==
  ASSUME TypeInv
  PROVE  /\ \A i \in Ids : /\ InFile(ledger)[i] \in Nat /\ InFile(claim)[i] \in Nat
                           /\ declared[i] \in Nat /\ dropped[i] \in Nat
                           /\ \A p \in Procs : count[p][i] \in Nat /\ total[p][i] \in Nat
         /\ InFile(ledger) \in Tallies /\ InFile(claim) \in Tallies /\ declared \in Tallies /\ dropped \in Tallies
         /\ \A p \in Procs : count[p] \in Tallies /\ total[p] \in Tallies
<1>1. /\ InFile(ledger) \in Tallies /\ InFile(claim) \in Tallies /\ declared \in Tallies /\ dropped \in Tallies
      /\ \A p \in Procs : count[p] \in Tallies /\ total[p] \in Tallies
  BY InFileType DEF TypeInv, TypeOK
<1> QED BY <1>1 DEF Tallies

\* No step that does not lose a count makes a known drop unknown.
LEMMA KnownStays ==
  ASSUME TypeInv, LedgerInv, OnceInv, GapInv, [Next]_vars, TypeInv', faults'.harm < 2,
         NEW i \in Ids, Known(i)
  PROVE  Known(i)'
<1> USE DEF Procs
<1>0. /\ faults \in [n : 0 .. MaxFaults, harm : Harms] /\ faults.harm \in Nat /\ faults'.harm \in Nat
      /\ pc \in [Procs -> UpdaterPCs \cup SenderPCs] /\ count \in [Procs -> Tallies] /\ total \in [Procs -> Tallies]
  BY DEF TypeInv, TypeOK, Harms
<1>a. /\ InFile(ledger)[i] \in Nat /\ InFile(claim)[i] \in Nat /\ declared[i] \in Nat /\ dropped[i] \in Nat
      /\ \A p \in Procs : count[p][i] \in Nat /\ total[p][i] \in Nat
      /\ InFile(ledger) \in Tallies /\ InFile(claim) \in Tallies /\ declared \in Tallies /\ dropped \in Tallies
      /\ \A p \in Procs : count[p] \in Tallies /\ total[p] \in Tallies
  BY CountTypes
<1>b. ~Fault("timeout") /\ ~Fault("write") /\ ~Fault("disk") /\ ~Fault("answer")
  <2>1. HarmOf("timeout") = 2 /\ HarmOf("write") = 2 /\ HarmOf("disk") = 2 /\ HarmOf("answer") = 2
    BY DEF HarmOf
  <2> QED BY <1>0, <2>1, FaultType
<1>c. None[i] = 0 /\ None \in Tallies /\ InFile(None) = None /\ InFile(NoFile) = None
  BY TallyTypes, InFileType
<1>d. \A a, b \in Tallies : Plus(a, b)[i] = a[i] + b[i]
  BY TallyTypes
<1>1. CASE UNCHANGED vars
  BY <1>1 DEF Known, vars, disk, history
<1>2. CASE \/ \E id \in Ids, r \in Refusals \cup {NoRefusal} : AppendReport(id, r) \/ AppendUnconfirmed(id, r)
           \/ ClearRefusal \/ PruneList \/ PruneRemove \/ PruneDone \/ MarkRefusal
           \/ \E id \in Ids : Damage(id)
  <2>1. UNCHANGED <<ledger, claim, declared, total>> /\ count'["sender"] = count["sender"]
    BY <1>2, UpdaterFrame
  <2>2. count' = count \/ PruneRemove
    BY <1>2 DEF AppendReport, AppendUnconfirmed, ClearRefusal, PruneList, PruneDone, MarkRefusal, Damage
  <2>3. count'["updater"][i] >= count["updater"][i]
    <3>1. CASE count' = count
      BY <1>a, <3>1
    <3>2. CASE PruneRemove
      <4> DEFINE id == Min(victims)
      <4>1. count' = count \/ count' = [count EXCEPT !["updater"][id] = @ + 1]
        BY <3>2 DEF PruneRemove
      <4> HIDE DEF id
      <4> QED BY <1>0, <1>a, <4>1 DEF Tallies
    <3> QED BY <2>2, <3>1, <3>2
  <2>4. count'["updater"][i] \in Nat
    BY CountTypes, <1>0 DEF TypeInv, TypeOK, Tallies
  <2> QED BY <1>a, <2>1, <2>3, <2>4 DEF Known
<1>3. ASSUME NEW p \in Procs, AddStep(p) PROVE Known(i)'
  <2>1. /\ UNCHANGED <<claim, declared>>
        /\ \A q \in Procs \ {p} : count'[q] = count[q] /\ total'[q] = total[q]
    BY <1>3, AddFrame
  <2>2. CASE LockLedger(p)
    BY <2>2 DEF LockLedger, Known, disk, history
  <2>3. CASE ReadAndTruncate(p)
    <3>1. total'[p] = Plus(InFile(ledger), count[p]) /\ pc[p] = "add"
      BY <1>0, <2>3 DEF ReadAndTruncate
    <3>2. total[p] = None
      BY <3>1 DEF LedgerInv, HandInv
    <3>3. total'[p][i] = InFile(ledger)[i] + count[p][i]
      BY <1>a, <1>d, <3>1
    <3>4. CASE InFile(ledger)[i] > 0 \/ count[p][i] > 0
      BY <1>a, <3>3, <3>4 DEF Known
    <3>5. CASE \E q \in Procs \ {p} : count[q][i] > 0 \/ total[q][i] > 0
      BY <2>1, <3>5 DEF Known
    <3>6. CASE declared[i] > 0 \/ InFile(claim)[i] > 0
      BY <2>1, <3>6 DEF Known
    <3> QED BY <1>c, <3>2, <3>4, <3>5, <3>6 DEF Known
  <2>4. CASE WriteLedger(p)
    <3>1. ledger' = total[p] /\ pc[p] = "write" /\ count' = count
      BY <2>4 DEF WriteLedger
    <3>2. ledger = None
      BY <3>1 DEF LedgerInv, HandInv
    <3>3. InFile(ledger') = total[p]
      BY <1>a, <3>1, InFileType
    <3>4. CASE total[p][i] > 0
      BY <3>3, <3>4 DEF Known
    <3>5. CASE \E q \in Procs \ {p} : total[q][i] > 0
      BY <2>1, <3>5 DEF Known
    <3>6. CASE declared[i] > 0 \/ InFile(claim)[i] > 0 \/ \E q \in Procs : count[q][i] > 0
      BY <2>1, <3>1, <3>6 DEF Known
    <3> QED BY <1>c, <3>2, <3>4, <3>5, <3>6 DEF Known
  <2> QED BY <1>3, <1>b, <2>2, <2>3, <2>4 DEF AddStep, LockTimesOut, WriteLedgerFails
<1>4. ASSUME NEW p \in Procs, Crash(p) PROVE Known(i)'
  <2>1. /\ UNCHANGED <<ledger, claim, declared>> /\ faults'.harm >= CrashHarm(p, pc[p])
        /\ \A q \in Procs \ {p} : count'[q] = count[q] /\ total'[q] = total[q]
    BY <1>4, CrashFrame
  <2>2. CrashHarm(p, pc[p]) # 2
    BY <1>0, <2>1, HarmTypes
  <2>3. p = "sender" /\ pc["sender"] \notin {"lock", "add", "write", "fold"}
    BY <2>2 DEF CrashHarm
  <2>4. count["sender"] = None /\ total["sender"] = None
    BY <2>3 DEF LedgerInv, HandInv
  <2> QED BY <1>c, <2>1, <2>3, <2>4 DEF Known
<1>5. CASE DrainStart \/ ClaimLock \/ Read \/ RemoveSent
  BY <1>5 DEF DrainStart, ClaimLock, Read, RemoveSent, Known, disk, history
<1>6. CASE Recover
  <2>1. UNCHANGED <<declared, count>> /\ pc["sender"] = "recover" /\ total'["updater"] = total["updater"]
    BY <1>6, SenderFrame DEF Recover, history
  <2>2. CASE InFile(claim) = None
    BY <1>6, <1>b, <1>c, <2>2 DEF Recover, Known, history
  <2>3. CASE InFile(claim) # None
    <3>1. UNCHANGED claim /\ total'["sender"] = Plus(InFile(ledger), claim) /\ InFile(claim) = claim
      BY <1>0, <1>6, <1>b, <2>3 DEF Recover, InFile
    <3>2. total["sender"] = None
      BY <2>1 DEF LedgerInv, HandInv
    <3>3. total'["sender"][i] = InFile(ledger)[i] + InFile(claim)[i]
      BY <1>a, <1>d, <3>1
    <3>4. CASE InFile(ledger)[i] > 0
      BY <1>a, <3>3, <3>4 DEF Known
    <3>5. CASE ~(InFile(ledger)[i] > 0)
      BY <1>c, <2>1, <3>1, <3>2, <3>5 DEF Known
    <3> QED BY <3>4, <3>5
  <2> QED BY <2>2, <2>3
<1>7. CASE Fold
  <2>1. UNCHANGED <<declared, count, claim>> /\ pc["sender"] = "fold" /\ ledger' = total["sender"]
    BY <1>7 DEF Fold, history
  <2>2. total'["updater"] = total["updater"]
    BY <1>7, SenderFrame
  <2>3. ledger = None
    BY <2>1 DEF LedgerInv, HandInv
  <2>4. InFile(ledger') = total["sender"]
    BY <1>a, <2>1, InFileType
  <2> QED BY <1>c, <2>1, <2>2, <2>3, <2>4 DEF Known
<1>8. CASE Unclaim
  <2>1. UNCHANGED <<declared, count, total, ledger>> /\ pc["sender"] = "unclaim" /\ claim' \in {claim, NoFile}
    BY <1>8 DEF Unclaim, history
  <2>2. InFile(claim)[i] <= InFile(ledger)[i]
    BY <2>1 DEF LedgerInv, ClaimInv
  <2>3. CASE InFile(claim)[i] > 0
    BY <1>a, <2>1, <2>2, <2>3 DEF Known
  <2>4. CASE ~(InFile(claim)[i] > 0)
    BY <1>c, <2>1, <2>4 DEF Known
  <2> QED BY <2>3, <2>4
<1>9. CASE Rename
  <2>1. UNCHANGED <<declared, count, total>> /\ pc["sender"] = "rename"
    BY <1>9 DEF Rename, history
  <2>2. InFile(claim)[i] > 0 => InFile(ledger)[i] > 0
    <3>1. faults.harm < 2
      BY <1>0, <1>9, SenderFrame
    <3> QED BY <2>1, <3>1 DEF GapInv
  <2>3. \/ InFile(claim') = InFile(ledger) \/ InFile(ledger) = None
        \/ UNCHANGED <<claim, ledger>>
    BY <1>9 DEF Rename, InFile
  <2>4. CASE UNCHANGED <<claim, ledger>>
    BY <2>1, <2>4 DEF Known
  <2>5. CASE InFile(claim') = InFile(ledger) \/ InFile(ledger) = None
    BY <1>a, <1>c, <2>1, <2>2, <2>5 DEF Known
  <2> QED BY <2>3, <2>4, <2>5
<1>10. CASE Send
  <2>1. UNCHANGED <<ledger, claim, count, total>>
    BY <1>10 DEF Send, disk
  <2>2. declared' = declared \/ declared' = Plus(declared, dropped)
    BY <1>10 DEF Send, EdgeRecords
  <2>3. declared[i] > 0 => declared'[i] > 0
    <3>1. CASE declared' = declared
      BY <3>1
    <3>2. CASE declared' = Plus(declared, dropped)
      <4>1. declared'[i] = declared[i] + dropped[i]
        BY <1>a, <1>d, <3>2
      <4> QED BY <1>a, <4>1
    <3> QED BY <2>2, <3>1, <3>2
  <2> QED BY <2>1, <2>3 DEF Known
<1>11. CASE ReleaseDropped
  <2>0. faults.harm < 2 /\ count'["updater"] = count["updater"]
    BY <1>0, <1>11, SenderFrame
  <2>1. /\ UNCHANGED <<declared, total, ledger>> /\ count'["updater"] = count["updater"]
        /\ claim' \in {claim, NoFile} /\ faults.harm < 2
    BY <1>11, <2>0 DEF ReleaseDropped, history
  <2>2. count["sender"] = None
    BY <1>11 DEF ReleaseDropped, LedgerInv, HandInv
  <2>3. CASE claimed /\ dropped # None
    <3>1. count'["sender"] = InFile(claim)
      BY <1>0, <1>11, <2>3 DEF ReleaseDropped
    <3> QED BY <1>c, <2>1, <2>2, <3>1 DEF Known
  <2>4. CASE claimed /\ dropped = None
    <3>1. InFile(claim)[i] > 0 => declared[i] > 0
      BY <2>1, <2>4 DEF GapInv
    <3> QED BY <1>c, <2>1, <2>2, <3>1 DEF Known
  <2>5. CASE ~claimed
    <3>1. UNCHANGED claim
      BY <1>11, <2>5 DEF ReleaseDropped
    <3> QED BY <1>c, <2>1, <2>2, <3>1 DEF Known
  <2> QED BY <2>3, <2>4, <2>5
<1> QED BY <1>1, <1>2, <1>3, <1>4, <1>5, <1>6, <1>7, <1>8, <1>9, <1>10, <1>11, WhoSteps

\* Every step that does not lose a count keeps the gap visible.
LEMMA GapNext == TypeInv /\ LedgerInv /\ OnceInv /\ GapInv /\ [Next]_vars /\ TypeInv' => GapInv'
<1> SUFFICES ASSUME TypeInv, LedgerInv, OnceInv, GapInv, [Next]_vars, TypeInv', faults'.harm < 2
             PROVE  GapInv'
  BY DEF GapInv, NoSilentGap
<1>0. /\ faults \in [n : 0 .. MaxFaults, harm : Harms] /\ faults.harm \in Nat /\ faults'.harm \in Nat
      /\ pc \in [Procs -> UpdaterPCs \cup SenderPCs] /\ "sender" \in Procs /\ "updater" \in Procs
      /\ count \in [Procs -> Tallies]
  BY DEF TypeInv, TypeOK, Harms, Procs
<1>1. faults.harm < 2
  <2>1. faults'.harm >= faults.harm \/ UNCHANGED vars
    BY WhoSteps, UpdaterFrame, SenderFrame, AddFrame, CrashFrame
  <2>2. UNCHANGED vars => faults'.harm = faults.harm
    BY DEF vars
  <2> QED BY <1>0, <2>1, <2>2
<1>2. \A i \in Ids : Known(i) => Known(i)'
  BY KnownStays
<1>3. ToSet(edge) \subseteq ToSet(edge')
  <2>1. CASE Send
    BY <2>1, SendEffect
  <2>2. CASE UNCHANGED edge
    BY <2>2
  <2>3. Send \/ UNCHANGED edge
    <3>1. CASE UNCHANGED vars
      BY <3>1 DEF vars, history
    <3>2. CASE \/ DrainStart \/ ClaimLock \/ Recover \/ Fold \/ Unclaim \/ Rename \/ Read \/ RemoveSent
               \/ ReleaseDropped
      BY <3>2 DEF DrainStart, ClaimLock, Recover, Fold, Unclaim, Rename, Read, RemoveSent, ReleaseDropped, history
    <3> QED BY <3>1, <3>2, WhoSteps, UpdaterFrame, AddFrame, CrashFrame
  <2> QED BY <2>1, <2>2, <2>3
<1>4. ASSUME NEW i \in pruned' PROVE i \in ToSet(edge') \/ Known(i)'
  <2>0. i \in Ids
    BY DEF TypeInv, TypeOK
  <2>1. CASE i \in pruned
    <3>1. i \in ToSet(edge) \/ Known(i)
      BY <1>1, <2>1 DEF GapInv, NoSilentGap
    <3> QED BY <1>2, <1>3, <2>0, <3>1
  <2>2. CASE i \notin pruned
    <3>1. PruneRemove
      <4>1. CASE UNCHANGED vars
        BY <2>2, <4>1 DEF vars, history
      <4>2. CASE \/ \E id \in Ids, r \in Refusals \cup {NoRefusal} : AppendReport(id, r) \/ AppendUnconfirmed(id, r)
                 \/ ClearRefusal \/ PruneList \/ PruneDone \/ MarkRefusal
                 \/ \E id \in Ids : Damage(id)
        BY <2>2, <4>2 DEF AppendReport, AppendUnconfirmed, ClearRefusal, PruneList, PruneDone, MarkRefusal, Damage,
           history
      <4> QED BY <2>2, <4>1, <4>2, WhoSteps, AddFrame, CrashFrame, SenderFrame
    <3>2. i = Min(victims) /\ count' = [count EXCEPT !["updater"][Min(victims)] = @ + 1]
      BY <2>2, <3>1 DEF PruneRemove
    <3>3. count'["updater"][i] = count["updater"][i] + 1 /\ count["updater"][i] \in Nat
      BY <1>0, <2>0, <3>2 DEF Tallies
    <3> QED BY <1>0, <3>3 DEF Known
  <2> QED BY <2>1, <2>2
<1>5. pc'["sender"] = "rename" => \A i \in Ids : InFile(claim')[i] > 0 => InFile(ledger')[i] > 0
  <2> SUFFICES ASSUME pc'["sender"] = "rename"
               PROVE  \A i \in Ids : InFile(claim')[i] > 0 => InFile(ledger')[i] > 0
    OBVIOUS
  <2>0. \A i \in Ids : InFile(claim)[i] \in Nat /\ InFile(ledger)[i] \in Nat
    BY CountTypes
  <2>1. CASE UNCHANGED <<claim, ledger>> /\ pc["sender"] = "rename"
    BY <1>1, <2>1 DEF GapInv
  <2>2. CASE Recover
    <3>1. ~Fault("disk")
      <4>1. HarmOf("disk") = 2
        BY DEF HarmOf
      <4> QED BY <1>0, <4>1, FaultType
    <3>2. InFile(claim') = None
      BY <1>0, <2>2, <3>1, InFileType DEF Recover, Go
    <3> QED BY <3>2, TallyTypes
  <2>3. CASE Unclaim
    <3>1. UNCHANGED ledger /\ claim' \in {claim, NoFile} /\ pc["sender"] = "unclaim"
      BY <2>3 DEF Unclaim
    <3>2. \A i \in Ids : InFile(claim)[i] <= InFile(ledger)[i]
      BY <3>1 DEF LedgerInv, ClaimInv
    <3>3. CASE claim' = NoFile
      BY <3>3, InFileType, TallyTypes
    <3>4. CASE claim' = claim
      BY <2>0, <3>1, <3>2, <3>4
    <3> QED BY <3>1, <3>3, <3>4
  <2>4. CASE UNCHANGED vars
    BY <2>1, <2>4 DEF vars, disk
  <2>5. CASE \/ \E id \in Ids, r \in Refusals \cup {NoRefusal} : AppendReport(id, r) \/ AppendUnconfirmed(id, r)
             \/ ClearRefusal \/ PruneList \/ PruneRemove \/ PruneDone \/ MarkRefusal
             \/ \E id \in Ids : Damage(id)
    BY <2>1, <2>5, UpdaterFrame
  <2>6. ASSUME NEW p \in Procs, AddStep(p) PROVE UNCHANGED <<claim, ledger>> /\ pc["sender"] = "rename"
    <3>1. p = "updater" /\ pc["sender"] = "rename" /\ UNCHANGED claim
      BY <2>6, AddFrame, AfterAddIs DEF Procs
    <3>2. ledgerLock = "sender"
      BY <3>1 DEF LedgerInv, LockInv, Claiming
    <3>3. pc["updater"] \notin {"add", "write"}
      BY <3>2 DEF LedgerInv, LockInv
    <3> QED BY <2>6, <3>1, <3>3 DEF AddStep, LockLedger, LockTimesOut, ReadAndTruncate, WriteLedger,
         WriteLedgerFails, disk
  <2>7. ASSUME NEW p \in Procs, Crash(p) PROVE UNCHANGED <<claim, ledger>> /\ pc["sender"] = "rename"
    BY <2>7, CrashFrame DEF Procs
  <2>8. CASE DrainStart \/ ClaimLock \/ Fold \/ Rename \/ Read \/ Send \/ RemoveSent \/ ReleaseDropped
    BY <1>0, <2>8 DEF DrainStart, ClaimLock, Fold, Rename, Read, Send, RemoveSent, ReleaseDropped, Go
  <2> QED BY <2>1, <2>2, <2>3, <2>4, <2>5, <2>6, <2>7, <2>8, WhoSteps
<1>6. claimed' /\ dropped' = None => \A i \in Ids : InFile(claim')[i] > 0 => declared'[i] > 0
  <2> SUFFICES ASSUME claimed', dropped' = None, NEW i \in Ids, InFile(claim')[i] > 0 PROVE declared'[i] > 0
    OBVIOUS
  <2>1. CASE UNCHANGED <<claimed, dropped, claim, declared>>
    BY <1>1, <2>1 DEF GapInv
  <2>2. CASE UNCHANGED vars
    BY <2>1, <2>2 DEF vars, disk, sender, history
  <2>3. CASE \/ \E id \in Ids, r \in Refusals \cup {NoRefusal} : AppendReport(id, r) \/ AppendUnconfirmed(id, r)
             \/ ClearRefusal \/ PruneList \/ PruneRemove \/ PruneDone \/ MarkRefusal
             \/ \E id \in Ids : Damage(id)
    BY <2>1, <2>3, UpdaterFrame
  <2>4. ASSUME NEW p \in Procs, AddStep(p) PROVE UNCHANGED <<claimed, dropped, claim, declared>>
    BY <2>4, AddFrame
  <2>5. ASSUME NEW p \in Procs, Crash(p) PROVE UNCHANGED <<claimed, dropped, claim, declared>>
    BY <2>5, CrashFrame DEF Procs
  <2>6. CASE DrainStart \/ ClaimLock \/ Fold \/ Read \/ RemoveSent
    BY <2>1, <2>6 DEF DrainStart, ClaimLock, Fold, Read, RemoveSent, disk, sender, history
  <2>7. CASE Recover \/ Unclaim \/ Rename \/ ReleaseDropped
    <3>1. Recover \/ Unclaim \/ Rename => ~claimed
      BY DEF Recover, Unclaim, Rename, LedgerInv, ClaimInv
    <3> QED BY <2>7, <3>1 DEF Recover, Unclaim, Rename, ReleaseDropped, sender
  <2>8. CASE Send
    <3>0. UNCHANGED <<claimed, claim>> /\ pc["sender"] = "send"
      BY <2>8, SendEffect
    <3>1. ~Fault("answer")
      <4>1. HarmOf("answer") = 2
        BY DEF HarmOf
      <4> QED BY <1>0, <4>1, FaultType
    <3>2. CASE pc'["sender"] = "sent"
      <4>1. Min(names) \notin ToSet(edge) /\ EdgeRecords(Min(names))
        BY <1>1, <2>8, <3>0, <3>2, SendEffect DEF OnceInv, Claiming
      <4>2. declared' = Plus(declared, dropped)
        BY <4>1 DEF EdgeRecords
      <4>3. declared'[i] = declared[i] + dropped[i] /\ declared[i] \in Nat /\ dropped[i] \in Nat
        BY <4>2, CountTypes, TallyTypes
      <4>4. CASE dropped = None
        <5>1. declared[i] > 0
          BY <1>1, <3>0, <4>4 DEF GapInv
        <5> QED BY <4>3, <5>1
      <4>5. CASE dropped # None
        <5>1. dropped = InFile(claim)
          BY <3>0, <4>5 DEF LedgerInv, ClaimInv
        <5> QED BY <3>0, <4>3, <5>1
      <4> QED BY <4>4, <4>5
    <3>3. CASE pc'["sender"] = "release"
      <4>1. UNCHANGED <<declared, dropped>>
        BY <1>0, <2>8, <3>1, <3>3 DEF Send, Go
      <4> QED BY <2>1, <3>0, <4>1
    <3> QED BY <2>8, <3>2, <3>3, SendEffect
  <2> QED BY <2>1, <2>2, <2>3, <2>4, <2>5, <2>6, <2>7, <2>8, WhoSteps
<1> QED BY <1>4, <1>5, <1>6 DEF GapInv, NoSilentGap

\* A report thrown away unsent is declared to the Edge or still counted on the
\* device, through prunes, claims, folds and restores at the same time and through a
\* sender that dies at any point of claiming and carrying, as long as no fault of
\* HarmOf loses a count outright.
THEOREM NoSilentGapHolds == Spec => []NoSilentGap
<1>1. GapInv => NoSilentGap
  BY DEF GapInv
<1> QED BY <1>1, TypeInit, TypeNext, MadeInit, MadeNext, LedgerInit, LedgerNext, OnceInit, OnceNext, GapInit, GapNext,
           PTL DEF Spec

-----------------------------------------------------------------------------
(* Each drop counts once.                                                   *)

\* While nothing has failed but the Edge's answers, there is no claim but the
\* sender's, and a report that was thrown away is not in the directory.
CountInv ==
  /\ EachDropCountsOnce
  /\ faults.harm = 0 => (~claimed => InFile(claim) = None) /\ files \cap pruned = {}

\* Nothing is counted at first.
LEMMA CountInit == Init => CountInv
<1> SUFFICES ASSUME Init PROVE CountInv
  OBVIOUS
<1>1. /\ InFile(ledger) = None /\ InFile(claim) = None /\ declared = None /\ pruned = {} /\ claimed = FALSE
      /\ \A p \in Procs : count[p] = None /\ total[p] = None
  BY InFileType DEF Init
<1>2. ASSUME NEW i \in Ids PROVE Counted(i) = 0
  <2>1. None[i] = 0
    BY TallyTypes
  <2>2. count["updater"][i] = 0 /\ count["sender"][i] = 0 /\ total["updater"][i] = 0 /\ total["sender"][i] = 0
    BY <1>1, <2>1 DEF Procs
  <2> QED BY <1>1, <2>1, <2>2 DEF Counted
<1> QED BY <1>1, <1>2 DEF CountInv, EachDropCountsOnce

\* A step that harms no count moves it without changing it, but for a report that is
\* thrown away.
LEMMA CountedStays ==
  ASSUME TypeInv, LedgerInv, OnceInv, CountInv, [Next]_vars, TypeInv', faults'.harm = 0, faults.harm = 0,
         NEW i \in Ids
  PROVE  Counted(i)' = Counted(i) + (IF i \in pruned' /\ i \notin pruned THEN 1 ELSE 0)
<1> USE DEF Procs
<1>0. /\ faults \in [n : 0 .. MaxFaults, harm : Harms]
      /\ pc \in [Procs -> UpdaterPCs \cup SenderPCs] /\ count \in [Procs -> Tallies] /\ total \in [Procs -> Tallies]
  BY DEF TypeInv, TypeOK
<1>a. /\ InFile(ledger)[i] \in Nat /\ InFile(claim)[i] \in Nat /\ declared[i] \in Nat /\ dropped[i] \in Nat
      /\ \A p \in Procs : count[p][i] \in Nat /\ total[p][i] \in Nat
      /\ InFile(ledger) \in Tallies /\ InFile(claim) \in Tallies /\ declared \in Tallies /\ dropped \in Tallies
      /\ \A p \in Procs : count[p] \in Tallies /\ total[p] \in Tallies
  BY CountTypes
<1>b. ~Fault("timeout") /\ ~Fault("write") /\ ~Fault("disk") /\ ~Fault("answer") /\ ~Fault("unclaim")
  <2>1. /\ HarmOf("timeout") = 2 /\ HarmOf("write") = 2 /\ HarmOf("disk") = 2 /\ HarmOf("answer") = 2
        /\ HarmOf("unclaim") = 1
    BY DEF HarmOf
  <2> QED BY <1>0, <2>1, FaultType
<1>c. None[i] = 0 /\ None \in Tallies /\ InFile(None) = None /\ InFile(NoFile) = None
  BY TallyTypes, InFileType
<1>d. \A a, b \in Tallies : Plus(a, b)[i] = a[i] + b[i]
  BY TallyTypes
<1>e. ASSUME NEW p \in Procs, Crash(p) PROVE FALSE
  <2>1. faults'.harm >= CrashHarm(p, pc[p]) /\ CrashHarm(p, pc[p]) \in 1 .. 2
    BY <1>e, CrashFrame, HarmTypes
  <2> QED BY <2>1
<1>1. CASE UNCHANGED vars
  <2>1. UNCHANGED <<declared, ledger, claim, claimed, dropped, count, total, pruned>>
    BY <1>1 DEF vars, disk, sender, history
  <2> QED BY <1>a, <2>1 DEF Counted
<1>2. CASE \/ \E id \in Ids, r \in Refusals \cup {NoRefusal} : AppendReport(id, r) \/ AppendUnconfirmed(id, r)
           \/ ClearRefusal \/ PruneList \/ PruneDone \/ MarkRefusal
           \/ \E id \in Ids : Damage(id)
  <2>1. UNCHANGED <<declared, ledger, claim, claimed, dropped, total>>
    BY <1>2, UpdaterFrame
  <2>2. UNCHANGED <<count, pruned>>
    BY <1>2 DEF AppendReport, AppendUnconfirmed, ClearRefusal, PruneList, PruneDone, MarkRefusal, Damage, history
  <2> QED BY <1>a, <2>1, <2>2 DEF Counted
<1>3. CASE PruneRemove
  <2> DEFINE id == Min(victims)
  <2>1. UNCHANGED <<declared, ledger, claim, claimed, dropped, total>> /\ count'["sender"] = count["sender"]
    BY <1>3, UpdaterFrame
  <2>2. CASE pruned' = pruned \cup {id} /\ id \in files
    <3>0. id \notin pruned
      BY <2>2 DEF CountInv
    <3>1. count' = [count EXCEPT !["updater"][id] = @ + 1] /\ pruned' = pruned \cup {id} /\ id \notin pruned
      BY <1>3, <2>2, <3>0 DEF PruneRemove
    <3> HIDE DEF id
    <3>2. count'["updater"][i] = count["updater"][i] + (IF i = id THEN 1 ELSE 0)
      BY <1>0, <1>a, <3>1 DEF Tallies
    <3> QED BY <1>a, <2>1, <3>1, <3>2 DEF Counted
  <2>3. CASE UNCHANGED <<count, pruned>>
    BY <1>a, <2>1, <2>3 DEF Counted
  <2> QED BY <1>3, <2>2, <2>3 DEF PruneRemove
<1>4. ASSUME NEW p \in Procs, AddStep(p)
      PROVE  Counted(i)' = Counted(i) + (IF i \in pruned' /\ i \notin pruned THEN 1 ELSE 0)
  <2>1. /\ UNCHANGED <<declared, claim, claimed, dropped, pruned>>
        /\ \A q \in Procs \ {p} : count'[q] = count[q] /\ total'[q] = total[q]
    BY <1>4, AddFrame
  <2>2. CASE LockLedger(p)
    <3>1. UNCHANGED <<ledger, count, total>>
      BY <2>2 DEF LockLedger, disk
    <3> QED BY <1>a, <2>1, <3>1 DEF Counted
  <2>3. CASE ReadAndTruncate(p)
    <3>1. /\ total'[p] = Plus(InFile(ledger), count[p]) /\ count'[p] = None /\ ledger' = None /\ pc[p] = "add"
      BY <1>0, <2>3 DEF ReadAndTruncate
    <3>2. total[p] = None
      BY <3>1 DEF LedgerInv, HandInv
    <3>3. /\ total'[p][i] = InFile(ledger)[i] + count[p][i] /\ count'[p][i] = 0 /\ InFile(ledger')[i] = 0
          /\ total[p][i] = 0
      BY <1>a, <1>c, <1>d, <3>1, <3>2
    <3>4. CASE p = "updater"
      BY <1>a, <2>1, <3>3, <3>4 DEF Counted
    <3>5. CASE p = "sender"
      BY <1>a, <2>1, <3>3, <3>5 DEF Counted
    <3> QED BY <3>4, <3>5
  <2>4. CASE WriteLedger(p)
    <3>1. ledger' = total[p] /\ pc[p] = "write" /\ count' = count /\ total'[p] = None
      BY <1>0, <2>4 DEF WriteLedger
    <3>2. ledger = None
      BY <3>1 DEF LedgerInv, HandInv
    <3>3. InFile(ledger')[i] = total[p][i] /\ total'[p][i] = 0 /\ InFile(ledger)[i] = 0
      BY <1>a, <1>c, <3>1, <3>2, InFileType
    <3>4. CASE p = "updater"
      BY <1>a, <2>1, <3>1, <3>3, <3>4 DEF Counted
    <3>5. CASE p = "sender"
      BY <1>a, <2>1, <3>1, <3>3, <3>5 DEF Counted
    <3> QED BY <3>4, <3>5
  <2> QED BY <1>4, <1>b, <2>2, <2>3, <2>4 DEF AddStep, LockTimesOut, WriteLedgerFails
<1>5. CASE DrainStart \/ ClaimLock \/ Read \/ RemoveSent
  <2>1. UNCHANGED <<declared, ledger, claim, claimed, dropped, count, total, pruned>>
    BY <1>5 DEF DrainStart, ClaimLock, Read, RemoveSent, disk, sender, history
  <2> QED BY <1>a, <2>1 DEF Counted
<1>6. CASE Recover \/ Fold \/ Unclaim
  <2>1. ~claimed /\ UNCHANGED <<claimed, dropped>>
    BY <1>6 DEF Recover, Fold, Unclaim, LedgerInv, ClaimInv, sender
  <2>2. InFile(claim) = None
    BY <2>1 DEF CountInv
  <2>3. CASE Recover
    <3>1. UNCHANGED <<declared, ledger, count, total, pruned>> /\ claim' = NoFile
      BY <1>b, <2>2, <2>3 DEF Recover, history
    <3> QED BY <1>a, <1>c, <2>1, <2>2, <3>1 DEF Counted
  <2>4. CASE Fold
    <3>1. /\ UNCHANGED <<declared, count, pruned, claim>> /\ pc["sender"] = "fold" /\ ledger' = total["sender"]
          /\ total'["sender"] = None /\ total'["updater"] = total["updater"]
      BY <1>0, <2>4 DEF Fold, history
    <3>2. ledger = None
      BY <3>1 DEF LedgerInv, HandInv
    <3>3. InFile(ledger')[i] = total["sender"][i] /\ total'["sender"][i] = 0 /\ InFile(ledger)[i] = 0
      BY <1>a, <1>c, <3>1, <3>2, InFileType
    <3> QED BY <1>a, <2>1, <3>1, <3>3 DEF Counted
  <2>5. CASE Unclaim
    <3>1. UNCHANGED <<declared, ledger, count, total, pruned>> /\ claim' = NoFile
      BY <1>b, <2>5 DEF Unclaim, history
    <3> QED BY <1>a, <1>c, <2>1, <2>2, <3>1 DEF Counted
  <2> QED BY <1>6, <2>3, <2>4, <2>5
<1>7. CASE Rename
  <2>1. UNCHANGED <<declared, count, total, pruned>> /\ pc["sender"] = "rename"
    BY <1>7 DEF Rename, history
  <2>2. ~claimed
    BY <2>1 DEF LedgerInv, ClaimInv
  <2>a. CASE UNCHANGED <<ledger, claim, claimed, dropped>>
    BY <1>a, <2>1, <2>a DEF Counted
  <2>b. CASE ~UNCHANGED <<ledger, claim, claimed, dropped>>
    <3>1. InFile(claim) = None
      BY <2>2 DEF CountInv
    <3>2. ~(claimed' /\ dropped' = None) /\ ledger' = NoFile
      BY <1>7, <2>b DEF Rename
    <3>3. InFile(claim') = InFile(ledger)
      BY <1>7, <1>c, <2>b, <3>1 DEF Rename, InFile
    <3>4. InFile(ledger')[i] = 0 /\ InFile(claim)[i] = 0
      BY <1>c, <3>1, <3>2
    <3> QED BY <1>a, <2>1, <2>2, <3>2, <3>3, <3>4 DEF Counted
  <2> QED BY <2>a, <2>b
<1>8. CASE Send
  <2>0. /\ UNCHANGED <<ledger, claim, claimed, count, total, pruned>> /\ pc["sender"] = "send"
    BY <1>8 DEF Send, disk
  <2>1. CASE pc'["sender"] = "sent"
    <3>1. Min(names) \notin ToSet(edge) /\ EdgeRecords(Min(names)) /\ dropped' = None
      BY <1>8, <2>0, <2>1, SendEffect DEF OnceInv, Claiming
    <3>2. declared' = Plus(declared, dropped)
      BY <3>1 DEF EdgeRecords
    <3>3. declared'[i] = declared[i] + dropped[i]
      BY <1>a, <1>d, <3>2
    <3>4. CASE dropped = None
      BY <1>a, <1>c, <2>0, <3>1, <3>3, <3>4 DEF Counted
    <3>5. CASE dropped # None
      <4>1. claimed /\ dropped = InFile(claim)
        BY <3>5 DEF LedgerInv, ClaimInv
      <4>2. claimed' /\ dropped' = None
        BY <2>0, <3>1, <4>1
      <4>3. declared'[i] = declared[i] + InFile(claim)[i]
        BY <3>3, <4>1
      <4> QED BY <1>a, <2>0, <3>5, <4>2, <4>3 DEF Counted
    <3> QED BY <3>4, <3>5
  <2>2. CASE pc'["sender"] = "release"
    <3>1. UNCHANGED <<declared, dropped>>
      BY <1>0, <1>8, <1>b, <2>2 DEF Send, Go
    <3> QED BY <1>a, <2>0, <3>1 DEF Counted
  <2> QED BY <1>8, <2>1, <2>2, SendEffect
<1>9. CASE ReleaseDropped
  <2>1. /\ UNCHANGED <<declared, total, ledger, pruned>> /\ count'["updater"] = count["updater"]
        /\ claimed' = FALSE /\ pc["sender"] = "release"
    BY <1>9, SenderFrame DEF ReleaseDropped, history
  <2>2. count["sender"][i] = 0
    BY <1>c, <2>1 DEF LedgerInv, HandInv
  <2>3. CASE claimed /\ dropped # None
    <3>1. count'["sender"][i] = InFile(claim)[i] /\ InFile(claim')[i] = 0
      BY <1>0, <1>9, <1>b, <1>c, <2>3 DEF ReleaseDropped
    <3> QED BY <1>a, <2>1, <2>2, <2>3, <3>1 DEF Counted
  <2>4. CASE claimed /\ dropped = None
    <3>1. count'["sender"][i] = 0 /\ InFile(claim')[i] = 0
      BY <1>0, <1>9, <1>b, <1>c, <2>4 DEF ReleaseDropped
    <3> QED BY <1>a, <2>1, <2>2, <2>4, <3>1 DEF Counted
  <2>5. CASE ~claimed
    <3>1. count'["sender"][i] = 0 /\ UNCHANGED claim
      BY <1>0, <1>9, <1>c, <2>5 DEF ReleaseDropped
    <3> QED BY <1>a, <2>1, <2>2, <2>5, <3>1 DEF Counted
  <2> QED BY <2>3, <2>4, <2>5
<1> QED BY <1>1, <1>2, <1>3, <1>4, <1>5, <1>6, <1>7, <1>8, <1>9, <1>e, WhoSteps

\* Every step keeps the count exact, until a fault that may harm it.
LEMMA CountNext ==
  TypeInv /\ MadeInv /\ LedgerInv /\ OnceInv /\ CountInv /\ [Next]_vars /\ TypeInv' => CountInv'
<1> SUFFICES ASSUME TypeInv, MadeInv, LedgerInv, OnceInv, CountInv, [Next]_vars, TypeInv', faults'.harm = 0
             PROVE  CountInv'
  BY DEF CountInv, EachDropCountsOnce
<1>0. /\ faults \in [n : 0 .. MaxFaults, harm : Harms] /\ faults.harm \in Nat /\ lastId \in Nat
  BY OutboxAssumption DEF TypeInv, TypeOK, Harms, Ids
<1>1. faults.harm = 0
  <2>1. faults'.harm >= faults.harm \/ UNCHANGED vars
    BY WhoSteps, UpdaterFrame, SenderFrame, AddFrame, CrashFrame
  <2>2. UNCHANGED vars => faults'.harm = faults.harm
    BY DEF vars
  <2> QED BY <1>0, <2>1, <2>2
<1>2. \A i \in Ids : Counted(i)' = Counted(i) + (IF i \in pruned' /\ i \notin pruned THEN 1 ELSE 0)
  BY <1>1, CountedStays
<1>3. \A i \in Ids : Counted(i) = IF i \in pruned THEN 1 ELSE 0
  BY <1>1 DEF CountInv, EachDropCountsOnce
<1>4. pruned \subseteq pruned' /\ files' \cap pruned' = {}
  <2>0. files \cap pruned = {}
    BY <1>1 DEF CountInv
  <2>1. ASSUME NEW id \in Ids, NEW r \in Refusals \cup {NoRefusal}, AppendReport(id, r) \/ AppendUnconfirmed(id, r)
        PROVE  pruned \subseteq pruned' /\ files' \cap pruned' = {}
    <3>1. Fresh(id, r)
      <4>1. HarmOf("retry") = 2
        BY DEF HarmOf
      <4>2. ~Fault("retry")
        BY <1>0, <4>1, FaultType
      <4> QED BY <2>1, <4>2 DEF AppendReport, AppendUnconfirmed
    <3>2. id \notin pruned
      BY <1>0, <3>1 DEF Fresh, MadeInv
    <3> QED BY <2>0, <2>1, <3>2 DEF AppendReport, AppendUnconfirmed, history
  <2>2. CASE ClearRefusal \/ PruneList \/ PruneRemove \/ PruneDone \/ MarkRefusal \/ \E id \in Ids : Damage(id)
    BY <2>0, <2>2 DEF ClearRefusal, PruneList, PruneRemove, PruneDone, MarkRefusal, Damage, disk, history
  <2>3. CASE UNCHANGED vars
    BY <2>0, <2>3 DEF vars, disk, history
  <2>4. ASSUME NEW p \in Procs, AddStep(p) \/ Crash(p)
        PROVE  pruned \subseteq pruned' /\ files' \cap pruned' = {}
    BY <2>0, <2>4, AddFrame, CrashFrame
  <2>5. CASE \/ DrainStart \/ ClaimLock \/ Recover \/ Fold \/ Unclaim \/ Rename
             \/ Read \/ Send \/ RemoveSent \/ ReleaseDropped
    BY <2>0, <2>5, SenderFrame
  <2> QED BY <2>1, <2>2, <2>3, <2>4, <2>5, WhoSteps
<1>5. ASSUME ~claimed' PROVE InFile(claim') = None
  <2>0. ~claimed => InFile(claim) = None
    BY <1>1 DEF CountInv
  <2>1. CASE UNCHANGED <<claimed, claim>>
    BY <1>5, <2>0, <2>1
  <2>2. CASE UNCHANGED vars
    BY <2>1, <2>2 DEF vars, disk, sender
  <2>3. CASE \/ \E id \in Ids, r \in Refusals \cup {NoRefusal} : AppendReport(id, r) \/ AppendUnconfirmed(id, r)
             \/ ClearRefusal \/ PruneList \/ PruneRemove \/ PruneDone \/ MarkRefusal
             \/ \E id \in Ids : Damage(id)
    BY <2>1, <2>3, UpdaterFrame
  <2>4. ASSUME NEW p \in Procs, AddStep(p) PROVE InFile(claim') = None
    BY <2>1, <2>4, AddFrame
  <2>5. ASSUME NEW p \in Procs, Crash(p) PROVE FALSE
    <3>1. faults'.harm >= CrashHarm(p, pc[p]) /\ CrashHarm(p, pc[p]) \in 1 .. 2
      BY <2>5, CrashFrame, HarmTypes
    <3> QED BY <3>1
  <2>6. CASE DrainStart \/ ClaimLock \/ Fold \/ Read \/ Send \/ RemoveSent
    BY <2>1, <2>6 DEF DrainStart, ClaimLock, Fold, Read, Send, RemoveSent, disk, sender
  <2>7. CASE Recover \/ Unclaim
    <3>1. claim' \in {claim, NoFile} /\ UNCHANGED claimed
      BY <2>7 DEF Recover, Unclaim, sender
    <3> QED BY <1>5, <2>0, <3>1, InFileType
  <2>8. CASE Rename
    <3>1. ~claimed
      BY <2>8 DEF Rename, LedgerInv, ClaimInv
    <3>2. UNCHANGED <<claimed, claim>> \/ InFile(ledger) = None
      BY <1>5, <2>8 DEF Rename
    <3> QED BY <2>0, <2>1, <2>8, <3>1, <3>2 DEF Rename, InFile
  <2>9. CASE ReleaseDropped
    <3>0. ~Fault("unclaim")
      <4>1. HarmOf("unclaim") = 1
        BY DEF HarmOf
      <4> QED BY <1>0, <4>1, FaultType
    <3>1. claim' = IF claimed THEN NoFile ELSE claim
      BY <2>9, <3>0 DEF ReleaseDropped
    <3> QED BY <2>0, <3>1, InFileType
  <2> QED BY <2>2, <2>3, <2>4, <2>5, <2>6, <2>7, <2>8, <2>9, WhoSteps
<1>6. \A i \in Ids : Counted(i)' = IF i \in pruned' THEN 1 ELSE 0
  <2> TAKE i \in Ids
  <2>1. CASE i \in pruned
    BY <1>2, <1>3, <1>4, <2>1
  <2>2. CASE i \notin pruned
    BY <1>2, <1>3, <2>2
  <2> QED BY <2>1, <2>2
<1> QED BY <1>4, <1>5, <1>6 DEF CountInv, EachDropCountsOnce

\* With nothing failing but the Edge's answers, every drop is counted exactly once:
\* in the ledger, in the claim, in a process's hands or with the Edge, whatever the
\* updater's additions and the sender's claims and restores do at the same time.
THEOREM EachDropCountsOnceHolds == Spec => []EachDropCountsOnce
<1>1. CountInv => EachDropCountsOnce
  BY DEF CountInv
<1> QED BY <1>1, TypeInit, TypeNext, MadeInit, MadeNext, LedgerInit, LedgerNext, OnceInit, OnceNext,
           CountInit, CountNext, PTL DEF Spec

-----------------------------------------------------------------------------
(* The order of arrival.                                                    *)

\* With no file damaged: what is waiting is younger than what the Edge has, what the
\* sender has not listed is younger than what it has, and the outcome the journal may
\* queue again has not been thrown away.
OrderInv ==
  /\ unreadable = {}
  /\ \A f \in (files \cup names) \ ToSet(edge), e \in ToSet(edge) : e < f
  /\ pc["sender"] # "idle" => \A f \in files \ (ToSet(edge) \cup names), n \in names : n < f
  /\ owed > 0 /\ lastId <= owed + 1 => owed \in files \cup ToSet(edge) /\ owed \notin victims
  /\ ArrivesInOrder

\* There is nothing to order at first.
LEMMA OrderInit == Init => OrderInv
BY DEF Init, OrderInv, ArrivesInOrder, ToSet, Procs

\* With room for two, pruning spares the report before the newest as well.
LEMMA LastButOneStays ==
  ASSUME NEW S \in SUBSET Ids, Cardinality(S) > MaxStored, MaxStored >= 2,
         NEW V, V = {id \in S : Rank(S, id) <= Cardinality(S) - MaxStored},
         NEW o \in Nat, \A i \in S : i <= o + 1
  PROVE  o \notin V
<1> SUFFICES ASSUME o \in V PROVE FALSE
  OBVIOUS
<1> DEFINE below == {j \in S : j <= o}
<1>1. below \in SUBSET S /\ S \in SUBSET S
  OBVIOUS
<1>2. /\ Cardinality(S) \in Nat /\ Cardinality(below) \in Nat
      /\ Cardinality(S \ below) = Cardinality(S) - Cardinality(below)
  BY <1>1, ReportCount
<1>3. S \ below \subseteq {o + 1}
  <2> SUFFICES ASSUME NEW j \in S, ~(j <= o) PROVE j = o + 1
    OBVIOUS
  <2>1. j \in Nat
    BY OutboxAssumption DEF Ids
  <2> QED BY <2>1
<1>4. IsFiniteSet({o + 1}) /\ Cardinality({o + 1}) = 1
  BY FS_Singleton
<1>5. Cardinality(S \ below) <= 1
  BY <1>3, <1>4, FS_Subset
<1>6. Cardinality(below) <= Cardinality(S) - MaxStored
  BY DEF Rank
<1> QED BY <1>2, <1>5, <1>6, OutboxAssumption

\* Every step keeps the order.
LEMMA OrderNext ==
  ASSUME "damage" \notin FaultKinds, MaxStored >= 2
  PROVE  TypeInv /\ MadeInv /\ OrderInv /\ [Next]_vars => OrderInv'
<1> SUFFICES ASSUME TypeInv, MadeInv, OrderInv, [Next]_vars PROVE OrderInv'
  OBVIOUS
<1> DEFINE Had == ToSet(edge)
<1>0. /\ lastId \in Nat /\ owed \in Nat /\ owed <= lastId /\ "sender" \in DOMAIN pc
      /\ files \subseteq 1 .. lastId /\ names \subseteq 1 .. lastId /\ victims \subseteq 1 .. lastId
      /\ Had \subseteq 1 .. lastId
      /\ faults \in [n : 0 .. MaxFaults, harm : Harms]
  BY OutboxAssumption DEF TypeInv, TypeOK, Ids, Procs, MadeInv
<1>1. /\ unreadable = {} /\ ArrivesInOrder
      /\ \A f \in (files \cup names) \ Had, e \in Had : e < f
      /\ pc["sender"] # "idle" => \A f \in files \ (Had \cup names), n \in names : n < f
      /\ owed > 0 /\ lastId <= owed + 1 => owed \in files \cup Had /\ owed \notin victims
  BY DEF OrderInv
<1> HIDE DEF Had
<1>a. ASSUME UNCHANGED <<edge, unreadable, lastId, owed>>, files' \subseteq files, names' \subseteq names,
             \A f \in files \ Had : f \in names /\ f \in files' => f \in names',
             \A f \in files : f \in files' \/ f \in Had \/ (owed > 0 /\ lastId <= owed + 1 => f # owed),
             owed > 0 /\ lastId <= owed + 1 => owed \notin victims',
             pc'["sender"] # "idle" => pc["sender"] # "idle"
      PROVE  OrderInv'
  <2>1. ToSet(edge') = Had /\ ArrivesInOrder'
    BY <1>1, <1>a DEF Had, ArrivesInOrder
  <2>2. \A f \in (files' \cup names') \ Had, e \in Had : e < f
    BY <1>1, <1>a
  <2>3. pc'["sender"] # "idle" => \A f \in files' \ (Had \cup names'), n \in names' : n < f
    BY <1>1, <1>a
  <2>4. owed > 0 /\ lastId <= owed + 1 => owed \in files' \cup Had
    BY <1>1, <1>a
  <2> QED BY <1>1, <1>a, <2>1, <2>2, <2>3, <2>4 DEF OrderInv
<1>2. CASE UNCHANGED vars
  BY <1>1, <1>2, <1>a DEF vars, disk, updater, sender, history
<1>3. ASSUME NEW id \in Ids, NEW r \in Refusals \cup {NoRefusal}, AppendReport(id, r) \/ AppendUnconfirmed(id, r)
      PROVE  OrderInv'
  <2>1. /\ UNCHANGED <<edge, names, victims>> /\ files' = files \cup {id} /\ unreadable' = {}
        /\ pc'["sender"] = pc["sender"] /\ Numbered(id, r) /\ (Fresh(id, r) \/ Requeued(id, r))
    BY <1>1, <1>3, UpdaterFrame DEF AppendReport, AppendUnconfirmed, updater
  <2>2. ToSet(edge') = Had /\ ArrivesInOrder'
    BY <1>1, <2>1 DEF Had, ArrivesInOrder
  <2>3. CASE Fresh(id, r)
    <3>1. id = lastId + 1 /\ lastId' = lastId + 1 /\ owed' = IF r = NoRefusal THEN id ELSE owed
      BY <2>1, <2>3, NumberedType DEF Numbered
    <3>2. \A e \in Had \cup names \cup victims : e \in Nat /\ e < id
      BY <1>0, <3>1
    <3>3. \A f \in (files' \cup names) \ Had, e \in Had : e < f
      BY <1>1, <2>1, <3>2
    <3>4. pc["sender"] # "idle" => \A f \in files' \ (Had \cup names), n \in names : n < f
      BY <1>1, <2>1, <3>2
    <3>5. owed' > 0 /\ lastId' <= owed' + 1 => owed' \in files' \cup Had /\ owed' \notin victims
      <4>1. CASE r = NoRefusal
        <5>1. owed' = id
          BY <3>1, <4>1
        <5>2. id \in files'
          BY <2>1
        <5>3. id \notin victims
          BY <3>2, <1>0, <3>1
        <5> QED BY <5>1, <5>2, <5>3
      <4>2. CASE r # NoRefusal
        <5>1. owed' = owed /\ (lastId' <= owed' + 1 => lastId <= owed + 1)
          BY <1>0, <3>1, <4>2
        <5> QED BY <1>1, <2>1, <5>1
      <4> QED BY <4>1, <4>2
    <3> QED BY <2>1, <2>2, <3>3, <3>4, <3>5 DEF OrderInv
  <2>4. CASE Requeued(id, r)
    <3>1. id = owed /\ lastId' = lastId /\ owed > 0 /\ lastId <= owed + 1 /\ owed' = owed
      BY <2>1, <2>4, NumberedType DEF Requeued, Numbered
    <3>2. id \in files \cup Had
      BY <1>1, <3>1
    <3>3. \A f \in (files' \cup names) \ Had, e \in Had : e < f
      BY <1>1, <2>1, <3>2
    <3>4. pc["sender"] # "idle" => \A f \in files' \ (Had \cup names), n \in names : n < f
      BY <1>1, <2>1, <3>2
    <3> QED BY <1>1, <2>1, <2>2, <3>1, <3>3, <3>4 DEF OrderInv
  <2> QED BY <2>1, <2>3, <2>4
<1>4. CASE ClearRefusal \/ PruneDone \/ MarkRefusal
  <2>1. UNCHANGED <<edge, names, unreadable, lastId, owed, files, victims>> /\ pc'["sender"] = pc["sender"]
    BY <1>4, UpdaterFrame DEF ClearRefusal, PruneDone, MarkRefusal, disk, updater
  <2> QED BY <1>1, <1>a, <2>1
<1>5. ASSUME NEW id \in Ids, Damage(id) PROVE FALSE
  <2>1. Fault("damage")
    BY <1>5 DEF Damage
  <2> QED BY <1>0, <2>1, FaultType
<1>6. CASE PruneList
  <2>1. UNCHANGED <<edge, names, unreadable, lastId, owed, files>> /\ pc'["sender"] = pc["sender"]
    BY <1>6, UpdaterFrame DEF PruneList, disk
  <2>2. owed > 0 /\ lastId <= owed + 1 => owed \notin victims'
    <3> SUFFICES ASSUME owed > 0, lastId <= owed + 1 PROVE owed \notin victims'
      OBVIOUS
    <3>0. files \in SUBSET Ids /\ files \in SUBSET files
      BY DEF TypeInv, TypeOK
    <3>1. Cardinality(files) \in Nat
      BY <3>0, ReportCount
    <3>2. CASE UNCHANGED victims
      BY <1>1, <3>2
    <3>3. CASE /\ Cardinality(files) > MaxStored
               /\ victims' = {id \in files : Rank(files, id) <= Cardinality(files) - MaxStored}
      <4>1. \A i \in files : i <= owed + 1
        BY <1>0, <3>1
      <4> QED BY <1>0, <3>0, <3>3, <4>1, LastButOneStays
    <3> QED BY <1>6, <3>2, <3>3 DEF PruneList
  <2> QED BY <1>1, <1>a, <2>1, <2>2
<1>7. CASE PruneRemove
  <2>1. UNCHANGED <<edge, names, unreadable, lastId, owed>> /\ pc'["sender"] = pc["sender"]
    BY <1>7, UpdaterFrame DEF PruneRemove
  <2>2. victims \in SUBSET Nat /\ victims # {}
    BY <1>0, <1>7 DEF PruneRemove
  <2>3. Min(victims) \in victims
    BY <2>2, MinProperties
  <2>4. /\ victims' \subseteq victims /\ files' \subseteq files
        /\ \A f \in files : f \in files' \/ f \in victims
    BY <1>7, <2>3 DEF PruneRemove
  <2> QED BY <1>1, <1>a, <2>1, <2>4
<1>8. ASSUME NEW p \in Procs, AddStep(p) PROVE OrderInv'
  <2>1. UNCHANGED <<edge, names, unreadable, lastId, owed, files, victims>>
    BY <1>8, AddFrame
  <2>2. pc'["sender"] # "idle" => pc["sender"] # "idle"
    BY <1>8, AddFrame, AfterAddIs DEF Procs
  <2> QED BY <1>1, <1>a, <2>1, <2>2
<1>9. ASSUME NEW p \in Procs, Crash(p) PROVE OrderInv'
  <2>1. UNCHANGED <<edge, unreadable, lastId, owed, files>>
    BY <1>9, CrashFrame
  <2>2. CASE p = "updater"
    <3>1. victims' = {} /\ names' = names /\ pc'["sender"] = pc["sender"]
      BY <1>9, <2>2, CrashFrame DEF Procs
    <3> QED BY <1>1, <1>a, <2>1, <3>1
  <2>3. CASE p = "sender"
    <3>1. victims' = victims /\ names' = {} /\ pc'["sender"] = "idle"
      BY <1>9, <2>3, CrashFrame DEF Procs
    <3>2. ToSet(edge') = Had /\ ArrivesInOrder'
      BY <1>1, <2>1 DEF Had, ArrivesInOrder
    <3> QED BY <1>1, <2>1, <3>1, <3>2 DEF OrderInv
  <2> QED BY <2>2, <2>3 DEF Procs
<1>10. CASE DrainStart \/ ReleaseDropped
  <2>1. UNCHANGED <<edge, unreadable, lastId, owed, files, victims>>
    BY <1>10, SenderFrame DEF DrainStart, ReleaseDropped, disk, history
  <2>2. names' \in {files, {}}
    BY <1>10 DEF DrainStart, ReleaseDropped
  <2>3. ToSet(edge') = Had /\ ArrivesInOrder'
    BY <1>1, <2>1 DEF Had, ArrivesInOrder
  <2>4. \A f \in files \ (Had \cup names'), n \in names' : n < f
    BY <2>2
  <2> QED BY <1>1, <2>1, <2>2, <2>3, <2>4 DEF OrderInv
<1>11. CASE ClaimLock \/ Recover \/ Fold \/ Unclaim \/ Rename
  <2>1. UNCHANGED <<edge, names, unreadable, lastId, owed, files, victims>>
    BY <1>11, SenderFrame DEF ClaimLock, Recover, Fold, Unclaim, Rename, disk, history, sender
  <2>2. pc["sender"] # "idle"
    BY <1>11 DEF ClaimLock, Recover, Fold, Unclaim, Rename
  <2> QED BY <1>1, <1>a, <2>1, <2>2
<1>12. CASE Read
  <2>1. UNCHANGED <<edge, unreadable, lastId, owed, victims>> /\ pc["sender"] # "idle"
    BY <1>12, SenderFrame DEF Read, history
  <2>2. UNCHANGED <<files, names>>
    BY <1>1, <1>12 DEF Read
  <2> QED BY <1>1, <1>a, <2>1, <2>2
<1>13. CASE Send
  <2> DEFINE m == Min(names)
  <2>0. /\ UNCHANGED <<files, names, unreadable, lastId, owed, victims>> /\ pc["sender"] = "send"
        /\ m \in names /\ names # {} /\ m \in Ids
    BY <1>13, SendEffect, SenderFrame
  <2>1. \A n \in names : n \in Nat /\ m \in Nat /\ m <= n
    <3>1. \A n \in names : n \in Nat
      BY <1>0
    <3>2. \A n \in names : m <= n
      BY <2>0, HeadType
    <3> QED BY <2>0, <3>1, <3>2
  <2> HIDE DEF m
  <2>2. CASE UNCHANGED edge
    BY <1>1, <1>a, <2>0, <2>2
  <2>3. CASE ~(UNCHANGED edge)
    <3>1. EdgeRecords(m)
      BY <1>13, <2>3, SendEffect DEF m
    <3>2. m \notin Had /\ edge' = Append(edge, m) /\ ToSet(edge') = Had \cup {m}
      <4>1. m \notin Had /\ edge' = Append(edge, m)
        BY <2>3, <3>1 DEF EdgeRecords, Had
      <4>2. ToSet(edge') = Had \cup {m}
        BY <2>0, <3>1, EdgeType DEF Had
      <4> QED BY <4>1, <4>2
    <3>3. \A e \in Had : e < m
      BY <1>1, <2>0, <3>2
    <3>4. \A f \in (files \cup names) \ (Had \cup {m}) : m < f
      <4> TAKE f \in (files \cup names) \ (Had \cup {m})
      <4>1. CASE f \in names
        BY <2>1, <4>1
      <4>2. CASE f \notin names
        BY <1>1, <2>0, <4>2
      <4> QED BY <4>1, <4>2
    <3>5. \A f \in (files \cup names) \ ToSet(edge'), e \in ToSet(edge') : e < f
      BY <1>1, <3>2, <3>4
    <3>6. \A f \in files \ (ToSet(edge') \cup names), n \in names : n < f
      BY <1>1, <2>0, <3>2
    <3>7. ArrivesInOrder'
      <4>1. /\ DOMAIN edge = 1 .. Len(edge) /\ DOMAIN edge' = 1 .. Len(edge) + 1 /\ Len(edge) \in Nat
            /\ \A i \in 1 .. Len(edge) : edge'[i] = edge[i] /\ edge[i] \in Had
            /\ edge'[Len(edge) + 1] = m
        <5>1. edge \in Seq(Ids)
          BY DEF TypeInv, TypeOK
        <5>2. \A i \in DOMAIN edge : edge[i] \in Had
          BY DEF Had, ToSet
        <5> QED BY <2>0, <3>2, <5>1, <5>2
      <4> SUFFICES ASSUME NEW i \in 1 .. Len(edge) + 1, NEW j \in 1 .. Len(edge) + 1, i < j
                   PROVE  edge'[i] < edge'[j]
        BY <4>1 DEF ArrivesInOrder
      <4>2. i \in 1 .. Len(edge)
        BY <4>1
      <4>3. CASE j \in 1 .. Len(edge)
        BY <1>1, <4>1, <4>2, <4>3 DEF ArrivesInOrder
      <4>4. CASE j = Len(edge) + 1
        BY <3>3, <4>1, <4>2, <4>4
      <4> QED BY <4>1, <4>3, <4>4
    <3> QED BY <1>1, <2>0, <3>2, <3>5, <3>6, <3>7 DEF OrderInv
  <2> QED BY <2>2, <2>3
<1>14. CASE RemoveSent
  <2>1. UNCHANGED <<edge, unreadable, lastId, owed, victims>> /\ pc["sender"] = "sent"
    BY <1>14, SenderFrame DEF RemoveSent, history
  <2>2. Min(names) \in Had
    BY <2>1 DEF MadeInv, Had
  <2>3. \/ UNCHANGED <<files, names>>
        \/ files' = files \ {Min(names)} /\ names' = names \ {Min(names)}
    BY <1>14 DEF RemoveSent
  <2> QED BY <1>1, <1>a, <2>1, <2>2, <2>3
<1> QED BY <1>2, <1>3, <1>4, <1>5, <1>6, <1>7, <1>8, <1>9, <1>10, <1>11, <1>12, <1>13, <1>14, WhoSteps

\* The Edge first hears of the reports in the order they were made, through refused
\* and unanswered sends, crashes, prunes under the sender's feet and outcomes the
\* journal queues again, when no file is damaged on disk and the directory has room
\* for two reports (maxStoredReports is 200).
THEOREM ArrivesInOrderHolds ==
  ASSUME "damage" \notin FaultKinds, MaxStored >= 2
  PROVE  Spec => []ArrivesInOrder
<1>1. OrderInv => ArrivesInOrder
  BY DEF OrderInv
<1>2. TypeInv /\ MadeInv /\ OrderInv /\ [Next]_vars => OrderInv'
  BY OrderNext
<1> QED BY <1>1, <1>2, TypeInit, TypeNext, MadeInit, MadeNext, OrderInit, PTL DEF Spec

===============================================================================

-------------------------- MODULE AuditShipperProofs --------------------------
(***************************************************************************)
(* Proofs about AuditShipper, for any size of the queue, any set of bad    *)
(* records and any number of records and faults.                           *)
(***************************************************************************)
EXTENDS AuditShipper, CollectionLemmas

-----------------------------------------------------------------------------
(* What the operators on the queue do to the records in it.                 *)

\* Trimming to the bound: what is kept and what is dropped are all there was.
LEMMA NewestOldest ==
  ASSUME NEW S, NEW s \in Seq(S)
  PROVE  /\ Newest(s) \in Seq(S) /\ Len(Newest(s)) <= MaxPending /\ Len(Newest(s)) \in Nat
         /\ ToSet(s) = ToSet(Newest(s)) \cup ToSet(Oldest(s))
         /\ Len(s) <= MaxPending => Newest(s) = s
<1>1. Len(s) \in Nat /\ MaxPending \in Nat \ {0} /\ DOMAIN s = 1 .. Len(s)
  BY ShipperAssumption
<1>2. CASE Len(s) <= MaxPending
  <2>1. Newest(s) = s
    BY <1>1, <1>2 DEF Newest
  <2>2. Oldest(s) = SubSeq(s, 1, 0)
    BY <1>1, <2>1 DEF Oldest
  <2>3. ToSet(Oldest(s)) = {}
    BY <2>2 DEF ToSet
  <2> QED BY <1>1, <1>2, <2>1, <2>3
<1>3. CASE ~(Len(s) <= MaxPending)
  <2> DEFINE k == Len(s) - MaxPending
             new == Newest(s)
             old == Oldest(s)
  <2>1. k \in 1 .. Len(s) - 1 /\ k \in Nat
    BY <1>1, <1>3
  <2>2. new = SubSeq(s, k + 1, Len(s))
    BY <1>1, <1>3 DEF Newest
  <2>3. new \in Seq(S) /\ Len(new) = MaxPending /\ \A i \in 1 .. MaxPending : new[i] = s[k + i]
    <3>1. k + 1 \in 1 .. Len(s) + 1 /\ Len(s) \in k .. Len(s) /\ Len(s) - (k + 1) + 1 = MaxPending
      BY <1>1, <2>1
    <3>2. SubSeq(s, k + 1, Len(s)) = [i \in 1 .. Len(s) - (k + 1) + 1 |-> s[i + (k + 1) - 1]]
      BY <1>1, <2>1
    <3>3. \A i \in 1 .. MaxPending : i + (k + 1) - 1 = k + i /\ k + i \in DOMAIN s
      BY <1>1, <2>1
    <3> HIDE DEF k, new
    <3>4. \A i \in 1 .. MaxPending : s[k + i] \in S
      BY <3>3
    <3>5. new = [i \in 1 .. MaxPending |-> s[k + i]]
      BY <2>2, <3>1, <3>2, <3>3
    <3> QED BY <1>1, <3>4, <3>5
  <2>4. old = SubSeq(s, 1, k)
    <3> HIDE DEF new
    <3> QED BY <2>3 DEF Oldest, new
  <2>5. DOMAIN old = 1 .. k /\ \A i \in 1 .. k : old[i] = s[i]
    <3>1. SubSeq(s, 1, k) = [i \in 1 .. k |-> s[i]]
      BY <1>1, <2>1
    <3> HIDE DEF old, k
    <3> QED BY <2>4, <3>1
  <2>6. DOMAIN new = 1 .. MaxPending
    <3> HIDE DEF new
    <3> QED BY <2>3
  <2> HIDE DEF new, old
  <2>7. \A i \in DOMAIN s : s[i] \in ToSet(new) \cup ToSet(old)
    <3> TAKE i \in DOMAIN s
    <3>1. CASE i <= k
      <4>1. i \in DOMAIN old
        BY <1>1, <2>1, <2>5, <3>1
      <4> QED BY <2>5, <4>1 DEF ToSet
    <3>2. CASE ~(i <= k)
      <4>1. i - k \in 1 .. MaxPending /\ k + (i - k) = i
        BY <1>1, <2>1, <3>2
      <4> HIDE DEF k
      <4>2. new[i - k] = s[i]
        BY <2>3, <4>1
      <4> QED BY <2>6, <4>1, <4>2 DEF ToSet
    <3> QED BY <3>1, <3>2
  <2>8. \A i \in DOMAIN new : new[i] \in ToSet(s)
    <3> TAKE i \in DOMAIN new
    <3>1. k + i \in DOMAIN s
      BY <1>1, <2>1, <2>6
    <3> HIDE DEF k
    <3> QED BY <2>3, <2>6, <3>1 DEF ToSet
  <2>9. \A i \in DOMAIN old : old[i] \in ToSet(s)
    <3> TAKE i \in DOMAIN old
    <3>1. i \in DOMAIN s
      BY <1>1, <2>1, <2>5
    <3> QED BY <2>5, <3>1 DEF ToSet
  <2>10. ToSet(s) = ToSet(new) \cup ToSet(old)
    <3>1. ToSet(s) \subseteq ToSet(new) \cup ToSet(old)
      BY <2>7 DEF ToSet
    <3>2. ToSet(new) \subseteq ToSet(s)
      BY <2>8 DEF ToSet
    <3>3. ToSet(old) \subseteq ToSet(s)
      BY <2>9 DEF ToSet
    <3> QED BY <3>1, <3>2, <3>3
  <2> QED BY <1>1, <1>3, <2>3, <2>10 DEF new, old
<1> QED BY <1>2, <1>3
-----------------------------------------------------------------------------
(* Type correctness.                                                        *)

FaultRecords == [n : 0 .. MaxFaults, denied : BOOLEAN, disk : BOOLEAN]

\* The types of the parts of the state, without the union TypeOK puts the sets into.
TypeParts ==
  /\ bad \in BadSets /\ made \in 0 .. MaxRecords
  /\ ch \in Seq(Records) /\ Len(ch) <= MaxPending
  /\ q \in Seq(Records) /\ Len(q) <= MaxPending
  /\ spool \in Seq(Records) /\ appends \in Nat /\ handle \in BOOLEAN
  /\ evidence \in Evidence /\ rotations \in 0 .. MaxPending /\ armed \in BOOLEAN
  /\ channel \in Channels /\ failing \in BOOLEAN
  /\ refused \subseteq Records /\ cp \subseteq Records /\ dropped \subseteq Records
  /\ unwritten \subseteq Records /\ unfiled \subseteq Records /\ lost \subseteq Records
  /\ asides \in Nat
  /\ faults \in FaultRecords

\* The two forms say the same.
LEMMA TypeForms == TypeOK <=> TypeParts
<1>1. UNION {refused, cp, dropped, unwritten, unfiled, lost} \subseteq Records
        <=> /\ refused \subseteq Records /\ cp \subseteq Records /\ dropped \subseteq Records
            /\ unwritten \subseteq Records /\ unfiled \subseteq Records /\ lost \subseteq Records
  OBVIOUS
<1> QED BY <1>1 DEF TypeOK, TypeParts, FaultRecords

\* A fault is counted; one of the disk is remembered.
LEMMA FaultType ==
  ASSUME TypeParts, NEW kind, Fault(kind)
  PROVE  /\ faults' \in FaultRecords
         /\ faults.disk => faults'.disk
         /\ kind = "disk" => faults'.disk
<1>1. faults.n \in 0 .. MaxFaults /\ faults.denied \in BOOLEAN /\ faults.disk \in BOOLEAN /\ MaxFaults \in Nat
  BY ShipperAssumption DEF TypeParts, FaultRecords
<1>2. faults.n + 1 \in 0 .. MaxFaults
  BY <1>1 DEF Fault
<1> QED BY <1>1, <1>2 DEF Fault, FaultRecords

\* Writing the spool, as enqueue, a shipment, a rotation, a setting aside and a
\* start do it: the file holds the queue or what it held, and while the disk does
\* as it is told it is as long as the lines appended since it was last the queue.
LEMMA DiskWrite ==
  ASSUME TypeParts, NEW file \in Seq(Records), NEW n \in Nat, NEW queue \in Seq(Records),
         Len(queue) <= MaxPending, NEW missing \in SUBSET Records,
         ToSet(queue) \subseteq ToSet(file) \cup missing,
         Compact(file, n, queue, missing) \/ MaybeCompact(file, n, queue, missing)
  PROVE  /\ spool' \in Seq(Records) /\ appends' \in Nat /\ handle' \in BOOLEAN
         /\ unwritten' \subseteq Records
         /\ ToSet(queue) \subseteq ToSet(spool') \cup unwritten'
         /\ ~failing /\ (handle \/ Compact(file, n, queue, missing)) => handle'
         /\ ~failing /\ (Len(file) <= MaxPending + n \/ Compact(file, n, queue, missing)) =>
              Len(spool') <= MaxPending + appends' /\ appends' < MaxPending
<1>1. MaxPending \in Nat \ {0} /\ Len(queue) \in Nat /\ handle \in BOOLEAN /\ failing \in BOOLEAN
  BY ShipperAssumption DEF TypeParts
<1>2. CASE spool' = queue /\ appends' = 0 /\ handle' \in {TRUE, ~failing} /\ unwritten' = {}
  <2>1. handle' \in BOOLEAN /\ (~failing => handle')
    BY <1>2
  <2> QED BY <1>1, <1>2, <2>1
<1>3. CASE failing /\ spool' = file /\ appends' = n /\ handle' \in BOOLEAN /\ unwritten' = missing
  BY <1>1, <1>3
<1>4. CASE /\ spool' = file /\ appends' = n /\ unwritten' = missing /\ UNCHANGED handle
           /\ ~(n >= MaxPending) /\ ~Compact(file, n, queue, missing)
  BY <1>1, <1>4
<1> QED BY <1>2, <1>3, <1>4 DEF Compact, MaybeCompact, NotReplaced
-----------------------------------------------------------------------------
(* The queue and its file.                                                   *)

\* The strengthening of QueueIsOnDisk and SpoolIsBounded: while the disk has done
\* as it was told, the file is open and holds the queue of its last rewrite and
\* the lines appended since, of which there are fewer than a rewrite allows.
DiskInv ==
  /\ QueueIsOnDisk
  /\ ~faults.disk => ~failing /\ handle /\ Len(spool) <= MaxPending + appends /\ appends < MaxPending

ShipInv == TypeParts /\ DiskInv

\* A record comes out of the channel, into the queue and onto disk.
LEMMA EnqueueKeeps == ShipInv /\ Enqueue => ShipInv'
<1> SUFFICES ASSUME ShipInv, Enqueue PROVE ShipInv'
  OBVIOUS
<1>0. PICK written \in BOOLEAN :
        /\ written => handle
        /\ ~written => ~handle \/ failing
        /\ LET all     == Append(q, Head(ch))
               file    == IF written THEN Append(spool, Head(ch)) ELSE spool
               n       == IF written THEN appends + 1 ELSE appends
               missing == IF written THEN unwritten ELSE unwritten \cup {Head(ch)}
           IN  /\ q' = Newest(all)
               /\ dropped' = dropped \cup ToSet(Oldest(all))
               /\ IF Len(all) > MaxPending THEN Compact(file, n, q', missing)
                  ELSE MaybeCompact(file, n, q', missing)
  BY DEF Enqueue
<1> DEFINE x       == Head(ch)
           all     == Append(q, x)
           file    == IF written THEN Append(spool, x) ELSE spool
           n       == IF written THEN appends + 1 ELSE appends
           missing == IF written THEN unwritten ELSE unwritten \cup {x}
<1>1. TypeParts /\ DiskInv
  BY DEF ShipInv
<1>2. /\ x \in Records /\ ch' \in Seq(Records) /\ Len(ch') <= MaxPending
      /\ MaxPending \in Nat \ {0} /\ Len(spool) \in Nat /\ appends \in Nat
      /\ handle \in BOOLEAN /\ spool \in Seq(Records) /\ q \in Seq(Records)
      /\ unwritten \subseteq Records
  <2>1. ch' \in Seq(Records) /\ Len(ch') = Len(ch) - 1 /\ Head(ch) \in Records
    BY <1>1, ToSetTail DEF TypeParts, Enqueue
  <2>2. Len(ch) \in Nat /\ Len(ch) <= MaxPending
    BY <1>1 DEF TypeParts
  <2> QED BY <1>1, <2>1, <2>2, ShipperAssumption DEF TypeParts
<1>3. /\ q' = Newest(all)
      /\ dropped' = dropped \cup ToSet(Oldest(all))
      /\ Compact(file, n, q', missing) \/ MaybeCompact(file, n, q', missing)
  BY <1>0
<1>4. UNCHANGED <<bad, made, refused, loop, cp, world, history, faults>>
  BY DEF Enqueue
<1> HIDE DEF x
<1>5. /\ all \in Seq(Records) /\ ToSet(all) = ToSet(q) \cup {x}
  BY <1>2, ToSetAppend
<1>6. /\ file \in Seq(Records) /\ n \in Nat /\ missing \in SUBSET Records
      /\ ToSet(spool) \cup unwritten \cup {x} \subseteq ToSet(file) \cup missing
      /\ Len(spool) <= MaxPending + appends => Len(file) <= MaxPending + n
  <2>1. CASE written
    BY <1>2, <2>1, ToSetAppend
  <2>2. CASE ~written
    BY <1>2, <2>2
  <2> QED BY <2>1, <2>2
<1> HIDE DEF all, file, n, missing
<1>7. /\ q' \in Seq(Records) /\ Len(q') <= MaxPending
      /\ ToSet(q') \subseteq ToSet(q) \cup {x} /\ ToSet(Oldest(all)) \subseteq Records
  <2>1. /\ Newest(all) \in Seq(Records) /\ Len(Newest(all)) <= MaxPending
        /\ ToSet(all) = ToSet(Newest(all)) \cup ToSet(Oldest(all))
    BY <1>5, NewestOldest
  <2>2. ToSet(all) \subseteq Records
    BY <1>5, ToSetType
  <2> QED BY <1>3, <1>5, <2>1, <2>2
<1>8. ToSet(q') \subseteq ToSet(file) \cup missing
  BY <1>1, <1>6, <1>7 DEF DiskInv, QueueIsOnDisk
<1>9. /\ spool' \in Seq(Records) /\ appends' \in Nat /\ handle' \in BOOLEAN
      /\ unwritten' \subseteq Records
      /\ ToSet(q') \subseteq ToSet(spool') \cup unwritten'
      /\ ~faults.disk => handle' /\ Len(spool') <= MaxPending + appends' /\ appends' < MaxPending
  BY <1>1, <1>3, <1>6, <1>7, <1>8, DiskWrite DEF DiskInv
<1>10. TypeParts'
  <2>1. dropped' \subseteq Records
    BY <1>1, <1>3, <1>7 DEF TypeParts
  <2> QED BY <1>1, <1>2, <1>4, <1>7, <1>9, <2>1 DEF TypeParts, loop, world, history
<1>11. DiskInv'
  BY <1>1, <1>4, <1>9 DEF DiskInv, QueueIsOnDisk, world
<1> QED BY <1>10, <1>11 DEF ShipInv

\* An offer of the head: it is shipped, set aside or put to the back.
LEMMA OfferKeeps == ShipInv /\ (Shipped \/ SetAside \/ Rotate) => ShipInv'
<1> SUFFICES ASSUME ShipInv, Shipped \/ SetAside \/ Rotate PROVE ShipInv'
  OBVIOUS
<1> DEFINE x == Head(q)
           t == Tail(q)
<1>1. TypeParts /\ DiskInv /\ q # << >>
  BY DEF ShipInv, Shipped, SetAside, Rotate, Refusal, Offering
<1>2. /\ x \in Records /\ t \in Seq(Records) /\ ToSet(q) = {x} \cup ToSet(t)
      /\ Len(t) = Len(q) - 1 /\ Len(q) \in Nat /\ Len(q) <= MaxPending
      /\ MaxPending \in Nat \ {0} /\ rotations \in 0 .. MaxPending
  <2>1. /\ Tail(q) \in Seq(Records) /\ Len(Tail(q)) = Len(q) - 1 /\ Head(q) \in Records
        /\ ToSet(q) = {Head(q)} \cup ToSet(Tail(q))
    BY <1>1, ToSetTail DEF TypeParts
  <2> QED BY <1>1, <2>1, ShipperAssumption DEF TypeParts
<1>3. q' = t \/ q' = Append(t, x)
  BY DEF Shipped, SetAside, Rotate
<1>4. Compact(spool, appends, q', unwritten) \/ MaybeCompact(spool, appends, q', unwritten)
  BY DEF Shipped, SetAside, Rotate
<1>5. /\ UNCHANGED <<bad, made, ch, armed, world, dropped, lost, faults>>
      /\ evidence' \in Evidence \/ evidence' = evidence
      /\ rotations' = 0 \/ (rotations' = rotations + 1 /\ rotations < Len(q))
      /\ asides' = 0 \/ asides' = asides + 1 \/ asides' = asides
      /\ cp' = cp \cup {x} \/ cp' = cp
      /\ refused' = refused \cup {x} \/ refused' = refused
      /\ unfiled' = unfiled \cup {x} \/ unfiled' = unfiled
  <2>1. CASE Shipped
    BY <2>1 DEF Shipped, Evidence
  <2>2. CASE SetAside
    BY <2>2 DEF SetAside, File, Evidence
  <2>3. CASE Rotate
    BY <2>3 DEF Rotate, MayRotate, Evidence, history
  <2> QED BY <2>1, <2>2, <2>3
<1> HIDE DEF x, t
<1>6. q' \in Seq(Records) /\ Len(q') <= MaxPending /\ ToSet(q') \subseteq ToSet(q)
  <2>1. CASE q' = t
    BY <1>2, <2>1
  <2>2. CASE q' = Append(t, x)
    <3>1. /\ Append(t, x) \in Seq(Records) /\ Len(Append(t, x)) = Len(t) + 1
          /\ ToSet(Append(t, x)) = ToSet(t) \cup {x}
      BY <1>2, ToSetAppend
    <3> QED BY <1>2, <2>2, <3>1
  <2> QED BY <1>3, <2>1, <2>2
<1>7. /\ ToSet(q) \subseteq ToSet(spool) \cup unwritten /\ spool \in Seq(Records) /\ appends \in Nat
      /\ unwritten \in SUBSET Records
  BY <1>1 DEF DiskInv, QueueIsOnDisk, TypeParts
<1>9. /\ spool' \in Seq(Records) /\ appends' \in Nat /\ handle' \in BOOLEAN
      /\ unwritten' \subseteq Records
      /\ ToSet(q') \subseteq ToSet(spool') \cup unwritten'
      /\ ~faults.disk => handle' /\ Len(spool') <= MaxPending + appends' /\ appends' < MaxPending
  BY <1>1, <1>4, <1>6, <1>7, DiskWrite DEF DiskInv
<1>10. rotations' \in 0 .. MaxPending /\ asides' \in Nat /\ evidence' \in Evidence
  BY <1>1, <1>2, <1>5 DEF TypeParts
<1>11. cp' \subseteq Records /\ refused' \subseteq Records /\ unfiled' \subseteq Records
  BY <1>1, <1>2, <1>5 DEF TypeParts
<1>12. TypeParts'
  BY <1>1, <1>5, <1>6, <1>9, <1>10, <1>11 DEF TypeParts, world
<1>13. DiskInv'
  BY <1>1, <1>5, <1>9 DEF DiskInv, QueueIsOnDisk, world
<1> QED BY <1>12, <1>13 DEF ShipInv

\* A process starts from a file of records.
LEMMA StartKeeps ==
  ASSUME ShipInv, NEW file \in Seq(Records), NEW memory \in SUBSET Records, Start(file, memory),
         NEW kind, Fault(kind)
  PROVE  ShipInv'
<1>1. TypeParts /\ DiskInv /\ MaxPending \in Nat \ {0}
  BY ShipperAssumption DEF ShipInv
<1>2. /\ q' \in Seq(Records) /\ Len(q') <= MaxPending /\ Len(q') \in Nat
      /\ ToSet(Oldest(file)) \subseteq Records /\ ToSet(q') \subseteq ToSet(file)
  <2>1. /\ Newest(file) \in Seq(Records) /\ Len(Newest(file)) <= MaxPending /\ Len(Newest(file)) \in Nat
        /\ ToSet(file) = ToSet(Newest(file)) \cup ToSet(Oldest(file))
    BY NewestOldest
  <2>2. ToSet(file) \subseteq Records
    BY ToSetType
  <2> QED BY <2>1, <2>2 DEF Start
<1>3. /\ Compact(file, 0, q', {}) /\ ch' = << >>
      /\ evidence' = "none" /\ rotations' = 0 /\ armed' = FALSE
      /\ dropped' = ToSet(Oldest(file))
      /\ lost' = lost \cup dropped \cup (memory \ ToSet(file))
      /\ UNCHANGED <<bad, made, refused, cp, world, unfiled, asides>>
  BY DEF Start
<1>4. faults' \in FaultRecords /\ (faults.disk => faults'.disk)
  BY <1>1, FaultType
<1>5. ch' \in Seq(Records) /\ Len(ch') <= MaxPending /\ rotations' \in 0 .. MaxPending
  BY <1>1, <1>3
<1>6. dropped' \subseteq Records /\ lost' \subseteq Records
  BY <1>1, <1>2, <1>3 DEF TypeParts
<1>7. /\ spool' \in Seq(Records) /\ appends' \in Nat /\ handle' \in BOOLEAN
      /\ unwritten' \subseteq Records
      /\ ToSet(q') \subseteq ToSet(spool') \cup unwritten'
      /\ ~faults.disk => handle' /\ Len(spool') <= MaxPending + appends' /\ appends' < MaxPending
  BY <1>1, <1>2, <1>3, DiskWrite DEF DiskInv
<1>8. TypeParts'
  BY <1>1, <1>2, <1>3, <1>4, <1>5, <1>6, <1>7 DEF TypeParts, Evidence, world
<1>9. DiskInv'
  BY <1>1, <1>3, <1>4, <1>7 DEF DiskInv, QueueIsOnDisk, world
<1> QED BY <1>8, <1>9 DEF ShipInv

\* Every step keeps the types and the file.
LEMMA ShipNext == ShipInv /\ [Next]_vars => ShipInv'
<1> SUFFICES ASSUME ShipInv, [Next]_vars PROVE ShipInv'
  OBVIOUS
<1> USE DEF disk, loop, world, history
<1>1. TypeParts /\ DiskInv /\ MaxPending \in Nat \ {0} /\ MaxRecords \in Nat
  BY ShipperAssumption DEF ShipInv
<1>2. CASE UNCHANGED vars
  BY <1>1, <1>2 DEF vars, ShipInv, TypeParts, DiskInv, QueueIsOnDisk
<1>3. CASE Log
  <2>1. made' \in 0 .. MaxRecords /\ made' \in Records
    BY <1>1, <1>3 DEF Log, TypeParts, Records
  <2>2. ch' \in Seq(Records) /\ Len(ch') <= MaxPending
    <3>1. CASE ch' = Append(ch, made') /\ Len(ch) < MaxPending
      BY <1>1, <2>1, <3>1, ToSetAppend DEF TypeParts
    <3> QED BY <1>1, <1>3, <3>1 DEF Log, TypeParts
  <2>3. dropped' \subseteq Records
    BY <1>1, <1>3, <2>1 DEF Log, TypeParts
  <2> QED BY <1>1, <1>3, <2>1, <2>2, <2>3 DEF Log, ShipInv, TypeParts, DiskInv, QueueIsOnDisk
<1>4. CASE Enqueue
  BY <1>4, EnqueueKeeps
<1>5. CASE Shipped \/ SetAside \/ Rotate
  BY <1>5, OfferKeeps
<1>6. CASE BackOff
  <2>1. /\ UNCHANGED <<bad, made, ch, q, disk, rotations, world, dropped, unwritten, history>>
        /\ armed' = TRUE /\ evidence' \in Evidence
    BY <1>1, <1>6 DEF BackOff, TypeParts, Evidence
  <2>2. /\ faults' \in FaultRecords /\ (faults.disk => faults'.disk)
        /\ cp' \subseteq Records
    <3>1. CASE UNCHANGED <<cp, faults>>
      BY <1>1, <3>1 DEF TypeParts
    <3>2. CASE Offering /\ Fault("answer") /\ cp' = cp \cup {Head(q)}
      <4>1. Head(q) \in Records
        BY <1>1, <3>2, ToSetTail DEF TypeParts, Offering
      <4> QED BY <1>1, <3>2, <4>1, FaultType DEF TypeParts
    <3> QED BY <1>6, <3>1, <3>2 DEF BackOff
  <2> QED BY <1>1, <2>1, <2>2 DEF ShipInv, TypeParts, DiskInv, QueueIsOnDisk
<1>7. CASE TimerFires
  BY <1>1, <1>7 DEF TimerFires, ShipInv, TypeParts, DiskInv, QueueIsOnDisk
<1>8. CASE ChannelFails
  <2>1. PICK c \in Channels : Fault(c) /\ channel' = c
    BY <1>8 DEF ChannelFails
  <2>2. faults' \in FaultRecords /\ (faults.disk => faults'.disk)
    BY <1>1, <2>1, FaultType
  <2> QED BY <1>1, <1>8, <2>1, <2>2 DEF ChannelFails, ShipInv, TypeParts, DiskInv, QueueIsOnDisk
<1>9. CASE ChannelRecovers
  BY <1>1, <1>9 DEF ChannelRecovers, ShipInv, TypeParts, DiskInv, QueueIsOnDisk, Channels
<1>10. CASE Crash
  <2>1. spool \in Seq(Records) /\ ToSet(ch) \cup ToSet(q) \in SUBSET Records
    BY <1>1, ToSetType DEF TypeParts
  <2> QED BY <1>10, <2>1, StartKeeps DEF Crash
<1>11. CASE Stop
  <2>1. q \in Seq(Records) /\ spool \in Seq(Records) /\ ToSet(q) \in SUBSET Records
    BY <1>1, ToSetType DEF TypeParts
  <2> QED BY <1>11, <2>1, StartKeeps DEF Stop
<1>12. CASE DiskFails
  <2>1. faults' \in FaultRecords /\ faults'.disk
    BY <1>1, <1>12, FaultType DEF DiskFails
  <2> QED BY <1>1, <1>12, <2>1 DEF DiskFails, ShipInv, TypeParts, DiskInv, QueueIsOnDisk
<1>13. CASE DiskRecovers
  BY <1>1, <1>13 DEF DiskRecovers, ShipInv, TypeParts, DiskInv, QueueIsOnDisk
<1> QED BY <1>2, <1>3, <1>4, <1>5, <1>6, <1>7, <1>8, <1>9, <1>10, <1>11, <1>12, <1>13 DEF Next, Ship

\* The first state.
LEMMA ShipInit == Init => ShipInv
<1> SUFFICES ASSUME Init PROVE ShipInv
  OBVIOUS
<1>1. MaxPending \in Nat \ {0} /\ MaxRecords \in Nat /\ MaxFaults \in Nat
  BY ShipperAssumption
<1>2. [n |-> 0, denied |-> FALSE, disk |-> FALSE] \in FaultRecords
  BY <1>1 DEF FaultRecords
<1>3. << >> \in Seq(Records) /\ Len(<< >>) = 0 /\ 0 \in 0 .. MaxRecords /\ 0 \in 0 .. MaxPending
  BY <1>1
<1>4. TypeParts
  <2>1. bad \in BadSets /\ made \in 0 .. MaxRecords /\ appends \in Nat /\ handle \in BOOLEAN
        /\ rotations \in 0 .. MaxPending /\ armed \in BOOLEAN /\ asides \in Nat /\ faults \in FaultRecords
        /\ failing \in BOOLEAN
    BY <1>2, <1>3 DEF Init
  <2>2. ch \in Seq(Records) /\ Len(ch) <= MaxPending /\ q \in Seq(Records) /\ Len(q) <= MaxPending
        /\ spool \in Seq(Records)
    BY <1>1, <1>3 DEF Init
  <2>3. evidence \in Evidence /\ channel \in Channels
    BY DEF Init, Evidence, Channels
  <2> QED BY <2>1, <2>2, <2>3 DEF Init, TypeParts
<1>5. DiskInv
  BY <1>1, <1>3 DEF Init, DiskInv, QueueIsOnDisk, ToSet
<1> QED BY <1>4, <1>5 DEF ShipInv

\* The channel, the queue, the file and the counters keep their types; the
\* channel and the queue never hold more than bufSize records.
THEOREM ShipperTypeCorrect == Spec => []TypeOK
<1>1. ShipInv => TypeOK
  BY TypeForms DEF ShipInv
<1> QED BY <1>1, ShipInit, ShipNext, PTL DEF Spec

\* A crash costs nothing that was queued: every queued record is in the file a
\* restart reads, but for lines the disk refused.
THEOREM QueueIsOnDiskHolds == Spec => []QueueIsOnDisk
<1>1. ShipInv => QueueIsOnDisk
  BY DEF ShipInv, DiskInv
<1> QED BY <1>1, ShipInit, ShipNext, PTL DEF Spec

\* However long the control plane stays away, the spool is rewritten before it
\* reaches twice the queue, unless the disk itself fails.
THEOREM SpoolIsBoundedHolds == Spec => []SpoolIsBounded
<1>1. ShipInv => SpoolIsBounded
  <2> SUFFICES ASSUME ShipInv, ~faults.disk PROVE Len(spool) < 2 * MaxPending
    BY DEF SpoolIsBounded
  <2>1. /\ Len(spool) \in Nat /\ appends \in Nat /\ MaxPending \in Nat
        /\ Len(spool) <= MaxPending + appends /\ appends < MaxPending
    BY ShipperAssumption DEF ShipInv, TypeParts, DiskInv
  <2> QED BY <2>1
<1> QED BY <1>1, ShipInit, ShipNext, PTL DEF Spec
-----------------------------------------------------------------------------
(* No record disappears.                                                     *)

\* Where a record may be.
Accounted(rec) ==
  rec \in ToSet(ch) \/ rec \in ToSet(q) \/ rec \in cp \/ rec \in refused
    \/ rec \in dropped \/ rec \in unfiled \/ rec \in lost

\* NothingVanishes, record by record.
LEMMA VanishForms == NothingVanishes <=> \A rec \in 1 .. made : Accounted(rec)
BY DEF NothingVanishes, Accounted

\* A start accounts for what the file holds, and takes the rest for lost.
LEMMA StartAccounts ==
  ASSUME NEW file \in Seq(Records), NEW memory, Start(file, memory), ToSet(ch) \cup ToSet(q) \subseteq memory
  PROVE  \A rec : Accounted(rec) => Accounted(rec)'
<1>1. ToSet(file) = ToSet(Newest(file)) \cup ToSet(Oldest(file))
  BY NewestOldest
<1>2. \A rec \in ToSet(file) : rec \in ToSet(q') \/ rec \in dropped'
  BY <1>1 DEF Start
<1>3. lost' = lost \cup dropped \cup (memory \ ToSet(file)) /\ UNCHANGED <<cp, refused, unfiled>>
  BY DEF Start
<1> QED BY <1>2, <1>3 DEF Accounted

\* No step lets go of a record, and a new one is taken in.
LEMMA VanishNext == ShipInv /\ NothingVanishes /\ [Next]_vars => NothingVanishes'
<1> SUFFICES ASSUME ShipInv, NothingVanishes, [Next]_vars PROVE NothingVanishes'
  OBVIOUS
<1> USE DEF disk, loop, world, history
<1>1. /\ TypeParts /\ made \in Nat /\ \A rec \in 1 .. made : Accounted(rec)
      /\ ch \in Seq(Records) /\ q \in Seq(Records) /\ spool \in Seq(Records)
  BY VanishForms, ShipperAssumption DEF ShipInv, TypeParts
<1>2. ASSUME made' = made, \A rec : Accounted(rec) => Accounted(rec)' PROVE NothingVanishes'
  BY <1>1, <1>2 DEF NothingVanishes, Accounted
<1>3. CASE UNCHANGED vars
  BY <1>2, <1>3 DEF vars, Accounted
<1>4. CASE Log
  <2>1. PICK new \in Records : new = made + 1
    <3>1. made \in 0 .. MaxRecords /\ MaxRecords \in Nat /\ made < MaxRecords
      BY <1>1, <1>4, ShipperAssumption DEF Log, TypeParts
    <3> QED BY <3>1 DEF Records
  <2>2. /\ made' = new
        /\ \/ ch' = Append(ch, new) /\ UNCHANGED dropped
           \/ dropped' = dropped \cup {new} /\ UNCHANGED ch
        /\ UNCHANGED <<q, cp, refused, unfiled, lost>>
    BY <1>4, <2>1 DEF Log
  <2>3. ToSet(Append(ch, new)) = ToSet(ch) \cup {new}
    BY <1>1, ToSetAppend
  <2>4. \A rec : Accounted(rec) \/ rec = new => Accounted(rec)'
    BY <2>2, <2>3 DEF Accounted
  <2>5. \A rec \in 1 .. new : rec \in 1 .. made \/ rec = new
    BY <1>1, <2>1
  <2>6. \A rec \in 1 .. new : Accounted(rec)'
    BY <1>1, <2>4, <2>5
  <2> QED BY <2>2, <2>6 DEF NothingVanishes, Accounted
<1>5. CASE Enqueue
  <2> DEFINE x == Head(ch)
             all == Append(q, x)
  <2>1. ch' = Tail(ch) /\ ch # << >> /\ q' = Newest(all) /\ dropped' = dropped \cup ToSet(Oldest(all))
        /\ UNCHANGED <<made, cp, refused, unfiled, lost>>
    BY <1>5 DEF Enqueue
  <2>2. x \in Records /\ ToSet(ch) = {x} \cup ToSet(ch')
    BY <1>1, <2>1, ToSetTail
  <2> HIDE DEF x
  <2>3. all \in Seq(Records) /\ ToSet(all) = ToSet(q) \cup {x}
    BY <1>1, <2>2, ToSetAppend
  <2> HIDE DEF all
  <2>4. ToSet(all) = ToSet(q') \cup ToSet(Oldest(all))
    BY <2>1, <2>3, NewestOldest
  <2> QED BY <1>2, <2>1, <2>2, <2>3, <2>4 DEF Accounted
<1>6. CASE Shipped \/ SetAside \/ Rotate
  <2>1. q # << >> /\ UNCHANGED <<made, ch, dropped, lost>>
    BY <1>6 DEF Shipped, SetAside, Rotate, Refusal, Offering
  <2>2. ToSet(q) = {Head(q)} \cup ToSet(Tail(q)) /\ Tail(q) \in Seq(Records) /\ Head(q) \in Records
    BY <1>1, <2>1, ToSetTail
  <2>3. CASE Shipped
    BY <1>2, <2>1, <2>2, <2>3 DEF Shipped, Accounted
  <2>4. CASE SetAside
    BY <1>2, <2>1, <2>2, <2>4 DEF SetAside, File, Accounted
  <2>5. CASE Rotate
    <3>1. ToSet(q') = ToSet(q)
      <4> DEFINE t == Tail(q)
                 x == Head(q)
      <4>1. q' = Append(t, x) /\ t \in Seq(Records) /\ x \in Records /\ ToSet(q) = {x} \cup ToSet(t)
        BY <2>2, <2>5 DEF Rotate
      <4> HIDE DEF t, x
      <4>2. ToSet(Append(t, x)) = ToSet(t) \cup {x}
        BY <4>1, ToSetAppend
      <4> QED BY <4>1, <4>2
    <3> QED BY <1>2, <2>1, <2>5, <3>1 DEF Rotate, Accounted
  <2> QED BY <1>6, <2>3, <2>4, <2>5
<1>7. CASE BackOff
  <2>1. UNCHANGED <<made, ch, q, refused, dropped, unfiled, lost>> /\ cp \subseteq cp'
    BY <1>7 DEF BackOff
  <2> QED BY <1>2, <2>1 DEF Accounted
<1>8. CASE TimerFires \/ ChannelFails \/ ChannelRecovers \/ DiskFails \/ DiskRecovers
  BY <1>2, <1>8 DEF TimerFires, ChannelFails, ChannelRecovers, DiskFails, DiskRecovers, Accounted
<1>9. CASE Crash
  BY <1>1, <1>2, <1>9, StartAccounts DEF Crash, Start
<1>10. CASE Stop
  <2>1. ToSet(ch) = {}
    BY <1>10 DEF Stop, ToSet
  <2>2. PICK file \in {q, spool} : Start(file, ToSet(q))
    BY <1>10 DEF Stop
  <2>3. \A rec : Accounted(rec) => Accounted(rec)'
    BY <1>1, <2>1, <2>2, StartAccounts
  <2> QED BY <1>2, <2>2, <2>3 DEF Start
<1> QED BY <1>3, <1>4, <1>5, <1>6, <1>7, <1>8, <1>9, <1>10 DEF Next, Ship

\* Every record logged is on its way, delivered, set aside on disk or counted as
\* dropped, or went with a process that ended or with a failing disk.
THEOREM NothingVanishesHolds == Spec => []NothingVanishes
<1>1. Init => NothingVanishes
  BY DEF Init, NothingVanishes
<1> QED BY <1>1, VanishNext, ShipInit, ShipNext, PTL DEF Spec

-----------------------------------------------------------------------------
(* An outage is not taken for bad records.                                   *)

\* The strengthening: a success that follows a refusal is newer than any setting
\* aside.
AsideInv == asides \in Nat /\ OneAsidePerDelivery /\ (evidence = "shipped" => asides = 0)

\* Every step keeps it: only a shipment makes the evidence a setting aside uses up.
LEMMA AsideNext == AsideInv /\ [Next]_vars => AsideInv'
<1> SUFFICES ASSUME AsideInv, [Next]_vars PROVE AsideInv'
  OBVIOUS
<1> USE DEF disk, loop, history, AsideInv, OneAsidePerDelivery
<1>1. CASE \/ UNCHANGED vars \/ Log \/ Enqueue \/ TimerFires
           \/ ChannelFails \/ ChannelRecovers \/ DiskFails \/ DiskRecovers
  BY <1>1 DEF vars, Log, Enqueue, TimerFires, ChannelFails, ChannelRecovers, DiskFails, DiskRecovers
<1>2. CASE Shipped
  BY <1>2 DEF Shipped
<1>3. CASE SetAside
  BY <1>3 DEF SetAside, Proven
<1>4. CASE Rotate
  BY <1>4 DEF Rotate
<1>5. CASE BackOff
  BY <1>5 DEF BackOff
<1>6. CASE Crash \/ Stop
  BY <1>6 DEF Crash, Stop, Start
<1> QED BY <1>1, <1>2, <1>3, <1>4, <1>5, <1>6 DEF Next, Ship

\* No two records are set aside unless one was delivered in between, however the
\* way to the control plane fails and comes back.
THEOREM OneAsidePerDeliveryHolds == Spec => []OneAsidePerDelivery
<1>1. Init => AsideInv
  BY DEF Init, AsideInv, OneAsidePerDelivery
<1>2. AsideInv => OneAsidePerDelivery
  BY DEF AsideInv
<1> QED BY <1>1, <1>2, AsideNext, PTL DEF Spec
===============================================================================

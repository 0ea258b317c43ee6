----------------------------- MODULE AuditShipper -----------------------------
(***************************************************************************)
(* The Edge's shipping of its audit records to the control plane           *)
(* (cmd/dsse-edge/audit_ship.go, audit_ship_spool.go).  The log hook puts  *)
(* a record into a bounded channel; one goroutine moves it to a queue      *)
(* mirrored in a spool file, offers the head to the control plane, keeps   *)
(* what is not acknowledged and replays it after a restart.  A refusal     *)
(* that may be about the record itself is put to the test: the head goes   *)
(* to the back, and if other records get through it is set aside.          *)
(*                                                                         *)
(* A record is its number in the order of logging.  The count of shipped   *)
(* records and the watermark it is compared with are kept as what the      *)
(* comparison says: no refusal outstanding, one, or one followed by a      *)
(* success.                                                                *)
(***************************************************************************)
EXTENDS Naturals, FiniteSets, Sequences, FiniteSetsExt, SequencesExt

CONSTANTS
  MaxPending,   \* bufSize: of the channel, the queue, and the spool's compaction
  BadSets,      \* which records the control plane may refuse for good
  FaultKinds,   \* what may go wrong
  MaxFaults,    \* bound: how many things go wrong in one behaviour
  MaxRecords    \* bound: records logged in one behaviour

ASSUME ShipperAssumption ==
  /\ MaxPending \in Nat \ {0} /\ MaxFaults \in Nat /\ MaxRecords \in Nat
  /\ \A bad \in BadSets : bad \subseteq 1 .. MaxRecords

VARIABLES
  bad,        \* the records the control plane will never take
  made,       \* records logged so far
  ch,         \* the channel from the log hook
  q,          \* the queue of records not acknowledged
  spool,      \* the spool file
  appends,    \* lines appended since the spool was last rewritten
  handle,     \* is the spool open for appending?
  refused,    \* the refused spool: records set aside
  evidence,   \* shippedWhenHeadFirstRefused against shipped
  rotations,  \* rotationsSinceProgress
  armed,      \* waiting out the backoff
  cp,         \* the records the control plane has
  channel,    \* the way there: up, down, or refusing whatever is sent
  failing,    \* may a write to the disk fail?
  dropped,    \* the records this process's dropped counter counts
  unwritten,  \* history: queued records whose line could not be written
  unfiled,    \* history: records set aside whose line could not be written
  lost,       \* history: records that went with a process: in memory, or counted
  asides,     \* history: records set aside since one was last shipped
  faults

disk == <<spool, appends, handle, refused>>
loop == <<evidence, rotations, armed>>
world == <<channel, failing>>
history == <<unfiled, lost, asides>>

vars == <<bad, made, ch, q, disk, loop, cp, world, dropped, unwritten, history, faults>>

Records == 1 .. MaxRecords

Evidence == {"none", "refused", "shipped"}

Channels == {"up", "down", "denying"}

TypeOK ==
  /\ bad \in BadSets /\ made \in 0 .. MaxRecords
  /\ ch \in Seq(Records) /\ Len(ch) <= MaxPending
  /\ q \in Seq(Records) /\ Len(q) <= MaxPending
  /\ spool \in Seq(Records) /\ appends \in Nat /\ handle \in BOOLEAN
  /\ evidence \in Evidence /\ rotations \in 0 .. MaxPending /\ armed \in BOOLEAN
  /\ channel \in Channels /\ failing \in BOOLEAN
  /\ UNION {refused, cp, dropped, unwritten, unfiled, lost} \subseteq Records
  /\ asides \in Nat
  /\ faults \in [n : 0 .. MaxFaults, denied : BOOLEAN, disk : BOOLEAN]

Init ==
  /\ bad \in BadSets /\ made = 0
  /\ ch = << >> /\ q = << >>
  /\ spool = << >> /\ appends = 0 /\ handle = TRUE /\ refused = {}
  /\ evidence = "none" /\ rotations = 0 /\ armed = FALSE
  /\ cp = {} /\ channel = "up" /\ failing = FALSE
  /\ dropped = {} /\ unwritten = {} /\ unfiled = {} /\ lost = {} /\ asides = 0
  /\ faults = [n |-> 0, denied |-> FALSE, disk |-> FALSE]

-----------------------------------------------------------------------------
Fault(kind) ==
  /\ kind \in FaultKinds /\ faults.n < MaxFaults
  /\ faults' = [n |-> faults.n + 1, denied |-> faults.denied \/ kind = "denying",
                disk |-> faults.disk \/ kind = "disk"]

\* The newest MaxPending records of a sequence, and the ones in front of them.
Newest(s) == LET n == Len(s) IN IF n > MaxPending THEN SubSeq(s, n - MaxPending + 1, n) ELSE s

Oldest(s) == SubSeq(s, 1, Len(s) - Len(Newest(s)))

(* The spool file.                                                          *)

\* Mutant: the file is truncated before it is written again.
NotReplaced_Truncated(file) == spool' = << >>

\* A rewrite that fails leaves the file as it was.
NotReplaced(file) == spool' = file

\* compact: the file, holding the lines given, becomes exactly the queue given.
\* The append handle is closed for the rename and may not open again.
Compact(file, n, queue, missing) ==
  \/ /\ spool' = queue /\ appends' = 0
     /\ handle' \in {TRUE, ~failing}
     /\ unwritten' = {}
  \/ /\ failing
     /\ NotReplaced(file) /\ appends' = n
     /\ handle' \in BOOLEAN
     /\ unwritten' = missing

\* Mutant: the file is never rewritten while records are queued.
MaybeCompact_Never(file, n, queue, missing) ==
  spool' = file /\ appends' = n /\ unwritten' = missing /\ UNCHANGED handle

MaybeCompact(file, n, queue, missing) ==
  IF n >= MaxPending THEN Compact(file, n, queue, missing)
  ELSE spool' = file /\ appends' = n /\ unwritten' = missing /\ UNCHANGED handle

-----------------------------------------------------------------------------
\* The log hook: a record that does not fit into the channel is counted and let go.
Log ==
  /\ made < MaxRecords
  /\ made' = made + 1
  /\ IF Len(ch) < MaxPending
     THEN ch' = Append(ch, made') /\ UNCHANGED dropped
     ELSE dropped' = dropped \cup {made'} /\ UNCHANGED ch
  /\ UNCHANGED <<bad, q, disk, loop, cp, world, unwritten, history, faults>>

\* enqueue: into the queue and onto disk before it is ever offered; the oldest
\* goes when there are too many.  A line that cannot be written is not noticed.
Enqueue ==
  /\ ch # << >>
  /\ ch' = Tail(ch)
  /\ \E written \in BOOLEAN :
       /\ written => handle
       /\ ~written => ~handle \/ failing
       /\ LET all     == Append(q, Head(ch))
              file    == IF written THEN Append(spool, Head(ch)) ELSE spool
              n       == IF written THEN appends + 1 ELSE appends
              missing == IF written THEN unwritten ELSE unwritten \cup {Head(ch)}
          IN  /\ q' = Newest(all)
              /\ dropped' = dropped \cup ToSet(Oldest(all))
              /\ IF Len(all) > MaxPending THEN Compact(file, n, q', missing)
                 ELSE MaybeCompact(file, n, q', missing)
  /\ UNCHANGED <<bad, made, refused, loop, cp, world, history, faults>>

-----------------------------------------------------------------------------
(* One offer of the head of the queue.                                      *)

Offering == q # << >> /\ ~armed

\* The control plane has the record and says so.
Shipped ==
  /\ Offering /\ channel = "up" /\ Head(q) \notin bad
  /\ cp' = cp \cup {Head(q)}
  /\ q' = Tail(q)
  /\ rotations' = 0
  /\ evidence' = IF evidence = "refused" THEN "shipped" ELSE evidence
  /\ asides' = 0
  /\ IF q' = << >> THEN Compact(spool, appends, q', unwritten)
     ELSE MaybeCompact(spool, appends, q', unwritten)
  /\ UNCHANGED <<bad, made, ch, refused, armed, world, dropped, unfiled, lost, faults>>

\* A refusal that may be about the record (recordSpecific): 4xx but 408 and 429.
Refusal == Offering /\ (channel = "denying" \/ (channel = "up" /\ Head(q) \in bad))

\* Mutant: with no refusal outstanding, one counts as followed by a success.
Proven_Sentinel == evidence # "refused"

\* Something was shipped since the refusal that is outstanding.
Proven == evidence = "shipped"

\* Mutant: what is set aside is not kept.
File_Nowhere(rec) == UNCHANGED <<refused, unfiled>>

\* The append to the refused spool, which may fail unnoticed.
File(rec) ==
  \/ refused' = refused \cup {rec} /\ UNCHANGED unfiled
  \/ failing /\ unfiled' = unfiled \cup {rec} /\ UNCHANGED refused

\* The record goes to the refused spool and, whether or not it is there, out of
\* the queue.
SetAside ==
  /\ Refusal /\ Proven
  /\ File(Head(q))
  /\ q' = Tail(q)
  /\ evidence' = "none" /\ rotations' = 0
  /\ asides' = asides + 1
  /\ Compact(spool, appends, q', unwritten)
  /\ UNCHANGED <<bad, made, ch, armed, cp, world, dropped, lost, faults>>

\* Mutant: a refused record stays at the head.
MayRotate_Never == FALSE

MayRotate == Len(q) > 1 /\ rotations < Len(q)

\* The head goes to the back, and the next record is tried.
Rotate ==
  /\ Refusal /\ ~Proven /\ MayRotate
  /\ q' = Append(Tail(q), Head(q))
  /\ evidence' = "refused"
  /\ rotations' = rotations + 1
  /\ Compact(spool, appends, q', unwritten)
  /\ UNCHANGED <<bad, made, ch, refused, armed, cp, world, dropped, history, faults>>

\* Nothing got through: everything is kept, and the loop backs off.
BackOff ==
  /\ \/ Refusal /\ ~Proven /\ ~MayRotate /\ evidence' = "refused" /\ UNCHANGED <<cp, faults>>
     \/ Offering /\ channel = "down" /\ UNCHANGED <<evidence, cp, faults>>
     \/ /\ Offering /\ channel = "up" /\ Head(q) \notin bad    \* the answer is lost
        /\ Fault("answer")
        /\ cp' = cp \cup {Head(q)}
        /\ UNCHANGED evidence
  /\ armed' = TRUE
  /\ UNCHANGED <<bad, made, ch, q, disk, rotations, world, dropped, unwritten, history>>

TimerFires ==
  /\ armed
  /\ armed' = FALSE
  /\ UNCHANGED <<bad, made, ch, q, disk, evidence, rotations, cp, world, dropped,
                 unwritten, history, faults>>

-----------------------------------------------------------------------------
(* The way to the control plane and the disk fail and come back; the Edge    *)
(* stops.                                                                   *)

ChannelFails ==
  /\ channel = "up"
  /\ \E c \in Channels \ {"up"} : Fault(c) /\ channel' = c
  /\ UNCHANGED <<bad, made, ch, q, disk, loop, cp, failing, dropped, unwritten, history>>

ChannelRecovers ==
  /\ channel # "up"
  /\ channel' = "up"
  /\ UNCHANGED <<bad, made, ch, q, disk, loop, cp, failing, dropped, unwritten, history, faults>>

DiskFails ==
  /\ ~failing /\ Fault("disk")
  /\ failing' = TRUE
  /\ UNCHANGED <<bad, made, ch, q, disk, loop, cp, channel, dropped, unwritten, history>>

DiskRecovers ==
  /\ failing
  /\ failing' = FALSE
  /\ UNCHANGED <<bad, made, ch, q, disk, loop, cp, channel, dropped, unwritten, history, faults>>

\* The process that had the records given in memory is gone, with its counter;
\* the next one starts with the newest records of the spool, which is rewritten
\* to hold just those.
Start(file, memory) ==
  /\ q' = Newest(file)
  /\ dropped' = ToSet(Oldest(file))
  /\ Compact(file, 0, q', {})
  /\ ch' = << >>
  /\ evidence' = "none" /\ rotations' = 0 /\ armed' = FALSE
  /\ lost' = lost \cup dropped \cup (memory \ ToSet(file))
  /\ UNCHANGED <<bad, made, refused, cp, world, unfiled, asides>>

Crash == Fault("crash") /\ Start(spool, ToSet(ch) \cup ToSet(q))

\* stop, with everything logged before it in the queue: the spool is left as the
\* queue, if it can be rewritten.
Stop ==
  /\ Fault("stop")
  /\ ch = << >>
  /\ \/ Start(q, ToSet(q))
     \/ failing /\ Start(spool, ToSet(q))

-----------------------------------------------------------------------------
Ship == Shipped \/ SetAside \/ Rotate \/ BackOff

Next ==
  \/ Log \/ Enqueue \/ Ship \/ TimerFires
  \/ ChannelFails \/ ChannelRecovers \/ DiskFails \/ DiskRecovers \/ Crash \/ Stop

Spec == Init /\ [][Next]_vars

\* The goroutine keeps running, and an outage ends.
FairSpec ==
  Spec /\ WF_vars(Enqueue) /\ SF_vars(Ship) /\ WF_vars(TimerFires) /\ WF_vars(ChannelRecovers)

-----------------------------------------------------------------------------
(* Properties.                                                              *)

\* A crash costs nothing that was queued: whatever rotating, setting aside,
\* dropping and rewriting went before, every record in the queue is in the
\* file a restart reads, but for lines the disk refused.
QueueIsOnDisk == ToSet(q) \subseteq ToSet(spool) \cup unwritten

\* No record disappears without a trace: it is on its way, delivered, set aside
\* on disk, or counted as dropped; or it was only in the memory of a process that
\* ended, as a record or as a count, or was set aside while the disk was failing.
NothingVanishes ==
  1 .. made \subseteq UNION {ToSet(ch), ToSet(q), cp, refused, dropped, unfiled, lost}

\* What is set aside is in the refused spool: the comment on the refused counter
\* says each such record is written there first.
SetAsideIsOnFile == unfiled \subseteq refused

\* An outage is not taken for bad records: no two are set aside unless one was
\* delivered in between.
OneAsidePerDelivery == asides <= 1

\* The file stays below twice the queue's bound, unless rewriting it failed.
SpoolIsBounded == faults.disk \/ Len(spool) < 2 * MaxPending

Settled(rec) == rec \in UNION {cp, refused, unfiled, dropped, lost}

\* One record the control plane refuses for good does not hold the others back:
\* while the Edge itself is not refused and the queue does not overflow, every
\* other record is delivered in the end.
OneBadRecordBlocksNobody ==
  \A rec \in Records :
    (rec \in ToSet(q) \ bad) ~>
      (Settled(rec) \/ faults.denied \/ Cardinality(bad) > 1 \/ dropped # {})
=============================================================================

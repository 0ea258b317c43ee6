---------------------------- MODULE ReportReceipt ----------------------------
(***************************************************************************)
(* What the Edge promises a device about its update reports.  The device   *)
(* deletes its only copy on the acknowledgement, which it gets only when   *)
(* the report is on the audit log, shown by the fleet view and passed on   *)
(* downstream.  The log and what was passed on stay; the fleet view stays  *)
(* too if it is kept, and otherwise it is rebuilt, from the log or part of *)
(* it.                                                                     *)
(***************************************************************************)
CONSTANT Keys

VARIABLES
  logged,  \* the reports on the audit log
  shown,   \* the reports in the fleet view
  told,    \* the reports passed on downstream
  taken,   \* the reports the device has been told it may forget
  kept     \* whether the fleet view outlives the process

vars == <<logged, shown, told, taken, kept>>

Init ==
  /\ logged = {} /\ shown = {} /\ told = {} /\ taken = {}
  /\ kept \in BOOLEAN

Log(k) == logged' = logged \cup {k} /\ UNCHANGED <<shown, told, taken, kept>>

Show(k) == k \in logged /\ shown' = shown \cup {k} /\ UNCHANGED <<logged, told, taken, kept>>

Tell(k) ==
  k \in logged \cap shown /\ told' = told \cup {k} /\ UNCHANGED <<logged, shown, taken, kept>>

Acknowledge(k) ==
  /\ k \in logged \cap shown \cap told
  /\ taken' = taken \cup {k}
  /\ UNCHANGED <<logged, shown, told, kept>>

Rebuild == ~kept /\ shown' \in SUBSET logged /\ UNCHANGED <<logged, told, taken, kept>>

Next == Rebuild \/ \E k \in Keys : Log(k) \/ Show(k) \/ Tell(k) \/ Acknowledge(k)

Spec == Init /\ [][Next]_vars
=============================================================================

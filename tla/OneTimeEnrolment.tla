--------------------------- MODULE OneTimeEnrolment ---------------------------
(***************************************************************************)
(* What enrolment promises: an identity is issued one certificate, and one *)
(* more for every permission to enrol again.                               *)
(***************************************************************************)
EXTENDS Naturals

CONSTANT Ids

VARIABLES
  issued,    \* identity -> certificates answered to a device
  permitted  \* identity -> certificates it may have had by now

Init ==
  /\ issued = [i \in Ids |-> 0]
  /\ permitted = [i \in Ids |-> 1]

Issue(i) ==
  /\ issued[i] < permitted[i]
  /\ issued' = [issued EXCEPT ![i] = @ + 1]
  /\ UNCHANGED permitted

Permit(i) ==
  /\ permitted'[i] >= permitted[i]
  /\ permitted' = [permitted EXCEPT ![i] = permitted'[i]]
  /\ UNCHANGED issued

Next == \E i \in Ids : Issue(i) \/ Permit(i)

Spec == Init /\ [][Next]_<<issued, permitted>>
===============================================================================

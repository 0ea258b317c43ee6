---------------------------- MODULE MCAuditShipper ----------------------------
(* Small instances of AuditShipper for TLC. *)
EXTENDS AuditShipper

AnyOfThree == SUBSET {1, 2, 3}
=============================================================================

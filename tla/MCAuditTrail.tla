---------------------------- MODULE MCAuditTrail ----------------------------
(* Small instances of AuditTrail.                                          *)
EXTENDS AuditTrail

(* Every trail on one path.                                                *)
SamePath == [t \in Trails |-> CHOOSE f \in Files : TRUE]
=============================================================================

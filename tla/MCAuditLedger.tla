---------------------------- MODULE MCAuditLedger ----------------------------
(***************************************************************************)
(* Small instances of AuditLedger: one operation at a time with crashes,   *)
(* restores and rollbacks, or two at once with a crash, a restore or a     *)
(* rollback.                                                               *)
(***************************************************************************)
EXTENDS AuditLedger

CONSTANTS a, b

Two == {a, b}

Budget(operations, rows, restores, crashes, rollbacks) ==
    [operations |-> operations, rows |-> rows, restores |-> restores,
     crashes |-> crashes, rollbacks |-> rollbacks]

OneOrTwo == {Budget({a}, 4, 2, 2, 2), Budget({a, b}, 3, 0, 1, 0),
             Budget({a, b}, 3, 1, 0, 0), Budget({a, b}, 3, 0, 0, 1)}
Restoring == {Budget({a, b}, 3, 1, 0, 0)}
=============================================================================

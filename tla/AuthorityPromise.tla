--------------------------- MODULE AuthorityPromise ---------------------------
(***************************************************************************)
(* What a seed's authority promises to everyone who reads it: the point of *)
(* use, the records of past decisions, the audit ledger.                   *)
(*                                                                         *)
(* A reader keeps the version it saw.  As long as the version is the same, *)
(* the seed is as authorized, and as contradicted, as it was then; a seed  *)
(* is authorized only while no contradiction blocks it; a retired seed     *)
(* never comes back.                                                       *)
(***************************************************************************)
EXTENDS Naturals

VARIABLES
    standing,  \* open, authorized, retired
    blocked,   \* an unresolved contradiction
    version

state == <<standing, blocked, version>>

Init == standing = "open" /\ blocked = FALSE /\ version = 0

Authorize ==
    /\ standing = "open" /\ ~blocked
    /\ standing' = "authorized" /\ UNCHANGED blocked
    /\ version' > version

Withdraw ==
    /\ standing = "authorized"
    /\ standing' = "open" /\ UNCHANGED blocked
    /\ version' > version

\* A further contradiction of a seed that is blocked already may leave no trace.
Contradict ==
    /\ standing # "retired"
    /\ standing' = "open" /\ blocked' = TRUE
    /\ version' > version \/ (blocked /\ version' = version)

Settle ==
    /\ standing = "open" /\ blocked
    /\ blocked' = FALSE /\ UNCHANGED standing
    /\ version' > version

\* Weight, evidence or the number of contradictions changed, and nothing else.
Revise ==
    /\ standing # "retired"
    /\ version' > version /\ UNCHANGED <<standing, blocked>>

Retire ==
    /\ standing # "retired"
    /\ standing' = "retired" /\ UNCHANGED blocked
    /\ version' > version \/ (standing = "open" /\ version' = version)

Next == Authorize \/ Withdraw \/ Contradict \/ Settle \/ Revise \/ Retire

Spec == Init /\ [][Next]_state
=============================================================================

-------------------------- MODULE MCSessionService --------------------------
(***************************************************************************)
(* Small instances of SessionService: two threads of one process, and two  *)
(* processes with a thread each.                                           *)
(***************************************************************************)
EXTENDS SessionService, TLC

CONSTANTS a, b, p, q, r1, r2, x, y

Two == {a, b}
Threads == [t \in Two |-> p]
Apart == a :> p @@ b :> q
Together == {Threads}
Either == {Threads, Apart}

\* A turn, its repetition with the same and with other content and as another operation,
\* another turn, a control change and the deletion.
MCCalls == {[kind |-> "turn", request |-> r1, input |-> x],
            [kind |-> "turn", request |-> r1, input |-> y],
            [kind |-> "evidence", request |-> r1, input |-> x],
            [kind |-> "turn", request |-> r2, input |-> x],
            [kind |-> "controls", request |-> None, input |-> None],
            [kind |-> "delete", request |-> None, input |-> None]}
=============================================================================

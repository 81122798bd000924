----------------------------- MODULE MCBootstrap -----------------------------
(* Circumstances under which TLC looks at Bootstrap.                         *)
EXTENDS Bootstrap, TLC

CONSTANTS p1, p2

Circumstances(opens, past, serial, timeouts, crashes, edits, saves) ==
    [opens |-> opens, past |-> past, serial |-> serial, timeouts |-> timeouts,
     crashes |-> crashes, edits |-> edits, saves |-> saves]

\* A first bind by two processes that die and are edited under; a workspace of an
\* earlier release; an import, by itself and overtaken by a bind; two processes whose threads run freely.
AllInstances ==
    {Circumstances({p1, p2}, "none", TRUE, FALSE, 3, 1, 1),
     Circumstances({p1, p2}, "none", TRUE, FALSE, 1, 0, 2),
     Circumstances({p1, p2}, "legacy", FALSE, TRUE, 2, 1, 1),
     Circumstances({p1}, "backup", TRUE, TRUE, 3, 0, 1),
     Circumstances({p1, p2}, "backup", FALSE, FALSE, 1, 0, 1),
     Circumstances({p1, p2}, "none", FALSE, TRUE, 2, 0, 2)}

\* One process that binds in one thread while it saves in another.
ThreadedInstances == {Circumstances({p1}, "none", FALSE, FALSE, 0, 0, 1)}
=============================================================================

---------------------------- MODULE MCPointOfUse ----------------------------
(***************************************************************************)
(* Small instance of PointOfUse: one use, anywhere in the life of a seed.  *)
(***************************************************************************)
EXTENDS PointOfUse

CONSTANTS s1, s2

MCSources == {s1, s2}

Of(recurrence, external, contradiction) ==
    [recurrence |-> recurrence, external |-> external,
     contradiction |-> contradiction, selfDerived |-> FALSE]

Seen(kind, source) == [kind |-> kind, source |-> source, verified |-> TRUE]
Unverified(kind, source) == [kind |-> kind, source |-> source, verified |-> FALSE]

\* Recurrence alone, a contradiction beside evidence and a document nobody reviewed,
\* and one source over two channels in one call beside recurrence and an
\* observation nobody verified.
UseOffers ==
    {Of(TRUE, {}, FALSE),
     Of(FALSE, {Seen("human_feedback", s1), Unverified("ssot", s2)}, TRUE),
     Of(TRUE, {Seen("human_feedback", s1), Seen("retrieval", s1),
               Unverified("retrieval", s2)}, FALSE)}

NoTurns == {}
Probes == {0, -2}
UsePolicies == {"exploratory", "evidence_backed", LegacyPolicy}
=============================================================================

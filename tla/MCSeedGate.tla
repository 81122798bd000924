----------------------------- MODULE MCSeedGate -----------------------------
(***************************************************************************)
(* Small instance of SeedGate.  Two sources suffice to tell a repeated     *)
(* source from an independent one; the offers are the shapes the callers   *)
(* submit.  promotion_threshold is configured to 0.4 so that two supports  *)
(* promote and a short event log reaches every interesting order.          *)
(***************************************************************************)
EXTENDS SeedGate

CONSTANTS s1, s2

MCSources == {s1, s2}

Ext(kind, source, verified) ==
    [kind |-> kind, source |-> source, verified |-> verified]

Of(recurrence, external, contradiction, selfDerived) ==
    [recurrence |-> recurrence, external |-> external,
     contradiction |-> contradiction, selfDerived |-> selfDerived]

Feedback(s) == Ext("human_feedback", s, TRUE)

Recurrence == Of(TRUE, {}, FALSE, FALSE)
SelfDerived == Of(FALSE, {}, FALSE, TRUE)

\* What a live conversation submits while the seed ages and is redetected.
LifeOffers == {Recurrence, SelfDerived, Of(FALSE, {Feedback(s1)}, FALSE, FALSE),
               Of(FALSE, {Feedback(s2)}, TRUE, FALSE)}

OneTurn == {1}
Probes == {1, 0, -2}
LivePolicies == {"exploratory", "bounded_self_derived", LegacyPolicy}
=============================================================================

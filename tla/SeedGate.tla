------------------------------ MODULE SeedGate ------------------------------
(***************************************************************************)
(* The authority life of one shadow seed: the Validation Gate engine       *)
(* (gate/runtime_adapter.py, gate/policies.py), contradiction records      *)
(* (contradictions.py) and the mechanical lifecycle around them            *)
(* (lifecycle.py, intake.py).  Every Gate operation reads and writes one   *)
(* seed, the contradiction records of that seed and the Gate events of     *)
(* that seed, so one seed is the whole unit of behaviour.                  *)
(*                                                                         *)
(* Weights are counted in tenths.  The trace is a band:                    *)
(*   0  below dormant_threshold      1  below min_trace_for_gate           *)
(*   2  exactly min_trace_for_gate   3  above it                           *)
(***************************************************************************)
EXTENDS Integers, Sequences, FiniteSets

CONSTANTS
    Sources,               \* underlying source references of evidence
    Offers,                \* the signal lists callers submit
    Policies,              \* the policy ids callers name
    MaxWeight, MaxScore,   \* the two clamps: 1.0, and 1.0 in quarters
    WeightIncrement, ContradictionPenalty, PromotionThreshold,
    ProbeDeltas,           \* +reward_step, 0, -penalty_step
    RecurrenceThreshold, MinOccurrences, MinEvidence, DormantTTL,
    TurnSteps,             \* turns one decay call may pass
    MaxEvents,             \* bound: Gate events recorded
    MaxOccurrences         \* bound: redetections counted

LegacyPolicy == "legacy_evidence_required"
PolicyIds == {"exploratory", "evidence_backed", "bounded_self_derived",
              LegacyPolicy}
ExternalKinds == {"ssot", "human_feedback", "retrieval"}

Statuses == {"NEW", "ACTIVE", "DECAYING", "DORMANT", "PROMOTED", "EXPIRED"}
Bands == 0..3

\* One offered external observation (direction SUPPORT).
External == [kind : ExternalKinds, source : Sources, verified : BOOLEAN]

\* A submitted signal list: a recurrence signal for the current count, external
\* observations, an opposing contradiction, a self-derived signal.
Offer == [recurrence : BOOLEAN, external : SUBSET External,
          contradiction : BOOLEAN, selfDerived : BOOLEAN]

ASSUME OffersAssumption == Offers \subseteq Offer /\ IsFiniteSet(Sources)
ASSUME PoliciesAssumption == Policies \subseteq PolicyIds
ASSUME WeightAssumption ==
    /\ MaxWeight \in Nat /\ MaxScore \in Nat \ {0}
    /\ WeightIncrement \in Nat \ {0} /\ ContradictionPenalty \in Nat \ {0}
    /\ ProbeDeltas \subseteq Int
    /\ PromotionThreshold \in 1..MaxWeight
ASSUME CountAssumption ==
    /\ RecurrenceThreshold \in Nat \ {0} /\ MinOccurrences \in Nat
    /\ MinEvidence \in Nat /\ DormantTTL \in Nat
    /\ TurnSteps \subseteq Nat \ {0}
    /\ MaxEvents \in Nat /\ MaxOccurrences \in Nat

VARIABLES
    auth,      \* the authority fields of the seed, with their version
    presence,  \* occurrence_count, trace band, turns_dormant
    contras,   \* how many contradiction records are open and closed
    events     \* the seed's Gate events, oldest first

vars == <<auth, presence, contras, events>>

Authority == [status : Statuses, weight : 0..MaxWeight, evidence : Nat,
              score : 0..MaxScore, version : Nat]
Presence == [occurrences : Nat, trace : Bands, dormant : Nat]
Contradictions == [open : Nat, closed : Nat]

Decisions == {"validated", "promoted", "blocked", "contradicted", "no_change",
              "expired", "contradiction_resolved", "demoted"}
Confirming == {"validated", "promoted"}
EventPolicies == PolicyIds \cup {"lifecycle_expiry", "contradiction_resolution",
                                 "probe_feedback"}

\* What later decisions read of an event.  recurrence is the occurrence count of
\* a supporting recurrence signal, 0 when the event carries none.
GateEvent == [policy : EventPolicies, decision : Decisions,
              recurrence : Nat, external : SUBSET External,
              promotedAfter : BOOLEAN,
              weightBefore : 0..MaxWeight, weightAfter : 0..MaxWeight,
              blockingAfter : BOOLEAN, version : Nat]

-----------------------------------------------------------------------------
(* Authority writes.                                                       *)

Least(m, n) == IF m < n THEN m ELSE n
Most(m, n) == IF m < n THEN n ELSE m

\* The version bump of a write that only looks at the weight.
WriteBumpingOnWeight(old, new) ==
    [new EXCEPT !.version = old.version + IF new.weight # old.weight THEN 1 ELSE 0]

\* The version bump of every write, changed or not.
WriteAlwaysBumping(old, new) == [new EXCEPT !.version = old.version + 1]

\* ShadowSeed._write_authority: the version moves when an authority value
\* changes or the PROMOTED boundary is crossed, and not otherwise.
Write(old, new) ==
    [new EXCEPT !.version = old.version +
        IF \/ new.weight # old.weight
           \/ new.evidence # old.evidence
           \/ new.score # old.score
           \/ (new.status = "PROMOTED") # (old.status = "PROMOTED")
        THEN 1 ELSE 0]

\* ContradictionDomain.state_for: records decide; a bare legacy score counts as
\* one open contradiction.
BlockingState(c, score) ==
    c.open > 0 \/ (c.closed = 0 /\ score > 0)

Blocking == BlockingState(contras, auth.score)

\* The authority effect of a contradiction signal.
Contradicted(a) ==
    Write(a, [a EXCEPT !.weight = Most(0, a.weight - ContradictionPenalty),
                       !.score = Least(MaxScore, a.score + 1),
                       !.status = "NEW"])

\* The authority effect of a satisfied PROMOTE_OR_VALIDATE proposal that brings
\* `fresh` new verified external observations.
Supported(a, fresh) ==
    LET w == Least(MaxWeight, a.weight + WeightIncrement) IN
    Write(a, [a EXCEPT !.weight = w,
                       !.evidence = a.evidence + fresh,
                       !.status = IF w >= PromotionThreshold
                                  THEN "PROMOTED" ELSE "ACTIVE"])

\* Trace effect of contradiction_trace_penalty (0.5).
AfterTracePenalty(band) == IF band = 3 THEN Bands ELSE {0}

-----------------------------------------------------------------------------
(* Support already applied, reconstructed from the event log.              *)

AfterLastContradiction ==
    {i \in 1..Len(events) :
        \A j \in i..Len(events) : events[j].decision # "contradicted"}

\* _applied_authority_signal_keys, external keys.
AppliedSources ==
    {s \in Sources : \E i \in 1..Len(events) :
        /\ events[i].policy = LegacyPolicy \/ events[i].decision \in Confirming
        /\ \E x \in events[i].external : x.verified /\ x.source = s}

NoAppliedRecurrences == {}

\* _applied_authority_signal_keys, recurrence keys: only since the latest
\* contradiction, and only where they confirmed authority.
AppliedRecurrences ==
    {events[i].recurrence : i \in {j \in AfterLastContradiction :
        /\ events[j].decision \in Confirming
        /\ events[j].recurrence > 0}}

Verified(o) == {x.source : x \in {y \in o.external : y.verified}}

\* The supporting recurrence signal of an offer; below the threshold the signal
\* is NEUTRAL.
OfferedRecurrence(o) ==
    IF o.recurrence /\ presence.occurrences >= RecurrenceThreshold
    THEN presence.occurrences ELSE 0

\* _deduplicate_authority_signals: what is left of an offer.
FreshSources(o) == Verified(o) \ AppliedSources
FreshRecurrence(o) ==
    OfferedRecurrence(o) > 0 /\ OfferedRecurrence(o) \notin AppliedRecurrences

-----------------------------------------------------------------------------
(* Recording.                                                              *)

Room == Len(events) < MaxEvents

\* SSLManager._record_gate_event: the event keeps the original signals and the
\* state after the transition.
Record(policy, decision, recurrence, external) ==
    events' = Append(events,
        [policy |-> policy, decision |-> decision,
         recurrence |-> recurrence, external |-> external,
         promotedAfter |-> auth'.status = "PROMOTED",
         weightBefore |-> auth.weight, weightAfter |-> auth'.weight,
         blockingAfter |-> BlockingState(contras', auth'.score),
         version |-> auth'.version])

\* One contradiction signal applied: record opened, authority reduced,
\* recurrence and dormancy restarted.
OpenContradiction(before) ==
    /\ contras' = [contras EXCEPT !.open = @ + 1]
    /\ auth' = Contradicted(before)
    /\ \E band \in AfterTracePenalty(presence.trace) :
           presence' = [occurrences |-> 1, trace |-> band, dormant |-> 0]

-----------------------------------------------------------------------------
(* submit_signals: one policy, one transition, one event.                  *)

\* The proposal is PROMOTE_OR_VALIDATE and satisfied (no fresh contradiction).
Qualifies(policy, o) ==
    /\ ~Blocking
    /\ \/ policy = "exploratory" /\ (FreshRecurrence(o) \/ FreshSources(o) # {})
       \/ policy = "evidence_backed" /\ FreshSources(o) # {}

\* The proposal is NO_CHANGE and satisfied.
RecordedWithoutEffect(policy, o) ==
    ~Blocking /\ policy = "bounded_self_derived" /\ o.selfDerived

SubmitExpired(policy, o) ==
    /\ Room /\ auth.status = "EXPIRED"
    /\ UNCHANGED <<auth, presence, contras>>
    /\ Record(policy, "expired", OfferedRecurrence(o), o.external)

SubmitContradiction(policy, o) ==
    /\ Room /\ auth.status # "EXPIRED" /\ policy # LegacyPolicy
    /\ o.contradiction
    /\ OpenContradiction(auth)
    /\ Record(policy, "contradicted", OfferedRecurrence(o), o.external)

SubmitSupport(policy, o) ==
    /\ Room /\ auth.status # "EXPIRED" /\ policy # LegacyPolicy
    /\ ~o.contradiction /\ Qualifies(policy, o)
    /\ auth' = Supported(auth, Cardinality(FreshSources(o)))
    /\ UNCHANGED <<presence, contras>>
    /\ Record(policy,
              IF auth'.status = "PROMOTED" THEN "promoted" ELSE "validated",
              OfferedRecurrence(o), o.external)

SubmitWithoutEffect(policy, o) ==
    /\ Room /\ auth.status # "EXPIRED" /\ policy # LegacyPolicy
    /\ ~o.contradiction /\ ~Qualifies(policy, o)
    /\ UNCHANGED <<auth, presence, contras>>
    /\ Record(policy,
              IF RecordedWithoutEffect(policy, o) THEN "no_change" ELSE "blocked",
              OfferedRecurrence(o), o.external)

-----------------------------------------------------------------------------
(* The legacy policy: verified evidence is counted before the verdict, so  *)
(* it accumulates on the seed whatever the verdict is.                     *)

Evidenced(o) ==
    Write(auth, [auth EXCEPT !.evidence = auth.evidence + Cardinality(FreshSources(o))])

LegacyQualifies(o) ==
    /\ ~Blocking
    /\ presence.occurrences >= MinOccurrences /\ presence.trace = 3
    /\ Evidenced(o).evidence >= MinEvidence
    /\ FreshRecurrence(o) \/ FreshSources(o) # {}

LegacyContradiction(o) ==
    /\ Room /\ auth.status # "EXPIRED"
    /\ o.contradiction
    /\ OpenContradiction(Evidenced(o))
    /\ Record(LegacyPolicy, "contradicted", OfferedRecurrence(o), o.external)

LegacySupport(o) ==
    /\ Room /\ auth.status # "EXPIRED"
    /\ ~o.contradiction /\ LegacyQualifies(o)
    /\ auth' = Supported(Evidenced(o), 0)
    /\ UNCHANGED <<presence, contras>>
    /\ Record(LegacyPolicy,
              IF auth'.status = "PROMOTED" THEN "promoted" ELSE "validated",
              OfferedRecurrence(o), o.external)

LegacyBlocked(o) ==
    /\ Room /\ auth.status # "EXPIRED"
    /\ ~o.contradiction /\ ~LegacyQualifies(o)
    /\ auth' = Evidenced(o)
    /\ UNCHANGED <<presence, contras>>
    /\ Record(LegacyPolicy, "blocked", OfferedRecurrence(o), o.external)

SubmitSignals(policy, o) ==
    \/ SubmitExpired(policy, o)
    \/ SubmitContradiction(policy, o)
    \/ SubmitSupport(policy, o)
    \/ SubmitWithoutEffect(policy, o)
    \/ policy = LegacyPolicy /\ LegacyContradiction(o)
    \/ policy = LegacyPolicy /\ LegacySupport(o)
    \/ policy = LegacyPolicy /\ LegacyBlocked(o)

\* _compatibility_signals: whatever a caller of the boolean Gate says, the count of the
\* seed is offered with it.
CompatibilitySignals(o) == [o EXCEPT !.recurrence = TRUE]

\* run_validation_gate without a policy decides under the legacy one.
RunValidationGate(o) == SubmitSignals(LegacyPolicy, CompatibilitySignals(o))

\* falsify: a person contradicts the seed, whatever policy the conversation has.
Falsify ==
    RunValidationGate([recurrence |-> FALSE, external |-> {}, contradiction |-> TRUE,
                       selfDerived |-> FALSE])

-----------------------------------------------------------------------------
(* Contradiction resolution, probe feedback, expiry.                       *)

\* So many open records are closed: the one that is named, or all.
Closed(count) ==
    /\ count \in {1, contras.open} /\ count \in 1..contras.open
    /\ contras' = [open |-> contras.open - count, closed |-> contras.closed + count]

\* resolve_contradiction: closes one record or all of them; the scalar is
\* cleared only when none is left open.
ResolveContradiction(count) ==
    /\ Room /\ auth.status # "EXPIRED"
    /\ Closed(count)
    /\ auth' = IF contras'.open = 0
               THEN Write(auth, [auth EXCEPT !.score = 0]) ELSE auth
    /\ UNCHANGED presence
    /\ Record("contradiction_resolution", "contradiction_resolved", 0, {})

\* A reward that promotes.
PromotingNudge(delta) ==
    LET w == Least(MaxWeight, Most(0, auth.weight + delta)) IN
    Write(auth, [auth EXCEPT !.weight = w,
        !.status = IF w >= PromotionThreshold THEN "PROMOTED"
                   ELSE IF @ = "PROMOTED" THEN "ACTIVE" ELSE @])

\* A penalty that forgets to demote.
NudgeWithoutDemotion(delta) ==
    Write(auth, [auth EXCEPT !.weight = Least(MaxWeight, Most(0, @ + delta))])

\* The authority effect of probe feedback.
Nudged(delta) ==
    LET w == Least(MaxWeight, Most(0, auth.weight + delta)) IN
    Write(auth, [auth EXCEPT !.weight = w,
        !.status = IF auth.status = "PROMOTED" /\ w < PromotionThreshold
                   THEN "ACTIVE" ELSE auth.status])

\* apply_probe_feedback with outcome reward, neutral or penalty; other statuses
\* only get a skipped result.
ProbeFeedback(delta) ==
    /\ Room /\ auth.status \in {"ACTIVE", "PROMOTED"}
    /\ auth' = Nudged(delta)
    /\ UNCHANGED <<presence, contras>>
    /\ Record("probe_feedback",
              IF auth.status = "PROMOTED" /\ auth'.status = "ACTIVE" THEN "demoted"
              ELSE IF auth'.weight # auth.weight THEN "validated" ELSE "no_change",
              0, {})

Expired(a) ==
    IF a.status = "EXPIRED" THEN a
    ELSE Write(a, [a EXCEPT !.status = "EXPIRED", !.weight = 0])

\* expire_vector_only_open_seeds: housekeeping returns old open seeds without
\* weight and evidence.
ExpireByHousekeeping ==
    /\ Room /\ auth.status \in {"NEW", "ACTIVE", "DORMANT"}
    /\ auth.weight = 0 /\ auth.evidence = 0
    /\ auth' = Expired(auth)
    /\ UNCHANGED <<presence, contras>>
    /\ Record("lifecycle_expiry", "expired", 0, {})

-----------------------------------------------------------------------------
(* Mechanical lifecycle.                                                   *)

\* Where a decay of one or more turns may leave a band.
AfterDecay(band) == IF band = 0 THEN {0} ELSE IF band = 3 THEN Bands
                    ELSE 0..1

\* status_after_decay
StatusAfterDecay(band) ==
    IF band = 0 /\ auth.weight = 0 THEN "DORMANT"
    ELSE IF band \in {0, 1} /\ auth.status \notin {"PROMOTED", "DORMANT"}
    THEN "DECAYING" ELSE auth.status

Decayed(band) == Write(auth, [auth EXCEPT !.status = StatusAfterDecay(band)])

DormantAfter(band, turns) ==
    IF StatusAfterDecay(band) = "DORMANT" THEN presence.dormant + turns ELSE 0

TimedOut(dormant) == DormantTTL > 0 /\ dormant >= DormantTTL

\* decay_traces on a seed that stays within its dormancy allowance.
Decay(turns, band) ==
    /\ auth.status # "EXPIRED" /\ band \in AfterDecay(presence.trace)
    /\ ~TimedOut(DormantAfter(band, turns))
    /\ auth' = Decayed(band)
    /\ presence' = [presence EXCEPT !.trace = band,
                                    !.dormant = DormantAfter(band, turns)]
    /\ UNCHANGED <<contras, events>>

\* decay_traces on a seed whose dormancy runs out: expire_seed in the same call.
DecayToExpiry(turns, band) ==
    /\ Room
    /\ auth.status # "EXPIRED" /\ band \in AfterDecay(presence.trace)
    /\ TimedOut(DormantAfter(band, turns))
    /\ auth' = Expired(Decayed(band))
    /\ presence' = [presence EXCEPT !.trace = band,
                                    !.dormant = DormantAfter(band, turns)]
    /\ UNCHANGED contras
    /\ Record("lifecycle_expiry", "expired", 0, {})

\* reactivate_by_text on a matching dormant seed.
Reactivate ==
    /\ auth.status = "DORMANT"
    /\ auth' = Write(auth, [auth EXCEPT !.status = "NEW"])
    /\ presence' = [presence EXCEPT !.trace = 3, !.dormant = 0]
    /\ UNCHANGED <<contras, events>>

\* Deduplication that may pick an expired seed.
RedetectableAlways == TRUE

\* maybe_deduplicate_seed never matches an expired seed.
Redetectable == auth.status # "EXPIRED"

\* activate_existing_seed; a trace of exactly zero regains just min_trace.
Redetect(band) ==
    /\ Redetectable
    /\ presence.occurrences < MaxOccurrences
    /\ band \in IF presence.trace = 0 THEN {2, 3} ELSE {3}
    /\ auth' = IF auth.status = "PROMOTED" THEN auth
               ELSE Write(auth, [auth EXCEPT !.status = "ACTIVE"])
    /\ presence' = [occurrences |-> presence.occurrences + 1,
                    trace |-> band, dormant |-> 0]
    /\ UNCHANGED <<contras, events>>

-----------------------------------------------------------------------------

\* create_seed: every seed is born weightless.
Init ==
    /\ auth = [status |-> "NEW", weight |-> 0, evidence |-> 0, score |-> 0,
               version |-> 0]
    /\ presence = [occurrences |-> 1, trace |-> 3, dormant |-> 0]
    /\ contras = [open |-> 0, closed |-> 0]
    /\ events = <<>>

Next ==
    \/ \E policy \in Policies, o \in Offers : SubmitSignals(policy, o)
    \/ Falsify
    \/ \E count \in 1..contras.open : ResolveContradiction(count)
    \/ \E delta \in ProbeDeltas : ProbeFeedback(delta)
    \/ ExpireByHousekeeping
    \/ \E turns \in TurnSteps, band \in Bands :
           Decay(turns, band) \/ DecayToExpiry(turns, band)
    \/ Reactivate
    \/ \E band \in Bands : Redetect(band)

Spec == Init /\ [][Next]_vars

-----------------------------------------------------------------------------
(* What must hold.                                                         *)

\* Every variable stays within its type; an authority never leaves its clamps.
TypeOK ==
    /\ auth \in Authority /\ presence \in Presence
    /\ contras \in Contradictions /\ events \in Seq(GateEvent)

\* The sources an event credited to the seed: the event confirmed authority, or
\* the legacy adapter counted them before its verdict.
CreditedAt(i) ==
    IF /\ events[i].decision # "expired"
       /\ events[i].policy = LegacyPolicy \/ events[i].decision \in Confirming
    THEN {x.source : x \in {y \in events[i].external : y.verified}} ELSE {}

Credited == UNION {CreditedAt(i) : i \in 1..Len(events)}

\* evidence_count is the number of distinct sources ever credited: replaying a
\* source in another call, under another kind, under another policy or after a
\* contradiction adds nothing (submit_signals, _submit_legacy_signals).
EvidenceCountedOnce == auth.evidence = Cardinality(Credited)

\* The recurrence counts confirmed before event i in its contradiction epoch.
HeardBefore(i) ==
    {events[j].recurrence : j \in {k \in 1..(i - 1) :
        /\ events[k].decision \in Confirming
        /\ \A m \in k..i : events[m].decision # "contradicted"}}

\* Whenever a policy raised the weight, the event that raised it brought support
\* nobody had been credited for: a source never credited before, or a recurrence
\* count not yet confirmed since the last contradiction.
EveryRiseHasFreshSupport ==
    \A i \in 1..Len(events) :
        events[i].policy \in PolicyIds /\ events[i].weightAfter > events[i].weightBefore
        => \/ \E x \in events[i].external : x.verified /\
                 \A j \in 1..(i - 1) : x.source \notin CreditedAt(j)
           \/ events[i].recurrence > 0 /\ events[i].recurrence \notin HeardBefore(i)

\* A weight raised under evidence_backed always rests on a source credited by
\* that very event: recurrence alone never satisfies the strict policy.
StrictRiseRestsOnEvidence ==
    \A i \in 1..Len(events) :
        /\ events[i].policy = "evidence_backed"
        /\ events[i].weightAfter > events[i].weightBefore
        => \E s \in CreditedAt(i) : \A j \in 1..(i - 1) : s \notin CreditedAt(j)

\* Weight and evidence are never earned twice: what the three definitions above say of
\* evidence, of every rise and of a rise under the strict policy, over any history of
\* calls and policies.
RisesAreSupported ==
    EvidenceCountedOnce /\ EveryRiseHasFreshSupport /\ StrictRiseRestsOnEvidence

\* An authority version names one authority: two events, or an event and the
\* seed, that carry the same version agree on the weight, on being promoted and
\* on being blocked by a contradiction.  This is what lets a point-of-use
\* decision compare versions instead of state.
VersionIdentifiesAuthority ==
    \A i \in 1..Len(events) :
        /\ \A j \in 1..(i - 1) : events[j].version = events[i].version =>
              /\ events[j].weightAfter = events[i].weightAfter
              /\ events[j].promotedAfter = events[i].promotedAfter
              /\ events[j].blockingAfter = events[i].blockingAfter
        /\ events[i].version = auth.version =>
              /\ events[i].weightAfter = auth.weight
              /\ events[i].promotedAfter = (auth.status = "PROMOTED")
              /\ events[i].blockingAfter = Blocking

\* The compatibility scalar and the records never disagree on whether the seed is
\* contradicted, whichever records were closed in whichever order.
ScoreMirrorsRecords == auth.score > 0 <=> contras.open > 0

\* A promoted seed has at least the promotion weight and no open contradiction.
PromotedIsSound ==
    auth.status = "PROMOTED" => auth.weight >= PromotionThreshold /\ ~Blocking

\* validate_seed_snapshot: the stored seeds that are read back.
Restorable(a, p) ==
    /\ a.status \in Statuses
    /\ a.weight \in 0..MaxWeight /\ a.score >= 0
    /\ a.evidence \in Nat /\ a.version \in Nat
    /\ p.occurrences \in Nat /\ p.dormant \in Nat /\ p.trace >= 0
    /\ a.status = "EXPIRED" => a.weight = 0

\* Scalar, records and promotion never come apart, in whichever order contradictions are
\* entered and closed, and a seed that was stored can be read back: one that could not
\* would take its whole conversation with it (ShadowChatSession.from_state).
AuthorityIsSound ==
    TypeOK /\ ScoreMirrorsRecords /\ PromotedIsSound /\ Restorable(auth, presence)

\* A seed becomes promoted only by a Gate policy deciding on an unblocked seed.
\* Redetection, reactivation, decay, feedback and resolution never promote.
PromotionNeedsPolicy ==
    [][auth.status # "PROMOTED" /\ auth'.status = "PROMOTED" =>
        /\ ~Blocking
        /\ Len(events') = Len(events) + 1
        /\ events'[Len(events')].policy \in PolicyIds
        /\ events'[Len(events')].decision = "promoted"]_vars

\* An expired seed stays expired and weightless and gains no evidence, whatever
\* is submitted, resolved, redetected or decayed afterwards.
ExpiredIsTerminal ==
    [][auth.status = "EXPIRED" =>
        auth'.status = "EXPIRED" /\ auth'.weight = 0 /\ auth'.evidence = auth.evidence]_vars

\* The documentation wants a contradicted seed revalidated "before weight rises again"
\* (docs/architecture/lifecycle-and-gate.md).  A probe reward does raise the weight in
\* between, of a redetected seed even while its contradiction is open; but nothing
\* else does, and until a policy has confirmed it again the seed is not promoted and
\* collects no evidence.
Unconfirmed ==
    \E i \in 1..Len(events) :
        /\ events[i].decision = "contradicted"
        /\ \A j \in (i + 1)..Len(events) :
              ~(events[j].policy \in PolicyIds /\ events[j].decision \in Confirming)

RewardNeverRestores ==
    [][Unconfirmed /\ Unconfirmed' =>
        /\ auth'.status # "PROMOTED"
        /\ auth'.weight > auth.weight => events'[Len(events')].policy = "probe_feedback"
        /\ auth'.evidence > auth.evidence => events'[Len(events')].policy = LegacyPolicy]_vars

\* Neither expiry nor a contradiction is undone behind the policies' back: by late
\* submissions, redetection and decay, or by probe feedback.
NoWayBack == ExpiredIsTerminal /\ RewardNeverRestores

-----------------------------------------------------------------------------
(* What the Gate, with all its policies and its lifecycle, promises.       *)

Standing ==
    IF auth.status = "PROMOTED" THEN "authorized"
    ELSE IF auth.status = "EXPIRED" THEN "retired" ELSE "open"

Promise == INSTANCE AuthorityPromise
               WITH standing <- Standing, blocked <- Blocking, version <- auth.version

\* Whatever the Gate and the lifecycle do to a seed, a reader of its authority sees one
\* step of AuthorityPromise, or nothing: no change of standing without a new version, no
\* promotion of a blocked seed, no way back from expiry (ShadowSeed._write_authority,
\* submit_signals, resolve_contradiction, apply_probe_feedback, expire_seed).
KeepsPromise == Promise!Spec
=============================================================================

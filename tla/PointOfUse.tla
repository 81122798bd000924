----------------------------- MODULE PointOfUse -----------------------------
(***************************************************************************)
(* The point of use: a seed may steer an answer only through               *)
(* AgentSafetyContract.decide_and_record (shadowseed_agent), which checks  *)
(* the seed, the Gate events and the link between them and records its     *)
(* decision.  ShadowChatSession._contract_filter may first ask whether the *)
(* seed still meets the Gate policy that is configured now.                *)
(*                                                                         *)
(* The seed keeps living under SeedGate between two uses.                  *)
(***************************************************************************)
EXTENDS SeedGate

CONSTANTS
    CurrentPolicies,   \* policies a session may be configured with at use time
    MaxUses            \* bound: influence records

ASSUME CurrentPoliciesAssumption == CurrentPolicies \subseteq PolicyIds
ASSUME MaxUsesAssumption == MaxUses \in Nat

VARIABLE influence     \* influence_records, oldest first

useVars == <<auth, presence, contras, events, influence>>

NoLink == 0

Reasons == {"allowed_promoted_gate_logged", "weightless_seed", "seed_not_promoted",
            "contradiction_present", "missing_logged_promotion",
            "legacy_ssot_requires_review", "stale_gate_authorization"}

\* ref is the position of the linked Gate event, at the length of the log when
\* the decision was made.
InfluenceRecord == [reason : Reasons, ref : Nat, version : Nat, at : Nat]

Allowed(r) == r.reason = "allowed_promoted_gate_logged"

-----------------------------------------------------------------------------

\* Links that ignore what happened to the seed after the promotion.
LinkableEver ==
    {i \in 1..Len(events) :
        events[i].decision \in Confirming /\ events[i].promotedAfter}

\* _link_gate_event: confirming, left the seed promoted, not blocked, current.
Linkable ==
    {i \in 1..Len(events) :
        /\ events[i].decision \in Confirming
        /\ events[i].promotedAfter
        /\ ~events[i].blockingAfter
        /\ events[i].version = auth.version}

Latest(positions) ==
    IF positions = {} THEN NoLink
    ELSE CHOOSE i \in positions : \A j \in positions : j <= i

\* has_logged_promotion
LoggedPromotion == \E i \in 1..Len(events) : events[i].promotedAfter

\* has_unreviewed_ssot_support: verified or not.
UnreviewedSSOT ==
    \E i \in 1..Len(events) : \E x \in events[i].external : x.kind = "ssot"

\* AgentSafetyContract._decide with the stale-authorization guard of
\* decide_and_record.
Decision ==
    IF auth.weight = 0 THEN "weightless_seed"
    ELSE IF auth.status # "PROMOTED" THEN "seed_not_promoted"
    ELSE IF Blocking THEN "contradiction_present"
    ELSE IF ~LoggedPromotion THEN "missing_logged_promotion"
    ELSE IF UnreviewedSSOT THEN "legacy_ssot_requires_review"
    ELSE IF Linkable = {} THEN "stale_gate_authorization"
    ELSE "allowed_promoted_gate_logged"

-----------------------------------------------------------------------------
(* snapshot_meets_current_gate: the policy configured now, applied to the  *)
(* support recorded by confirming events since the latest contradiction.   *)

\* _current_support_signals, as the positions of the events that carry them.
CurrentSupport == {i \in AfterLastContradiction : events[i].decision \in Confirming}

SupportedBySource(positions) ==
    \E i \in positions : \E x \in events[i].external : x.verified

MeetsGate(policy, blocking) ==
    /\ auth.status = "PROMOTED" /\ ~blocking
    /\ auth.weight >= PromotionThreshold
    /\ \/ /\ policy = "exploratory"
          /\ \/ SupportedBySource(CurrentSupport)
             \/ \E i \in CurrentSupport : events[i].recurrence > 0
       \/ policy = "evidence_backed" /\ SupportedBySource(CurrentSupport)
       \/ /\ policy = LegacyPolicy
          /\ presence.occurrences >= MinOccurrences /\ presence.trace = 3
          /\ auth.evidence >= MinEvidence

MeetsCurrentGate(policy) == MeetsGate(policy, Blocking)

-----------------------------------------------------------------------------

\* _contract_filter on one surfaced seed: a seed that fails the current Gate is
\* dropped without a record; otherwise the decision is recorded before it is used.
Use(policy, revalidate) ==
    /\ Len(influence) < MaxUses
    /\ revalidate => MeetsCurrentGate(policy)
    /\ influence' = Append(influence,
           [reason |-> Decision, ref |-> Latest(Linkable),
            version |-> auth.version, at |-> Len(events)])
    /\ UNCHANGED vars

\* Anything that happens to the seed between two uses.
SeedStep == Next /\ UNCHANGED influence

UseInit == Init /\ influence = <<>>

UseNext ==
    \/ SeedStep
    \/ \E policy \in CurrentPolicies, revalidate \in BOOLEAN : Use(policy, revalidate)

UseSpec == UseInit /\ [][UseNext]_useVars

-----------------------------------------------------------------------------

(* What the Workbench says of the seed (InspectionService.session_view,    *)
(* derive_seed_orchestration): worked out from the stored state, apart     *)
(* from the Gate and the contract.                                         *)

\* A panel that does not look for support of documents.
ShownAuthorizedOnDocuments(policy, revalidate) ==
    IF revalidate THEN MeetsGate(policy, contras.open > 0)
    ELSE auth.status = "PROMOTED" /\ contras.open = 0

ShownAuthorized(policy, revalidate) ==
    /\ ~UnreviewedSSOT
    /\ IF revalidate THEN MeetsGate(policy, contras.open > 0)
       ELSE auth.status = "PROMOTED" /\ contras.open = 0

Profiles == {"strict", "assisted", "autonomous", "open"}
ByHand(policy, profile) == profile \in {"strict", "assisted"} /\ policy = "evidence_backed"
Mature(least) == presence.occurrences >= Most(1, least)

\* Whose turn it is, and what is asked of the human.
Orchestration(policy, profile, authorized) ==
    LET promoted == auth.status = "PROMOTED"
    IN  IF contras.open > 0 THEN <<"blocked", "resolve_contradiction">>
        ELSE IF auth.status = "EXPIRED" THEN <<"blocked", "none">>
        ELSE IF promoted /\ authorized THEN <<"optional_review", "none">>
        ELSE IF /\ ByHand(policy, profile)
                /\ promoted \/ (Mature(MinOccurrences) /\ auth.evidence = 0)
             THEN <<"human_turn", "submit_verified_support">>
        ELSE <<"ssl_turn", "none">>

\* authority_review_seed_ids
ReviewRequired(policy, profile, authorized) ==
    /\ profile = "assisted" /\ policy = "evidence_backed"
    /\ contras.open = 0 /\ auth.status # "EXPIRED"
    /\ ~authorized
    /\ presence.occurrences >= MinOccurrences

\* _seed_review_required, what the report of a turn lists: with the authority the
\* runtime itself goes by, which does not look for documents nobody reviewed.
SeedReviewRequired(policy, profile, revalidate) ==
    /\ profile = "assisted" /\ policy = "evidence_backed"
    /\ auth.status # "EXPIRED" /\ ~Blocking
    /\ ~(auth.status = "PROMOTED" /\ (revalidate => MeetsCurrentGate(policy)))
    /\ presence.occurrences >= MinOccurrences

-----------------------------------------------------------------------------

\* Every influence record is one the contract can write.
UseTypeOK == TypeOK /\ influence \in Seq(InfluenceRecord)

\* Whoever was allowed to steer an answer was allowed on a promotion nothing had
\* taken back: since the linked Gate event no contradiction, demotion or expiry had
\* been recorded for the seed when the decision was made.
NoUseAfterWithdrawal ==
    \A k \in 1..Len(influence) : Allowed(influence[k]) =>
        \A i \in 1..influence[k].at : i >= influence[k].ref =>
            events[i].decision \notin {"contradicted", "demoted", "expired"}

\* assert_influence_records_valid on one record of an allowed use.
Replays(r) ==
    /\ r.ref \in 1..Len(events)
    /\ events[r.ref].decision \in Confirming /\ events[r.ref].promotedAfter
    /\ ~events[r.ref].blockingAfter /\ events[r.ref].version = r.version

\* Strict replay: whatever the seed went through after the decision, the record of an
\* allowed use still links to a confirming, unblocked event of the recorded version that
\* left the seed promoted.
AllowedUsesReplay ==
    \A k \in 1..Len(influence) : Allowed(influence[k]) => Replays(influence[k])

\* An allowed use was sound when it was decided and stays provable ever after, and
\* every decision is recorded with a reason the contract knows.
UsesAreSound == UseTypeOK /\ NoUseAfterWithdrawal /\ AllowedUsesReplay

\* A promoted seed loses its link in one way only: the legacy adapter counted new
\* evidence on it and then blocked, which moves the version without confirming the
\* promotion.  Decay, redetection, feedback and any other policy keep it usable.
LinkLostOnlyByLegacyCredit ==
    auth.status = "PROMOTED" /\ Linkable = {} =>
        \E i \in 1..Len(events) :
            /\ events[i].version = auth.version
            /\ events[i].policy = LegacyPolicy /\ events[i].decision = "blocked"

\* Revalidation against an unchanged policy never withdraws a standing promotion:
\* when every confirmation since the last contradiction came from one public policy
\* (or from feedback), a promoted seed still meets that policy.
PromotionSurvivesRevalidation ==
    \A policy \in {"exploratory", "evidence_backed"} :
        /\ auth.status = "PROMOTED"
        /\ \A i \in CurrentSupport : events[i].policy \in {policy, "probe_feedback"}
        => MeetsCurrentGate(policy)

\* A standing promotion stays provable and stays confirmed: nothing but a legacy credit
\* costs it its link, and no unchanged policy takes back what it confirmed.
PromotionStaysUsable == LinkLostOnlyByLegacyCredit /\ PromotionSurvivesRevalidation

\* What the panel says is what happens.  A seed is shown as authorized exactly when a use
\* would be allowed, unless it lost its link; what is asked of the human is something the
\* Gate would act on; a seed listed for review is the human's turn (the matrix of 0.11:
\* "Assisted review IDs map to human_turn"); and what the turn's report lists for review
\* the panel lists too.  The exceptions: resolving is asked for an expired seed too,
\* which refuses it; a seed with some evidence, but not yet enough, is listed for review
\* while its turn is the runtime's, and then the page has no button for the support that
\* is missing; and the report passes over a promoted seed that rests on a document
\* nobody reviewed.  (Neither the panel nor the decision reads the influence records: it
\* is asked where a use can still come.)
PanelSpeaksTrue == Len(influence) < MaxUses =>
    LET decided == Decision IN
    \A policy \in CurrentPolicies :
        LET meets == MeetsCurrentGate(policy)
            shown == [r \in BOOLEAN |-> ShownAuthorized(policy, r)]
        IN  /\ \A revalidate \in BOOLEAN :
                  LET used == /\ decided = "allowed_promoted_gate_logged"
                              /\ revalidate => meets
                  IN  /\ used => shown[revalidate]
                      /\ shown[revalidate] => used \/ Linkable = {}
            /\ \A profile \in Profiles, revalidate \in BOOLEAN :
                  LET reported == SeedReviewRequired(policy, profile, revalidate)
                      listed == ReviewRequired(policy, profile, shown[revalidate])
                  IN  /\ reported => listed
                      /\ listed => reported \/ UnreviewedSSOT
            /\ \A profile \in Profiles, authorized \in {shown[TRUE], shown[FALSE]} :
                  LET turn == Orchestration(policy, profile, authorized)
                  IN  /\ authorized <=> turn[1] = "optional_review"
                      /\ turn[2] = "resolve_contradiction" => Blocking
                      /\ turn[2] = "submit_verified_support" =>
                            ~Blocking /\ auth.status # "EXPIRED"
                      /\ ReviewRequired(policy, profile, authorized) =>
                            turn[1] = "human_turn" \/ auth.evidence > 0
=============================================================================

--------------------------- MODULE SeedGateProofs ---------------------------
(***************************************************************************)
(* Proofs about SeedGate and PointOfUse for every set of sources, every    *)
(* family of offers, every configuration of the Gate and every bound: the  *)
(* values of a seed, its version, its promise; from StepAdds on, what the  *)
(* Gate log says of it: evidence is credited once, every rise rests on     *)
(* support not used before, and a contradiction is not undone behind the   *)
(* policies' back; and, from SomeIsLast on, what a use of it rests on.     *)
(***************************************************************************)
EXTENDS PointOfUse, FiniteSetTheorems, WellFoundedInduction, TLAPS

-----------------------------------------------------------------------------
(* Authority writes.                                                       *)

\* ShadowSeed._write_authority only adds a version to the values it was given.
LEMMA WriteKeeps ==
    ASSUME NEW old \in Authority, NEW new \in Authority
    PROVE  /\ Write(old, new) \in Authority
           /\ Write(old, new).status = new.status
           /\ Write(old, new).weight = new.weight
           /\ Write(old, new).evidence = new.evidence
           /\ Write(old, new).score = new.score
           /\ Write(old, new).version \in {old.version, old.version + 1}
  BY DEF Write, Authority

\* A contradiction signal takes the seed out of PROMOTED and marks the scalar.
LEMMA ContradictedKeeps ==
    ASSUME NEW a \in Authority
    PROVE  /\ Contradicted(a) \in Authority
           /\ Contradicted(a).status = "NEW"
           /\ Contradicted(a).score > 0
  <1> DEFINE w == Most(0, a.weight - ContradictionPenalty)
             s == Least(MaxScore, a.score + 1)
             n == [a EXCEPT !.weight = w, !.score = s, !.status = "NEW"]
  <1>1. w \in 0..MaxWeight
    BY WeightAssumption DEF Most, Authority
  <1>2. s \in 1..MaxScore
    BY WeightAssumption DEF Least, Authority
  <1>0. Contradicted(a) = Write(a, n)
    BY DEF Contradicted
  <1> HIDE DEF w, s
  <1>3. s \in 0..MaxScore /\ s > 0
    BY <1>2, WeightAssumption
  <1>4. n \in Authority
    BY <1>1, <1>3 DEF Authority, Statuses
  <1>5. n.status = "NEW" /\ n.score = s
    BY DEF Authority
  <1> HIDE DEF n
  <1>6. QED
    BY <1>0, <1>3, <1>4, <1>5, WriteKeeps

\* Satisfied support yields PROMOTED only at the promotion weight.
LEMMA SupportedKeeps ==
    ASSUME NEW a \in Authority, NEW k \in Nat
    PROVE  /\ Supported(a, k) \in Authority
           /\ Supported(a, k).status \in {"PROMOTED", "ACTIVE"}
           /\ Supported(a, k).score = a.score
           /\ Supported(a, k).status = "PROMOTED"
              => Supported(a, k).weight >= PromotionThreshold
  <1> DEFINE w == Least(MaxWeight, a.weight + WeightIncrement)
             st == IF w >= PromotionThreshold THEN "PROMOTED" ELSE "ACTIVE"
             n == [a EXCEPT !.weight = w, !.evidence = a.evidence + k, !.status = st]
  <1>1. w \in 0..MaxWeight
    BY WeightAssumption DEF Least, Authority
  <1>2. st \in {"PROMOTED", "ACTIVE"} /\ (st = "PROMOTED" => w >= PromotionThreshold)
    OBVIOUS
  <1>3. Supported(a, k) = Write(a, n)
    BY DEF Supported
  <1> HIDE DEF w, st
  <1>4. a.evidence + k \in Nat
    BY DEF Authority
  <1>5. n \in Authority
    BY <1>1, <1>2, <1>4 DEF Authority, Statuses
  <1>6. n.status = st /\ n.score = a.score /\ n.weight = w
    BY DEF Authority
  <1> HIDE DEF n
  <1>7. QED
    BY <1>2, <1>3, <1>5, <1>6, WriteKeeps

\* Only a finite number of sources is fresh in an offer.
LEMMA FreshIsFinite ==
    ASSUME NEW o \in Offer
    PROVE  Cardinality(FreshSources(o)) \in Nat
  <1>1. o \in Offer
    BY OffersAssumption
  <1>2. FreshSources(o) \subseteq Sources
    BY <1>1 DEF FreshSources, Verified, Offer, External
  <1>3. QED
    BY <1>2, OffersAssumption, FS_Subset, FS_CardinalityType

\* Evidence counted ahead of a legacy verdict changes nothing but the evidence.
LEMMA EvidencedKeeps ==
    ASSUME NEW o \in Offer, auth \in Authority
    PROVE  /\ Evidenced(o) \in Authority
           /\ Evidenced(o).status = auth.status
           /\ Evidenced(o).weight = auth.weight
           /\ Evidenced(o).score = auth.score
  <1> DEFINE n == [auth EXCEPT !.evidence = auth.evidence + Cardinality(FreshSources(o))]
  <1>1. n \in Authority /\ n.status = auth.status /\ n.weight = auth.weight
        /\ n.score = auth.score
    BY FreshIsFinite DEF Authority
  <1>2. QED
    BY <1>1, WriteKeeps DEF Evidenced

-----------------------------------------------------------------------------
(* The inductive invariant.  PromotedIsSound is not inductive alone: that   *)
(* an open contradiction stops promotion is visible to the records, but     *)
(* Blocking falls back to the scalar when there are none, so the scalar     *)
(* must be tied to the records, and a decay must not find a promoted seed   *)
(* without weight.                                                          *)

ExpiredIsWeightless == auth.status = "EXPIRED" => auth.weight = 0

IInv == TypeOK /\ ScoreMirrorsRecords /\ PromotedIsSound /\ ExpiredIsWeightless

\* Under the invariant a seed is blocked exactly when a record is open.
LEMMA BlockingIsOpen ==
    ASSUME TypeOK, ScoreMirrorsRecords
    PROVE  Blocking <=> contras.open > 0
  BY DEF TypeOK, ScoreMirrorsRecords, Blocking, BlockingState, Contradictions,
         Authority

\* Recording a typed event keeps the log a log.
LEMMA RecordKeepsType ==
    ASSUME TypeOK, auth' \in Authority, contras' \in Contradictions,
           NEW policy \in EventPolicies, NEW decision \in Decisions,
           NEW recurrence \in Nat, NEW external \in SUBSET External,
           Record(policy, decision, recurrence, external)
    PROVE  events' \in Seq(GateEvent)
  <1> DEFINE e == [policy |-> policy, decision |-> decision,
                   recurrence |-> recurrence, external |-> external,
                   promotedAfter |-> auth'.status = "PROMOTED",
                   weightBefore |-> auth.weight, weightAfter |-> auth'.weight,
                   blockingAfter |-> BlockingState(contras', auth'.score),
                   version |-> auth'.version]
  <1>1. /\ auth.weight \in 0..MaxWeight /\ auth'.weight \in 0..MaxWeight
        /\ auth'.version \in Nat
    BY DEF TypeOK, Authority
  <1>2. (auth'.status = "PROMOTED") \in BOOLEAN
    OBVIOUS
  <1>3. BlockingState(contras', auth'.score) \in BOOLEAN
    BY DEF BlockingState
  <1>4. e \in GateEvent
    BY <1>1, <1>2, <1>3 DEF GateEvent
  <1>5. events' = Append(events, e)
    BY DEF Record
  <1> HIDE DEF e
  <1>6. QED
    BY <1>4, <1>5 DEF TypeOK

\* An event that carries no support.
LEMMA RecordPlainKeepsType ==
    ASSUME TypeOK, auth' \in Authority, contras' \in Contradictions,
           NEW policy \in EventPolicies, NEW decision \in Decisions,
           Record(policy, decision, 0, {})
    PROVE  events' \in Seq(GateEvent)
  <1>1. 0 \in Nat /\ {} \in SUBSET External
    OBVIOUS
  <1>2. QED
    BY <1>1, RecordKeepsType

\* The offered recurrence is a count, whatever the offer.
LEMMA OfferedIsTyped ==
    ASSUME TypeOK, NEW o \in Offer
    PROVE  OfferedRecurrence(o) \in Nat /\ o.external \in SUBSET External
  BY OffersAssumption DEF TypeOK, Presence, OfferedRecurrence, Offer

LEMMA InitEstablishes == Init => IInv
  BY WeightAssumption DEF Init, IInv, TypeOK, ScoreMirrorsRecords,
     PromotedIsSound, ExpiredIsWeightless, Authority, Presence, Contradictions,
     Statuses, Bands

-----------------------------------------------------------------------------
(* Every step preserves the invariant.  StepKeeps names what an action has  *)
(* to show, with blocking replaced by "a record is open".                   *)

LEMMA StepKeeps ==
    ASSUME auth' \in Authority, presence' \in Presence,
           contras' \in Contradictions, events' \in Seq(GateEvent),
           auth'.score > 0 <=> contras'.open > 0,
           auth'.status = "PROMOTED" =>
               auth'.weight >= PromotionThreshold /\ ~(contras'.open > 0),
           auth'.status = "EXPIRED" => auth'.weight = 0
    PROVE  IInv'
  <1>1. BlockingState(contras', auth'.score) <=> contras'.open > 0
    BY DEF BlockingState, Contradictions, Authority
  <1>2. QED
    BY <1>1 DEF IInv, TypeOK, ScoreMirrorsRecords, PromotedIsSound,
                ExpiredIsWeightless, Blocking

\* Submissions that leave the authority as it is.
LEMMA SubmitQuietlyKeeps ==
    ASSUME IInv, NEW policy \in PolicyIds, NEW o \in Offer,
           SubmitExpired(policy, o) \/ SubmitWithoutEffect(policy, o)
    PROVE  IInv'
  <1>1. UNCHANGED <<auth, presence, contras>>
    BY DEF SubmitExpired, SubmitWithoutEffect
  <1>2. PICK d \in Decisions :
            Record(policy, d, OfferedRecurrence(o), o.external)
    BY DEF SubmitExpired, SubmitWithoutEffect, Decisions
  <1>3. policy \in EventPolicies
    BY DEF EventPolicies
  <1>4. events' \in Seq(GateEvent)
    BY <1>1, <1>2, <1>3, RecordKeepsType, OfferedIsTyped DEF IInv, TypeOK
  <1>5. contras.open > 0 <=> Blocking
    BY BlockingIsOpen DEF IInv
  <1>6. QED
    BY <1>1, <1>4, <1>5, StepKeeps DEF IInv, TypeOK, ScoreMirrorsRecords,
       PromotedIsSound, ExpiredIsWeightless

\* A contradiction applied on top of `before` opens a record and demotes.
LEMMA OpeningKeeps ==
    ASSUME IInv, NEW policy \in PolicyIds, NEW o \in Offer,
           NEW before \in Authority, OpenContradiction(before),
           Record(policy, "contradicted", OfferedRecurrence(o), o.external)
    PROVE  IInv'
  <1>1. /\ auth' \in Authority /\ auth'.status = "NEW" /\ auth'.score > 0
    BY ContradictedKeeps DEF OpenContradiction
  <1>2. contras' \in Contradictions /\ contras'.open > 0
    BY DEF OpenContradiction, Contradictions, IInv, TypeOK
  <1>3. presence' \in Presence
    BY DEF OpenContradiction, AfterTracePenalty, Presence, Bands
  <1>4. policy \in EventPolicies /\ "contradicted" \in Decisions
    BY DEF EventPolicies, Decisions
  <1>5. events' \in Seq(GateEvent)
    BY <1>1, <1>2, <1>4, RecordKeepsType, OfferedIsTyped DEF IInv
  <1>6. QED
    BY <1>1, <1>2, <1>3, <1>5, StepKeeps

\* Support applied on top of `before` to an unblocked seed.
LEMMA SupportingKeeps ==
    ASSUME IInv, NEW policy \in PolicyIds, NEW o \in Offer, NEW k \in Nat,
           NEW before \in Authority, before.score = auth.score, ~Blocking,
           auth' = Supported(before, k), UNCHANGED <<presence, contras>>,
           NEW d \in {"promoted", "validated"},
           Record(policy, d, OfferedRecurrence(o), o.external)
    PROVE  IInv'
  <1>1. /\ auth' \in Authority /\ auth'.status \in {"PROMOTED", "ACTIVE"}
        /\ auth'.score = auth.score
        /\ auth'.status = "PROMOTED" => auth'.weight >= PromotionThreshold
    BY SupportedKeeps
  <1>2. ~(contras.open > 0)
    BY BlockingIsOpen DEF IInv
  <1>3. policy \in EventPolicies /\ d \in Decisions
    BY DEF EventPolicies, Decisions
  <1>4. events' \in Seq(GateEvent)
    BY <1>1, <1>3, RecordKeepsType, OfferedIsTyped DEF IInv, TypeOK
  <1>5. QED
    BY <1>1, <1>2, <1>4, StepKeeps DEF IInv, TypeOK, ScoreMirrorsRecords

LEMMA SubmitKeeps ==
    ASSUME IInv, NEW policy \in PolicyIds, NEW o \in Offer,
           SubmitSignals(policy, o)
    PROVE  IInv'
  <1>0. auth \in Authority
    BY DEF IInv, TypeOK
  <1>1. CASE SubmitExpired(policy, o) \/ SubmitWithoutEffect(policy, o)
    BY <1>1, SubmitQuietlyKeeps
  <1>2. CASE SubmitContradiction(policy, o)
    BY <1>0, <1>2, OpeningKeeps DEF SubmitContradiction
  <1>3. CASE SubmitSupport(policy, o)
    <2>1. PICK d \in {"promoted", "validated"} :
              Record(policy, d, OfferedRecurrence(o), o.external)
      BY <1>3 DEF SubmitSupport
    <2>2. ~Blocking
      BY <1>3 DEF SubmitSupport, Qualifies
    <2>3. QED
      BY <1>0, <1>3, <2>1, <2>2, FreshIsFinite, SupportingKeeps DEF SubmitSupport
  <1>4. CASE policy = LegacyPolicy /\ LegacyContradiction(o)
    BY <1>0, <1>4, EvidencedKeeps, OpeningKeeps DEF LegacyContradiction
  <1>5. CASE policy = LegacyPolicy /\ LegacySupport(o)
    <2>1. PICK d \in {"promoted", "validated"} :
              Record(policy, d, OfferedRecurrence(o), o.external)
      BY <1>5 DEF LegacySupport
    <2>2. ~Blocking
      BY <1>5 DEF LegacySupport, LegacyQualifies
    <2>3. QED
      BY <1>0, <1>5, <2>1, <2>2, EvidencedKeeps, SupportingKeeps DEF LegacySupport
  <1>6. CASE policy = LegacyPolicy /\ LegacyBlocked(o)
    <2>1. /\ auth' \in Authority /\ auth'.status = auth.status
          /\ auth'.weight = auth.weight /\ auth'.score = auth.score
      BY <1>0, <1>6, EvidencedKeeps DEF LegacyBlocked
    <2>2. UNCHANGED <<presence, contras>>
      BY <1>6 DEF LegacyBlocked
    <2>3. policy \in EventPolicies /\ "blocked" \in Decisions
      BY DEF EventPolicies, Decisions
    <2>4. events' \in Seq(GateEvent)
      BY <1>6, <2>1, <2>2, <2>3, RecordKeepsType, OfferedIsTyped
         DEF IInv, TypeOK, LegacyBlocked
    <2>5. contras.open > 0 <=> Blocking
      BY BlockingIsOpen DEF IInv
    <2>6. QED
      BY <2>1, <2>2, <2>4, <2>5, StepKeeps DEF IInv, TypeOK,
         ScoreMirrorsRecords, PromotedIsSound, ExpiredIsWeightless
  <1>7. QED
    BY <1>1, <1>2, <1>3, <1>4, <1>5, <1>6 DEF SubmitSignals

\* Closing records clears the scalar exactly when the last one closes.
LEMMA ResolveKeeps ==
    ASSUME IInv, NEW count \in 1..contras.open, ResolveContradiction(count)
    PROVE  IInv'
  <1>0. /\ "contradiction_resolution" \in EventPolicies
        /\ "contradiction_resolved" \in Decisions /\ TypeOK
        /\ Record("contradiction_resolution", "contradiction_resolved", 0, {})
    BY DEF EventPolicies, Decisions, IInv, ResolveContradiction
  <1> USE DEF IInv, TypeOK
  <1>1. /\ contras' \in Contradictions
        /\ contras'.open = contras.open - count
    BY DEF ResolveContradiction, Closed, Contradictions
  <1>2. contras.open > 0
    BY DEF Contradictions
  <1>3. auth.status # "PROMOTED"
    BY <1>2, BlockingIsOpen DEF PromotedIsSound
  <1>4. CASE contras'.open = 0
    <2> DEFINE n == [auth EXCEPT !.score = 0]
    <2>1. n \in Authority /\ n.status = auth.status /\ n.score = 0
      BY SMTT(20), WeightAssumption DEF Authority
    <2>2. auth' = Write(auth, n)
      BY <1>4 DEF ResolveContradiction
    <2> HIDE DEF n
    <2>3. /\ auth' \in Authority /\ auth'.score = 0
          /\ auth'.status = auth.status
      BY <2>1, <2>2, WriteKeeps
    <2>4. events' \in Seq(GateEvent)
      BY <1>0, <1>1, <2>3, RecordPlainKeepsType
    <2>5. auth.status # "EXPIRED" /\ UNCHANGED presence
      BY DEF ResolveContradiction
    <2>6. QED
      BY <1>1, <1>3, <1>4, <2>3, <2>4, <2>5, StepKeeps
  <1>5. CASE contras'.open # 0
    <2>1. auth' = auth /\ UNCHANGED presence
      BY <1>5 DEF ResolveContradiction
    <2>2. contras'.open > 0
      BY <1>1, <1>5 DEF Contradictions
    <2>3. events' \in Seq(GateEvent)
      BY <1>0, <1>1, <2>1, RecordPlainKeepsType
    <2>4. QED
      BY <1>1, <1>2, <1>3, <2>1, <2>2, <2>3, StepKeeps
         DEF ScoreMirrorsRecords, ExpiredIsWeightless
  <1>6. QED
    BY <1>4, <1>5

\* Feedback may demote, and never promotes: a seed that is PROMOTED afterwards was
\* PROMOTED before and still has the promotion weight.
LEMMA ProbeKeeps ==
    ASSUME IInv, NEW delta \in ProbeDeltas, ProbeFeedback(delta)
    PROVE  IInv'
  <1> USE DEF IInv, TypeOK
  <1> DEFINE w == Least(MaxWeight, Most(0, auth.weight + delta))
             st == IF auth.status = "PROMOTED" /\ w < PromotionThreshold
                   THEN "ACTIVE" ELSE auth.status
             n == [auth EXCEPT !.weight = w, !.status = st]
  <1>1. w \in 0..MaxWeight
    BY WeightAssumption DEF Least, Most, Authority
  <1>2. /\ st \in {"ACTIVE", "PROMOTED"}
        /\ st = "PROMOTED" => auth.status = "PROMOTED" /\ w >= PromotionThreshold
    BY <1>1, WeightAssumption DEF ProbeFeedback
  <1>3. auth' = Write(auth, n)
    BY DEF ProbeFeedback, Nudged
  <1> HIDE DEF w, st
  <1>4. n \in Authority /\ n.status = st /\ n.score = auth.score /\ n.weight = w
    BY <1>1, <1>2 DEF Authority, Statuses
  <1> HIDE DEF n
  <1>5. /\ auth' \in Authority /\ auth'.status = st /\ auth'.weight = w
        /\ auth'.score = auth.score
    BY <1>3, <1>4, WriteKeeps
  <1>6. UNCHANGED <<presence, contras>>
    BY DEF ProbeFeedback
  <1>7. PICK d \in Decisions : Record("probe_feedback", d, 0, {})
    BY DEF ProbeFeedback, Decisions
  <1>8. events' \in Seq(GateEvent)
    <2>1. "probe_feedback" \in EventPolicies /\ contras' \in Contradictions
      BY <1>6 DEF EventPolicies
    <2>2. QED
      BY <1>5, <1>7, <2>1, RecordPlainKeepsType
  <1>9. auth.status = "PROMOTED" => ~(contras.open > 0)
    BY BlockingIsOpen DEF PromotedIsSound
  <1>10. QED
    BY <1>2, <1>5, <1>6, <1>8, <1>9, StepKeeps DEF ScoreMirrorsRecords

\* Expiry clears the weight in the same write.
LEMMA ExpiredKeeps ==
    ASSUME NEW a \in Authority, a.status = "EXPIRED" => a.weight = 0
    PROVE  /\ Expired(a) \in Authority /\ Expired(a).status = "EXPIRED"
           /\ Expired(a).weight = 0 /\ Expired(a).score = a.score
  <1> DEFINE n == [a EXCEPT !.status = "EXPIRED", !.weight = 0]
  <1>0. 0 \in 0..MaxWeight /\ "EXPIRED" \in Statuses
    BY WeightAssumption DEF Statuses
  <1>1. /\ n \in Authority /\ n.status = "EXPIRED" /\ n.weight = 0
        /\ n.score = a.score
    BY <1>0 DEF Authority
  <1>2. Expired(a) = IF a.status = "EXPIRED" THEN a ELSE Write(a, n)
    BY DEF Expired
  <1> HIDE DEF n
  <1>3. QED
    BY <1>1, <1>2, WriteKeeps

LEMMA ExpiringKeeps ==
    ASSUME IInv, NEW a \in Authority, a.score = auth.score,
           a.status = "EXPIRED" => a.weight = 0,
           auth' = Expired(a), presence' \in Presence, UNCHANGED contras,
           Record("lifecycle_expiry", "expired", 0, {})
    PROVE  IInv'
  <1> USE DEF IInv, TypeOK
  <1>1. /\ auth' \in Authority /\ auth'.status = "EXPIRED" /\ auth'.weight = 0
        /\ auth'.score = auth.score
    BY ExpiredKeeps
  <1>2. events' \in Seq(GateEvent)
    <2>1. /\ "lifecycle_expiry" \in EventPolicies /\ "expired" \in Decisions
          /\ contras' \in Contradictions
      BY DEF EventPolicies, Decisions
    <2>2. QED
      BY <1>1, <2>1, RecordPlainKeepsType
  <1>3. QED
    BY <1>1, <1>2, StepKeeps DEF ScoreMirrorsRecords

\* Only the status moves in a decay, and never to PROMOTED or EXPIRED.
LEMMA DecayedKeeps ==
    ASSUME IInv, auth.status # "EXPIRED", NEW band \in Bands
    PROVE  /\ Decayed(band) \in Authority
           /\ Decayed(band).status \in {"DORMANT", "DECAYING", auth.status}
           /\ Decayed(band).weight = auth.weight
           /\ Decayed(band).score = auth.score
  <1> USE DEF IInv, TypeOK
  <1> DEFINE st == StatusAfterDecay(band)
             n == [auth EXCEPT !.status = st]
  <1>1. st \in {"DORMANT", "DECAYING", auth.status}
    BY DEF StatusAfterDecay
  <1>2. Decayed(band) = Write(auth, n)
    BY DEF Decayed
  <1> HIDE DEF st
  <1>3. /\ n \in Authority /\ n.status = st /\ n.weight = auth.weight
        /\ n.score = auth.score
    BY <1>1 DEF Authority, Statuses
  <1> HIDE DEF n
  <1>4. QED
    BY <1>1, <1>2, <1>3, WriteKeeps

\* A lifecycle move that records nothing and only changes the status.
LEMMA MovingKeeps ==
    ASSUME IInv, auth.status # "EXPIRED",
           auth' \in Authority, auth'.weight = auth.weight,
           auth'.score = auth.score,
           auth'.status \in {"DORMANT", "DECAYING", "NEW", "ACTIVE", auth.status},
           presence' \in Presence, UNCHANGED <<contras, events>>
    PROVE  IInv'
  BY BlockingIsOpen, StepKeeps DEF IInv, TypeOK, ScoreMirrorsRecords,
     PromotedIsSound

LEMMA DecayKeeps ==
    ASSUME IInv, NEW turns \in TurnSteps, NEW band \in Bands,
           Decay(turns, band) \/ DecayToExpiry(turns, band)
    PROVE  IInv'
  <1>1. auth.status # "EXPIRED"
    BY DEF Decay, DecayToExpiry
  <1>2. DormantAfter(band, turns) \in Nat
    BY CountAssumption DEF DormantAfter, IInv, TypeOK, Presence
  <1>3. presence' \in Presence
    BY <1>2 DEF Decay, DecayToExpiry, Presence, IInv, TypeOK
  <1>4. CASE Decay(turns, band)
    BY <1>1, <1>3, <1>4, DecayedKeeps, MovingKeeps DEF Decay
  <1>5. CASE DecayToExpiry(turns, band)
    BY <1>1, <1>3, <1>5, DecayedKeeps, ExpiringKeeps DEF DecayToExpiry
  <1>6. QED
    BY <1>4, <1>5

LEMMA HousekeepingKeeps ==
    ASSUME IInv, ExpireByHousekeeping
    PROVE  IInv'
  BY ExpiringKeeps DEF ExpireByHousekeeping, IInv, TypeOK, ExpiredIsWeightless

\* A status-only write, as reactivation and redetection make it.
LEMMA RestatusKeeps ==
    ASSUME NEW a \in Authority, NEW st \in Statuses
    PROVE  /\ Write(a, [a EXCEPT !.status = st]) \in Authority
           /\ Write(a, [a EXCEPT !.status = st]).status = st
           /\ Write(a, [a EXCEPT !.status = st]).weight = a.weight
           /\ Write(a, [a EXCEPT !.status = st]).score = a.score
  <1> DEFINE n == [a EXCEPT !.status = st]
  <1>1. /\ n \in Authority /\ n.status = st /\ n.weight = a.weight
        /\ n.score = a.score
    BY DEF Authority
  <1> HIDE DEF n
  <1>2. Write(a, n) \in Authority /\ Write(a, n).status = st
        /\ Write(a, n).weight = a.weight /\ Write(a, n).score = a.score
    BY <1>1, WriteKeeps
  <1>3. QED
    BY <1>2 DEF n

LEMMA ReactivateKeeps ==
    ASSUME IInv, Reactivate
    PROVE  IInv'
  <1> USE DEF IInv, TypeOK
  <1>1. /\ auth' \in Authority /\ auth'.status = "NEW"
        /\ auth'.weight = auth.weight /\ auth'.score = auth.score
    BY RestatusKeeps DEF Reactivate, Statuses
  <1>2. presence' \in Presence
    <2>1. 3 \in Bands /\ 0 \in Nat
      BY DEF Bands
    <2>2. QED
      BY <2>1 DEF Reactivate, Presence
  <1>3. QED
    BY <1>1, <1>2, MovingKeeps DEF Reactivate

LEMMA RedetectKeeps ==
    ASSUME IInv, NEW band \in Bands, Redetect(band)
    PROVE  IInv'
  <1> USE DEF IInv, TypeOK
  <1>1. /\ auth' \in Authority /\ auth'.status \in {"ACTIVE", auth.status}
        /\ auth'.weight = auth.weight /\ auth'.score = auth.score
    BY RestatusKeeps DEF Redetect, Statuses
  <1>2. presence' \in Presence
    BY DEF Redetect, Presence
  <1>3. QED
    BY <1>1, <1>2, MovingKeeps DEF Redetect, Redetectable

\* A person's contradiction is a submission like another, under the legacy policy.
LEMMA FalsifySubmits ==
    ASSUME Falsify
    PROVE  \E policy \in PolicyIds, o \in Offer : SubmitSignals(policy, o)
  <1> DEFINE o == [recurrence |-> FALSE, external |-> {}, contradiction |-> TRUE,
                   selfDerived |-> FALSE]
  <1>1. CompatibilitySignals(o) \in Offer
    BY DEF CompatibilitySignals, Offer
  <1>2. LegacyPolicy \in PolicyIds
    BY DEF PolicyIds
  <1>3. SubmitSignals(LegacyPolicy, CompatibilitySignals(o))
    BY DEF Falsify, RunValidationGate
  <1>4. QED
    BY <1>1, <1>2, <1>3

\* The steps of the Gate and of the lifecycle.
LEMMA SubmissionOrNot ==
    ASSUME Next
    PROVE  \/ \E policy \in PolicyIds, o \in Offer : SubmitSignals(policy, o)
           \/ \E count \in 1..contras.open : ResolveContradiction(count)
           \/ \E delta \in ProbeDeltas : ProbeFeedback(delta)
           \/ ExpireByHousekeeping
           \/ \E turns \in TurnSteps, band \in Bands :
                  Decay(turns, band) \/ DecayToExpiry(turns, band)
           \/ Reactivate
           \/ \E band \in Bands : Redetect(band)
  BY FalsifySubmits, PoliciesAssumption, OffersAssumption DEF Next

LEMMA NextKeeps == IInv /\ [Next]_vars => IInv'
  <1> SUFFICES ASSUME IInv, [Next]_vars PROVE IInv'
    OBVIOUS
  <1>1. ASSUME NEW policy \in PolicyIds, NEW o \in Offer, SubmitSignals(policy, o)
        PROVE  IInv'
    BY <1>1, SubmitKeeps
  <1>2. ASSUME NEW count \in 1..contras.open, ResolveContradiction(count)
        PROVE  IInv'
    BY <1>2, ResolveKeeps
  <1>3. ASSUME NEW delta \in ProbeDeltas, ProbeFeedback(delta)
        PROVE  IInv'
    BY <1>3, ProbeKeeps
  <1>4. CASE ExpireByHousekeeping
    BY <1>4, HousekeepingKeeps
  <1>5. ASSUME NEW turns \in TurnSteps, NEW band \in Bands,
               Decay(turns, band) \/ DecayToExpiry(turns, band)
        PROVE  IInv'
    BY <1>5, DecayKeeps
  <1>6. CASE Reactivate
    BY <1>6, ReactivateKeeps
  <1>7. ASSUME NEW band \in Bands, Redetect(band)
        PROVE  IInv'
    BY <1>7, RedetectKeeps
  <1>8. CASE UNCHANGED vars
    BY <1>8 DEF vars, IInv, TypeOK, ScoreMirrorsRecords, PromotedIsSound,
                ExpiredIsWeightless, Blocking
  <1>9. QED
    BY <1>1, <1>2, <1>3, <1>4, <1>5, <1>6, <1>7, <1>8, SubmissionOrNot

-----------------------------------------------------------------------------

\* Every variable of the seed keeps its type, for every configuration.
THEOREM GateTypeCorrect == Spec => []TypeOK
  <1>1. IInv => TypeOK
    BY DEF IInv
  <1>2. QED
    BY <1>1, InitEstablishes, NextKeeps, PTL DEF Spec

\* The scalar and the records agree on contradiction in every reachable state.
THEOREM ScoreAlwaysMirrorsRecords == Spec => []ScoreMirrorsRecords
  <1>1. IInv => ScoreMirrorsRecords
    BY DEF IInv
  <1>2. QED
    BY <1>1, InitEstablishes, NextKeeps, PTL DEF Spec

\* For any number of calls these hold together: types and clamps, scalar and records,
\* promotion and blocking, and what is asked of a seed that is read back.
THEOREM AuthorityIsAlwaysSound == Spec => []AuthorityIsSound
  <1>1. IInv => Restorable(auth, presence)
    BY DEF IInv, TypeOK, ExpiredIsWeightless, Restorable, Authority, Presence, Bands
  <1>2. IInv => AuthorityIsSound
    BY <1>1 DEF IInv, AuthorityIsSound
  <1>3. QED
    BY <1>2, InitEstablishes, NextKeeps, PTL DEF Spec

\* No seed is ever promoted below the promotion weight or while contradicted.
THEOREM PromotedIsAlwaysSound == Spec => []PromotedIsSound
  <1>1. IInv => PromotedIsSound
    BY DEF IInv
  <1>2. QED
    BY <1>1, InitEstablishes, NextKeeps, PTL DEF Spec

-----------------------------------------------------------------------------
(* Versions.  A step either leaves the version, and then every value that a *)
(* version stands for, or moves it up; and what it records carries the      *)
(* version and the authority it left behind.                                *)

\* What two authorities share when one version names both.
Alike(a, b) ==
    /\ a.weight = b.weight /\ a.score = b.score
    /\ (a.status = "PROMOTED") = (b.status = "PROMOTED")

\* b can follow a: a later version, or the same one naming the same authority.
Follows(a, b) == a.version < b.version \/ (a.version = b.version /\ Alike(a, b))

LEMMA WriteFollows ==
    ASSUME NEW old \in Authority, NEW new \in Authority
    PROVE  Follows(old, Write(old, new))
  <1>1. CASE \/ new.weight # old.weight \/ new.evidence # old.evidence
             \/ new.score # old.score
             \/ (new.status = "PROMOTED") # (old.status = "PROMOTED")
    BY <1>1 DEF Write, Follows, Authority
  <1>2. CASE /\ new.weight = old.weight /\ new.evidence = old.evidence
             /\ new.score = old.score
             /\ (new.status = "PROMOTED") = (old.status = "PROMOTED")
    BY <1>2 DEF Write, Follows, Alike, Authority
  <1>3. QED
    BY <1>1, <1>2

LEMMA FollowsTransitively ==
    ASSUME NEW a \in Authority, NEW b \in Authority, NEW c \in Authority,
           Follows(a, b), Follows(b, c)
    PROVE  Follows(a, c)
  BY DEF Follows, Alike, Authority

LEMMA FollowsItself == ASSUME NEW a \in Authority PROVE Follows(a, a)
  BY DEF Follows, Alike

LEMMA ContradictedFollows ==
    ASSUME NEW a \in Authority PROVE Follows(a, Contradicted(a))
  <1> DEFINE w == Most(0, a.weight - ContradictionPenalty)
             s == Least(MaxScore, a.score + 1)
             n == [a EXCEPT !.weight = w, !.score = s, !.status = "NEW"]
  <1>1. w \in 0..MaxWeight
    BY WeightAssumption DEF Most, Authority
  <1>2. s \in 0..MaxScore
    BY WeightAssumption DEF Least, Authority
  <1>3. Contradicted(a) = Write(a, n)
    BY DEF Contradicted
  <1> HIDE DEF w, s
  <1>4. n \in Authority
    BY <1>1, <1>2 DEF Authority, Statuses
  <1> HIDE DEF n
  <1>5. QED
    BY <1>3, <1>4, WriteFollows

LEMMA SupportedFollows ==
    ASSUME NEW a \in Authority, NEW k \in Nat PROVE Follows(a, Supported(a, k))
  <1> DEFINE w == Least(MaxWeight, a.weight + WeightIncrement)
             st == IF w >= PromotionThreshold THEN "PROMOTED" ELSE "ACTIVE"
             n == [a EXCEPT !.weight = w, !.evidence = a.evidence + k, !.status = st]
  <1>1. w \in 0..MaxWeight
    BY WeightAssumption DEF Least, Authority
  <1>2. st \in Statuses /\ a.evidence + k \in Nat
    BY DEF Statuses, Authority
  <1>3. Supported(a, k) = Write(a, n)
    BY DEF Supported
  <1> HIDE DEF w, st
  <1>4. n \in Authority
    BY <1>1, <1>2 DEF Authority
  <1> HIDE DEF n
  <1>5. QED
    BY <1>3, <1>4, WriteFollows

LEMMA EvidencedFollows ==
    ASSUME NEW o \in Offer, auth \in Authority PROVE Follows(auth, Evidenced(o))
  <1> DEFINE n == [auth EXCEPT !.evidence = auth.evidence + Cardinality(FreshSources(o))]
  <1>1. n \in Authority
    BY FreshIsFinite DEF Authority
  <1>2. QED
    BY <1>1, WriteFollows DEF Evidenced

LEMMA ExpiredFollows ==
    ASSUME NEW a \in Authority PROVE Follows(a, Expired(a))
  <1> DEFINE n == [a EXCEPT !.status = "EXPIRED", !.weight = 0]
  <1>1. 0 \in 0..MaxWeight /\ "EXPIRED" \in Statuses
    BY WeightAssumption DEF Statuses
  <1>2. n \in Authority
    BY <1>1 DEF Authority
  <1>3. Expired(a) = IF a.status = "EXPIRED" THEN a ELSE Write(a, n)
    BY DEF Expired
  <1> HIDE DEF n
  <1>4. QED
    BY <1>2, <1>3, WriteFollows, FollowsItself

LEMMA RestatusFollows ==
    ASSUME NEW a \in Authority, NEW st \in Statuses
    PROVE  Follows(a, Write(a, [a EXCEPT !.status = st]))
  <1>1. [a EXCEPT !.status = st] \in Authority
    BY DEF Authority
  <1>2. QED
    BY <1>1, WriteFollows

\* Recorded by this step: an event for the authority the step left behind.
RecordedNow ==
    \E e : /\ events' = Append(events, e)
          /\ e.version = auth'.version /\ e.weightAfter = auth'.weight
          /\ e.promotedAfter = (auth'.status = "PROMOTED")
          /\ e.blockingAfter = BlockingState(contras', auth'.score)

LEMMA RecordRecords ==
    ASSUME NEW policy, NEW decision, NEW recurrence, NEW external,
           Record(policy, decision, recurrence, external)
    PROVE  RecordedNow
  <1> DEFINE e == [policy |-> policy, decision |-> decision,
                   recurrence |-> recurrence, external |-> external,
                   promotedAfter |-> auth'.status = "PROMOTED",
                   weightBefore |-> auth.weight, weightAfter |-> auth'.weight,
                   blockingAfter |-> BlockingState(contras', auth'.score),
                   version |-> auth'.version]
  <1>1. events' = Append(events, e)
    BY DEF Record
  <1>2. /\ e.version = auth'.version /\ e.weightAfter = auth'.weight
        /\ e.promotedAfter = (auth'.status = "PROMOTED")
        /\ e.blockingAfter = BlockingState(contras', auth'.score)
    OBVIOUS
  <1> HIDE DEF e
  <1>3. QED
    BY <1>1, <1>2 DEF RecordedNow

LEMMA StepFollows ==
    ASSUME IInv, Next
    PROVE  Follows(auth, auth') /\ (UNCHANGED events \/ RecordedNow)
  <1>0. auth \in Authority /\ TypeOK
    BY DEF IInv, TypeOK
  <1>1. ASSUME NEW policy \in PolicyIds, NEW o \in Offer, SubmitSignals(policy, o)
        PROVE  Follows(auth, auth') /\ RecordedNow
    <2>1. RecordedNow
      BY <1>1, RecordRecords
         DEF SubmitSignals, SubmitExpired, SubmitContradiction, SubmitSupport,
             SubmitWithoutEffect, LegacyContradiction, LegacySupport, LegacyBlocked
    <2>2. CASE SubmitExpired(policy, o) \/ SubmitWithoutEffect(policy, o)
      BY <1>0, <2>1, <2>2, FollowsItself DEF SubmitExpired, SubmitWithoutEffect
    <2>3. CASE SubmitContradiction(policy, o)
      BY <1>0, <2>1, <2>3, ContradictedFollows
         DEF SubmitContradiction, OpenContradiction
    <2>4. CASE SubmitSupport(policy, o)
      BY <1>0, <2>1, <2>4, SupportedFollows, FreshIsFinite DEF SubmitSupport
    <2>5. CASE LegacyContradiction(o)
      <3>1. auth' = Contradicted(Evidenced(o))
        BY <2>5 DEF LegacyContradiction, OpenContradiction
      <3>2. QED
        BY <1>0, <2>1, <3>1, EvidencedKeeps, EvidencedFollows, ContradictedKeeps,
           ContradictedFollows, FollowsTransitively
    <2>6. CASE LegacySupport(o)
      <3>1. auth' = Supported(Evidenced(o), 0)
        BY <2>6 DEF LegacySupport
      <3>2. QED
        BY <1>0, <2>1, <3>1, EvidencedKeeps, EvidencedFollows, SupportedKeeps,
           SupportedFollows, FollowsTransitively
    <2>7. CASE LegacyBlocked(o)
      BY <1>0, <2>1, <2>7, EvidencedFollows DEF LegacyBlocked
    <2>8. QED
      BY <1>1, <2>2, <2>3, <2>4, <2>5, <2>6, <2>7 DEF SubmitSignals
  <1>2. ASSUME NEW count \in 1..contras.open, ResolveContradiction(count)
        PROVE  Follows(auth, auth') /\ RecordedNow
    <2>1. [auth EXCEPT !.score = 0] \in Authority
      BY <1>0, WeightAssumption DEF Authority
    <2>2. Follows(auth, auth')
      BY <1>0, <1>2, <2>1, WriteFollows, FollowsItself DEF ResolveContradiction
    <2>3. QED
      BY <1>2, <2>2, RecordRecords DEF ResolveContradiction
  <1>3. ASSUME NEW delta \in ProbeDeltas, ProbeFeedback(delta)
        PROVE  Follows(auth, auth') /\ RecordedNow
    <2> DEFINE w == Least(MaxWeight, Most(0, auth.weight + delta))
               st == IF auth.status = "PROMOTED" /\ w < PromotionThreshold
                     THEN "ACTIVE" ELSE auth.status
               n == [auth EXCEPT !.weight = w, !.status = st]
    <2>1. w \in 0..MaxWeight
      BY <1>0, WeightAssumption DEF Least, Most, Authority
    <2>2. st \in Statuses
      BY <1>0 DEF Statuses, Authority
    <2>3. auth' = Write(auth, n)
      BY <1>3 DEF ProbeFeedback, Nudged
    <2> HIDE DEF w, st
    <2>4. n \in Authority
      BY <1>0, <2>1, <2>2 DEF Authority
    <2> HIDE DEF n
    <2>5. Follows(auth, auth')
      BY <1>0, <2>3, <2>4, WriteFollows
    <2>6. RecordedNow
      BY <1>3, RecordRecords DEF ProbeFeedback
    <2>7. QED
      BY <2>5, <2>6
  <1>4. CASE ExpireByHousekeeping
    BY <1>0, <1>4, ExpiredFollows, RecordRecords DEF ExpireByHousekeeping
  <1>5. ASSUME NEW turns \in TurnSteps, NEW band \in Bands,
               Decay(turns, band) \/ DecayToExpiry(turns, band)
        PROVE  Follows(auth, auth') /\ (UNCHANGED events \/ RecordedNow)
    <2>1. auth.status # "EXPIRED"
      BY <1>5 DEF Decay, DecayToExpiry
    <2>2. Decayed(band) \in Authority
      BY <2>1, DecayedKeeps
    <2>3. Follows(auth, Decayed(band))
      <3>1. StatusAfterDecay(band) \in Statuses
        BY <1>0 DEF StatusAfterDecay, Statuses, Authority
      <3>2. QED
        BY <1>0, <3>1, RestatusFollows DEF Decayed
    <2>4. CASE Decay(turns, band)
      BY <2>3, <2>4 DEF Decay
    <2>5. CASE DecayToExpiry(turns, band)
      <3>1. auth' = Expired(Decayed(band)) /\ RecordedNow
        BY <2>5, RecordRecords DEF DecayToExpiry
      <3>2. (Decayed(band)).status # "EXPIRED"
        BY <2>1, DecayedKeeps
      <3>3. Expired(Decayed(band)) \in Authority
        BY <2>2, <3>2, ExpiredKeeps
      <3>4. QED
        BY <1>0, <2>2, <2>3, <3>1, <3>3, ExpiredFollows, FollowsTransitively
    <2>6. QED
      BY <1>5, <2>4, <2>5
  <1>6. CASE Reactivate
    BY <1>0, <1>6, RestatusFollows DEF Reactivate, Statuses
  <1>7. ASSUME NEW band \in Bands, Redetect(band)
        PROVE  Follows(auth, auth') /\ UNCHANGED events
    BY <1>0, <1>7, RestatusFollows, FollowsItself DEF Redetect, Statuses
  <1>8. QED
    BY <1>1, <1>2, <1>3, <1>4, <1>5, <1>6, <1>7, SubmissionOrNot

\* Past versions never run ahead of the seed.
VersionsBehind == \A i \in 1..Len(events) : events[i].version <= auth.version

VInv == IInv /\ VersionsBehind /\ VersionIdentifiesAuthority

\* The blocking state is a truth value, and the scalar decides it.
LEMMA BlockingFromScore ==
    ASSUME NEW c \in Contradictions, NEW d \in Contradictions,
           NEW s \in 0..MaxScore, s > 0 <=> c.open > 0, s > 0 <=> d.open > 0
    PROVE  BlockingState(c, s) = BlockingState(d, s)
  BY WeightAssumption DEF BlockingState, Contradictions

LEMMA AlikeBlocking ==
    ASSUME IInv, IInv', Alike(auth, auth')
    PROVE  Blocking' = Blocking
  <1>1. /\ contras \in Contradictions /\ contras' \in Contradictions
        /\ auth.score \in 0..MaxScore /\ auth'.score = auth.score
        /\ auth.score > 0 <=> contras.open > 0
        /\ auth'.score > 0 <=> contras'.open > 0
    BY DEF IInv, TypeOK, ScoreMirrorsRecords, Authority, Alike
  <1>2. BlockingState(contras, auth.score) = BlockingState(contras', auth.score)
    BY <1>1, BlockingFromScore
  <1>3. QED
    BY <1>1, <1>2 DEF Blocking

LEMMA VersionStep == VInv /\ [Next]_vars => VInv'
  <1> SUFFICES ASSUME VInv, [Next]_vars PROVE VInv'
    OBVIOUS
  <1>1. IInv /\ IInv'
    BY NextKeeps DEF VInv
  <1>2. CASE UNCHANGED vars
    BY <1>1, <1>2 DEF VInv, vars, VersionsBehind, VersionIdentifiesAuthority, Blocking
  <1>3. CASE Next
    <2> DEFINE Agrees(e, a, b) ==
            e.version = a.version =>
               /\ e.weightAfter = a.weight
               /\ e.promotedAfter = (a.status = "PROMOTED")
               /\ e.blockingAfter = b
    <2>1. Follows(auth, auth') /\ (UNCHANGED events \/ RecordedNow)
      BY <1>1, <1>3, StepFollows
    <2>2. /\ auth \in Authority /\ auth' \in Authority
          /\ events \in Seq(GateEvent) /\ events' \in Seq(GateEvent)
      BY <1>1 DEF IInv, TypeOK
    <2>3. \A i \in 1..Len(events) :
              /\ events[i] \in GateEvent /\ events[i].version \in Nat
              /\ events[i].version <= auth'.version
              /\ Agrees(events[i], auth', Blocking')
      <3> TAKE i \in 1..Len(events)
      <3>1. events[i] \in GateEvent /\ events[i].version \in Nat
        <4>1. events[i] \in GateEvent
          BY <2>2
        <4>2. QED
          BY <4>1 DEF GateEvent
      <3>2. events[i].version <= auth.version /\ Agrees(events[i], auth, Blocking)
        BY DEF VInv, VersionsBehind, VersionIdentifiesAuthority
      <3>3. CASE auth.version < auth'.version
        <4>1. auth.version \in Nat /\ auth'.version \in Nat
          BY <2>2 DEF Authority
        <4>2. events[i].version < auth'.version
          BY <3>1, <3>2, <3>3, <4>1
        <4>3. QED
          BY <3>1, <4>1, <4>2
      <3>4. CASE auth.version = auth'.version /\ Alike(auth, auth')
        <4>1. Blocking' = Blocking
          BY <1>1, <3>4, AlikeBlocking
        <4>2. QED
          BY <3>1, <3>2, <3>4, <4>1 DEF Alike
      <3>5. QED
        BY <2>1, <3>3, <3>4 DEF Follows
    <2>4. \A i \in 1..Len(events) : \A j \in 1..(i - 1) :
              events[j].version = events[i].version =>
                 /\ events[j].weightAfter = events[i].weightAfter
                 /\ events[j].promotedAfter = events[i].promotedAfter
                 /\ events[j].blockingAfter = events[i].blockingAfter
      BY DEF VInv, VersionIdentifiesAuthority
    <2>5. CASE UNCHANGED events
      BY <1>1, <2>3, <2>4, <2>5 DEF VInv, VersionsBehind, VersionIdentifiesAuthority
    <2>6. CASE RecordedNow
      <3>1. PICK e : /\ events' = Append(events, e)
                     /\ e.version = auth'.version /\ e.weightAfter = auth'.weight
                     /\ e.promotedAfter = (auth'.status = "PROMOTED")
                     /\ e.blockingAfter = BlockingState(contras', auth'.score)
        BY <2>6 DEF RecordedNow
      <3>2. e.blockingAfter = Blocking'
        BY <3>1 DEF Blocking
      <3>3. /\ Len(events') = Len(events) + 1 /\ Len(events) \in Nat
            /\ events'[Len(events')] = e
            /\ \A i \in 1..Len(events) : events'[i] = events[i]
        BY <2>2, <3>1
      <3>4. \A i \in 1..Len(events') :
                events'[i].version <= auth'.version /\ Agrees(events'[i], auth', Blocking')
        BY <2>2, <2>3, <3>1, <3>2, <3>3 DEF Authority
      <3>5. \A i \in 1..Len(events') : \A j \in 1..(i - 1) :
                events'[j].version = events'[i].version =>
                   /\ events'[j].weightAfter = events'[i].weightAfter
                   /\ events'[j].promotedAfter = events'[i].promotedAfter
                   /\ events'[j].blockingAfter = events'[i].blockingAfter
        <4> TAKE i \in 1..Len(events')
        <4> TAKE j \in 1..(i - 1)
        <4>1. CASE i \in 1..Len(events)
          BY <2>4, <3>3, <4>1
        <4>2. CASE i = Len(events')
          <5>1. j \in 1..Len(events) /\ events'[j] = events[j]
            BY <3>3, <4>2
          <5>2. Agrees(events[j], auth', Blocking')
            BY <2>3, <5>1
          <5>3. QED
            BY <3>1, <3>2, <3>3, <4>2, <5>1, <5>2
        <4>3. QED
          BY <3>3, <4>1, <4>2
      <3>6. QED
        BY <1>1, <3>4, <3>5 DEF VInv, VersionsBehind, VersionIdentifiesAuthority
    <2>7. QED
      BY <2>1, <2>5, <2>6
  <1>4. QED
    BY <1>2, <1>3

\* One authority version never stands for two authorities: not between two Gate
\* events, and not between an event and the seed as it is now.
THEOREM VersionAlwaysIdentifiesAuthority == Spec => []VersionIdentifiesAuthority
  <1>1. Init => VInv
    <2>1. Init => events = <<>> /\ Len(<<>>) = 0
      BY DEF Init
    <2>2. QED
      BY <2>1, InitEstablishes DEF VInv, VersionsBehind, VersionIdentifiesAuthority
  <1>2. VInv => VersionIdentifiesAuthority
    BY DEF VInv
  <1>3. QED
    BY <1>1, <1>2, VersionStep, PTL DEF Spec

-----------------------------------------------------------------------------
(* Steps.                                                                  *)

\* Nothing moves an expired seed or its contradiction records.
LEMMA ExpiredRests ==
    ASSUME Next, auth.status = "EXPIRED"
    PROVE  auth' = auth /\ contras' = contras
  BY DEF Next, SubmitSignals, SubmitExpired, SubmitContradiction,
         SubmitSupport, SubmitWithoutEffect, LegacyContradiction,
         LegacySupport, LegacyBlocked, ResolveContradiction, Closed, Falsify,
         RunValidationGate, ProbeFeedback,
         ExpireByHousekeeping, Decay, DecayToExpiry, Reactivate, Redetect,
         Redetectable

\* Expiry is for good, whatever a caller submits, resolves or redetects later.
THEOREM ExpiryIsTerminal == Spec => ExpiredIsTerminal
  <1> DEFINE A == auth.status = "EXPIRED" =>
                     /\ auth'.status = "EXPIRED" /\ auth'.weight = 0
                     /\ auth'.evidence = auth.evidence
  <1>1. IInv /\ [Next]_vars => [A]_vars
    <2> SUFFICES ASSUME IInv, Next, auth.status = "EXPIRED" PROVE A
      BY DEF vars
    <2>1. auth' = auth
      BY ExpiredRests
    <2>2. QED
      BY <2>1 DEF IInv, ExpiredIsWeightless
  <1>2. QED
    BY <1>1, InitEstablishes, NextKeeps, PTL DEF Spec, ExpiredIsTerminal

\* What a record puts at the end of the log.
LEMMA RecordedLast ==
    ASSUME TypeOK, NEW policy, NEW decision, NEW recurrence, NEW external,
           Record(policy, decision, recurrence, external)
    PROVE  /\ Len(events') = Len(events) + 1
           /\ events'[Len(events')].policy = policy
           /\ events'[Len(events')].decision = decision
  <1> DEFINE e == [policy |-> policy, decision |-> decision,
                   recurrence |-> recurrence, external |-> external,
                   promotedAfter |-> auth'.status = "PROMOTED",
                   weightBefore |-> auth.weight, weightAfter |-> auth'.weight,
                   blockingAfter |-> BlockingState(contras', auth'.score),
                   version |-> auth'.version]
  <1>1. events' = Append(events, e)
    BY DEF Record
  <1>2. e.policy = policy /\ e.decision = decision
    OBVIOUS
  <1> HIDE DEF e
  <1>3. events \in Seq(GateEvent)
    BY DEF TypeOK
  <1>4. Len(events') = Len(events) + 1 /\ events'[Len(events')] = e
    BY <1>1, <1>3
  <1>5. QED
    BY <1>2, <1>4

\* A step that promotes is the step of a policy on an unblocked seed.
PromotesByPolicy ==
    auth.status # "PROMOTED" /\ auth'.status = "PROMOTED" =>
        /\ ~Blocking
        /\ Len(events') = Len(events) + 1
        /\ events'[Len(events')].policy \in PolicyIds
        /\ events'[Len(events')].decision = "promoted"

LEMMA StepPromotesByPolicy == ASSUME IInv, Next PROVE PromotesByPolicy
  <1> SUFFICES ASSUME auth.status # "PROMOTED", auth'.status = "PROMOTED"
               PROVE  PromotesByPolicy
    BY DEF PromotesByPolicy
  <1>0. auth \in Authority /\ TypeOK
    BY DEF IInv, TypeOK
  <1>1. ASSUME NEW policy \in PolicyIds, NEW o \in Offer, SubmitSignals(policy, o)
        PROVE  PromotesByPolicy
    <2>1. ~SubmitExpired(policy, o) /\ ~SubmitWithoutEffect(policy, o)
      BY DEF SubmitExpired, SubmitWithoutEffect
    <2>2. ~SubmitContradiction(policy, o)
      BY <1>0, ContradictedKeeps DEF SubmitContradiction, OpenContradiction
    <2>3. ~LegacyContradiction(o)
      BY <1>0, EvidencedKeeps, ContradictedKeeps
         DEF LegacyContradiction, OpenContradiction
    <2>4. ~LegacyBlocked(o)
      BY <1>0, EvidencedKeeps DEF LegacyBlocked
    <2>5. policy \in PolicyIds
      BY PoliciesAssumption
    <2>6. CASE SubmitSupport(policy, o)
      <3>1. /\ ~Blocking
            /\ Record(policy, "promoted", OfferedRecurrence(o), o.external)
        BY <2>6 DEF SubmitSupport, Qualifies
      <3>2. QED
        BY <1>0, <2>5, <3>1, RecordedLast DEF PromotesByPolicy
    <2>7. CASE policy = LegacyPolicy /\ LegacySupport(o)
      <3>1. /\ ~Blocking
            /\ Record(policy, "promoted", OfferedRecurrence(o), o.external)
        BY <2>7 DEF LegacySupport, LegacyQualifies
      <3>2. QED
        BY <1>0, <2>5, <3>1, RecordedLast DEF PromotesByPolicy
    <2>8. QED
      BY <1>1, <2>1, <2>2, <2>3, <2>4, <2>6, <2>7 DEF SubmitSignals
  <1>2. ASSUME NEW count \in 1..contras.open, ResolveContradiction(count)
        PROVE  FALSE
    <2>1. [auth EXCEPT !.score = 0] \in Authority
      BY <1>0, WeightAssumption DEF Authority
    <2>2. ([auth EXCEPT !.score = 0]).status = auth.status
      BY <1>0 DEF Authority
    <2>3. auth'.status = auth.status
      BY <1>0, <1>2, <2>1, <2>2, WriteKeeps DEF ResolveContradiction
    <2>4. QED
      BY <2>3
  <1>3. ASSUME NEW delta \in ProbeDeltas, ProbeFeedback(delta)
        PROVE  FALSE
    <2> DEFINE w == Least(MaxWeight, Most(0, auth.weight + delta))
               st == IF auth.status = "PROMOTED" /\ w < PromotionThreshold
                     THEN "ACTIVE" ELSE auth.status
               n == [auth EXCEPT !.weight = w, !.status = st]
    <2>1. w \in 0..MaxWeight
      BY <1>0, WeightAssumption DEF Least, Most, Authority
    <2>2. st = auth.status /\ st \in Statuses
      BY <1>0 DEF Authority
    <2>3. auth' = Write(auth, n)
      BY <1>3 DEF ProbeFeedback, Nudged
    <2> HIDE DEF w, st
    <2>4. n \in Authority /\ n.status = st
      BY <1>0, <2>1, <2>2 DEF Authority
    <2> HIDE DEF n
    <2>5. QED
      BY <1>0, <2>2, <2>3, <2>4, WriteKeeps
  <1>4. CASE ExpireByHousekeeping
    BY <1>0, <1>4, ExpiredKeeps DEF ExpireByHousekeeping
  <1>5. ASSUME NEW turns \in TurnSteps, NEW band \in Bands,
               Decay(turns, band) \/ DecayToExpiry(turns, band)
        PROVE  FALSE
    <2>1. auth.status # "EXPIRED"
      BY <1>5 DEF Decay, DecayToExpiry
    <2>2. /\ Decayed(band) \in Authority
          /\ (Decayed(band)).status \notin {"PROMOTED", "EXPIRED"}
      BY <2>1, DecayedKeeps
    <2>3. QED
      BY <1>5, <2>2, ExpiredKeeps DEF Decay, DecayToExpiry
  <1>6. CASE Reactivate
    BY <1>0, <1>6, RestatusKeeps DEF Reactivate, Statuses
  <1>7. ASSUME NEW band \in Bands, Redetect(band)
        PROVE  FALSE
    BY <1>0, <1>7, RestatusKeeps DEF Redetect, Statuses
  <1>8. QED
    BY <1>1, <1>2, <1>3, <1>4, <1>5, <1>6, <1>7, SubmissionOrNot

\* Promotion is the act of a policy on an unblocked seed, recorded as such: no
\* lifecycle move, feedback or resolution makes a seed PROMOTED.
THEOREM PromotionAlwaysNeedsPolicy == Spec => PromotionNeedsPolicy
  <1>1. IInv /\ [Next]_vars => [PromotesByPolicy]_vars
    BY StepPromotesByPolicy DEF vars
  <1>2. QED
    BY <1>1, InitEstablishes, NextKeeps, PTL
       DEF Spec, PromotionNeedsPolicy, PromotesByPolicy

-----------------------------------------------------------------------------
(* The Gate implements AuthorityPromise.                                   *)

\* Contradictions are opened and closed on seeds that are alive, and leave them so.
LEMMA RecordsMoveAlive ==
    ASSUME IInv, Next, contras' # contras
    PROVE  auth'.status # "EXPIRED"
  <1>0. auth \in Authority /\ TypeOK
    BY DEF IInv, TypeOK
  <1>1. ASSUME NEW policy \in PolicyIds, NEW o \in Offer, SubmitSignals(policy, o)
        PROVE  auth'.status # "EXPIRED"
    <2>1. SubmitContradiction(policy, o) \/ LegacyContradiction(o)
      BY <1>1 DEF SubmitSignals, SubmitExpired, SubmitSupport, SubmitWithoutEffect,
                  LegacySupport, LegacyBlocked
    <2>2. QED
      BY <1>0, <2>1, EvidencedKeeps, ContradictedKeeps
         DEF SubmitContradiction, LegacyContradiction, OpenContradiction
  <1>2. ASSUME NEW count \in 1..contras.open, ResolveContradiction(count)
        PROVE  auth'.status # "EXPIRED"
    <2>1. [auth EXCEPT !.score = 0] \in Authority
      BY <1>0, WeightAssumption DEF Authority
    <2>2. ([auth EXCEPT !.score = 0]).status = auth.status
      BY <1>0 DEF Authority
    <2>3. auth'.status = auth.status
      BY <1>0, <1>2, <2>1, <2>2, WriteKeeps DEF ResolveContradiction
    <2>4. QED
      BY <1>2, <2>3 DEF ResolveContradiction
  <1>3. QED
    BY <1>1, <1>2, SubmissionOrNot DEF ProbeFeedback, ExpireByHousekeeping, Decay, DecayToExpiry,
                      Reactivate, Redetect

\* What a reader of the authority sees of one step of the Gate or the lifecycle.
LEMMA StepKeepsPromise ==
    ASSUME IInv, IInv', Next
    PROVE  Promise!Next \/ UNCHANGED <<Standing, Blocking, auth.version>>
  <1>0. Blocking \in BOOLEAN /\ Blocking' \in BOOLEAN
    BY DEF Blocking, BlockingState
  <1>1. /\ auth \in Authority /\ auth' \in Authority
        /\ auth.version \in Nat /\ auth'.version \in Nat
    BY DEF IInv, TypeOK, Authority
  <1>2. /\ auth.status = "PROMOTED" => ~Blocking
        /\ auth'.status = "PROMOTED" => ~Blocking'
    BY DEF IInv, PromotedIsSound
  <1>3. \/ auth'.version > auth.version
        \/ /\ auth'.version = auth.version /\ Blocking' = Blocking
           /\ (auth'.status = "PROMOTED") = (auth.status = "PROMOTED")
    BY <1>1, StepFollows, AlikeBlocking DEF Follows, Alike
  <1>4. auth.status = "EXPIRED" => auth' = auth /\ contras' = contras
    BY ExpiredRests
  <1>5. auth.status # "PROMOTED" /\ auth'.status = "PROMOTED" => ~Blocking
    BY StepPromotesByPolicy DEF PromotesByPolicy
  <1>6. auth'.status = "EXPIRED" => Blocking' = Blocking
    <2>1. Blocking <=> contras.open > 0
      BY BlockingIsOpen DEF IInv
    <2>2. Blocking' <=> contras'.open > 0
      BY DEF IInv, TypeOK, ScoreMirrorsRecords, Blocking, BlockingState, Contradictions,
             Authority
    <2>3. QED
      BY <1>0, <2>1, <2>2, RecordsMoveAlive
  <1>7. CASE auth.status = "EXPIRED"
    BY <1>4, <1>7 DEF Standing, Blocking
  <1>8. CASE auth.status # "EXPIRED" /\ auth'.status = "EXPIRED"
    <2>1. Promise!Retire
      BY <1>3, <1>6, <1>8 DEF Promise!Retire, Standing
    <2>2. QED
      BY <2>1 DEF Promise!Next
  <1>9. CASE auth.status # "EXPIRED" /\ auth'.status = "PROMOTED"
    <2>1. ~Blocking /\ ~Blocking'
      BY <1>2, <1>5, <1>9
    <2>2. CASE auth.status = "PROMOTED"
      BY <1>0, <1>3, <1>9, <2>1, <2>2 DEF Promise!Next, Promise!Revise, Standing
    <2>3. CASE auth.status # "PROMOTED"
      BY <1>0, <1>3, <1>9, <2>1, <2>3 DEF Promise!Next, Promise!Authorize, Standing
    <2>4. QED
      BY <2>2, <2>3
  <1>10. CASE auth.status # "EXPIRED" /\ auth'.status \notin {"EXPIRED", "PROMOTED"}
    <2>1. Standing' = "open"
      BY <1>10 DEF Standing
    <2>2. Standing \in {"open", "authorized"}
      BY <1>10 DEF Standing
    <2>3. CASE Blocking'
      BY <1>2, <1>3, <1>10, <2>1, <2>2, <2>3
         DEF Promise!Next, Promise!Contradict, Standing
    <2>4. CASE ~Blocking' /\ auth.status = "PROMOTED"
      BY <1>0, <1>2, <1>3, <1>10, <2>1, <2>4 DEF Promise!Next, Promise!Withdraw, Standing
    <2>5. CASE ~Blocking' /\ auth.status # "PROMOTED" /\ Blocking
      BY <1>0, <1>3, <1>10, <2>1, <2>5 DEF Promise!Next, Promise!Settle, Standing
    <2>6. CASE ~Blocking' /\ auth.status # "PROMOTED" /\ ~Blocking
      BY <1>0, <1>3, <1>10, <2>1, <2>6 DEF Promise!Next, Promise!Revise, Standing
    <2>7. QED
      BY <2>3, <2>4, <2>5, <2>6
  <1>11. QED
    BY <1>7, <1>8, <1>9, <1>10

\* SeedGate implements AuthorityPromise: for every offer, policy, clamp and threshold, a
\* reader who compares versions never takes a seed for what it no longer is.
THEOREM GateKeepsPromise == Spec => KeepsPromise
  <1>1. Init => Promise!Init
    BY DEF Init, Promise!Init, Standing, Blocking, BlockingState
  <1>2. IInv /\ IInv' /\ [Next]_vars => [Promise!Next]_<<Standing, Blocking, auth.version>>
    <2> SUFFICES ASSUME IInv, IInv', [Next]_vars
                 PROVE  Promise!Next \/ UNCHANGED <<Standing, Blocking, auth.version>>
      OBVIOUS
    <2>1. CASE UNCHANGED vars
      BY <2>1 DEF vars, Standing, Blocking
    <2>2. QED
      BY <2>1, StepKeepsPromise DEF vars
  <1>3. QED
    BY <1>1, <1>2, InitEstablishes, NextKeeps, PTL
       DEF Spec, KeepsPromise, Promise!Spec, Promise!state

-----------------------------------------------------------------------------
(* What the authority writes do to evidence, weight and version.           *)

\* A write without a change of authority keeps the version.
LEMMA WriteOfNothing ==
    ASSUME NEW old \in Authority, NEW st \in Statuses,
           (st = "PROMOTED") = (old.status = "PROMOTED")
    PROVE  Write(old, [old EXCEPT !.status = st]).version = old.version
  <1> DEFINE n == [old EXCEPT !.status = st]
  <1>1. /\ n \in Authority /\ n.weight = old.weight /\ n.evidence = old.evidence
        /\ n.score = old.score /\ n.status = st
    BY DEF Authority
  <1> HIDE DEF n
  <1>2. Write(old, n).version = old.version
    BY <1>1 DEF Write, Authority
  <1>3. QED
    BY <1>2 DEF n

LEMMA ContradictedLowers ==
    ASSUME NEW a \in Authority
    PROVE  Contradicted(a).weight <= a.weight /\ Contradicted(a).evidence = a.evidence
  <1> DEFINE w == Most(0, a.weight - ContradictionPenalty)
             s == Least(MaxScore, a.score + 1)
             n == [a EXCEPT !.weight = w, !.score = s, !.status = "NEW"]
  <1>1. w \in 0..MaxWeight /\ w <= a.weight
    BY WeightAssumption DEF Most, Authority
  <1>2. s \in 0..MaxScore
    BY WeightAssumption DEF Least, Authority
  <1>3. Contradicted(a) = Write(a, n)
    BY DEF Contradicted
  <1> HIDE DEF w, s
  <1>4. n \in Authority /\ n.weight = w /\ n.evidence = a.evidence
    BY <1>1, <1>2 DEF Authority, Statuses
  <1> HIDE DEF n
  <1>5. QED
    BY <1>1, <1>3, <1>4, WriteKeeps

LEMMA SupportedCounts ==
    ASSUME NEW a \in Authority, NEW k \in Nat
    PROVE  Supported(a, k).evidence = a.evidence + k
  <1> DEFINE w == Least(MaxWeight, a.weight + WeightIncrement)
             st == IF w >= PromotionThreshold THEN "PROMOTED" ELSE "ACTIVE"
             n == [a EXCEPT !.weight = w, !.evidence = a.evidence + k, !.status = st]
  <1>1. w \in 0..MaxWeight
    BY WeightAssumption DEF Least, Authority
  <1>2. st \in Statuses /\ a.evidence + k \in Nat
    BY DEF Statuses, Authority
  <1>3. Supported(a, k) = Write(a, n)
    BY DEF Supported
  <1> HIDE DEF w, st
  <1>4. n \in Authority /\ n.evidence = a.evidence + k
    BY <1>1, <1>2 DEF Authority
  <1> HIDE DEF n
  <1>5. QED
    BY <1>3, <1>4, WriteKeeps

LEMMA EvidencedCounts ==
    ASSUME NEW o \in Offer, auth \in Authority
    PROVE  Evidenced(o).evidence = auth.evidence + Cardinality(FreshSources(o))
  <1> DEFINE n == [auth EXCEPT !.evidence = auth.evidence + Cardinality(FreshSources(o))]
  <1>1. n \in Authority /\ n.evidence = auth.evidence + Cardinality(FreshSources(o))
    BY FreshIsFinite DEF Authority
  <1>2. QED
    BY <1>1, WriteKeeps DEF Evidenced

LEMMA ExpiredCounts ==
    ASSUME NEW a \in Authority
    PROVE  Expired(a).evidence = a.evidence
  <1> DEFINE n == [a EXCEPT !.status = "EXPIRED", !.weight = 0]
  <1>1. 0 \in 0..MaxWeight /\ "EXPIRED" \in Statuses
    BY WeightAssumption DEF Statuses
  <1>2. n \in Authority /\ n.evidence = a.evidence
    BY <1>1 DEF Authority
  <1>3. Expired(a) = IF a.status = "EXPIRED" THEN a ELSE Write(a, n)
    BY DEF Expired
  <1> HIDE DEF n
  <1>4. QED
    BY <1>2, <1>3, WriteKeeps

LEMMA RestatusCounts ==
    ASSUME NEW a \in Authority, NEW st \in Statuses
    PROVE  Write(a, [a EXCEPT !.status = st]).evidence = a.evidence
  <1> DEFINE n == [a EXCEPT !.status = st]
  <1>1. n \in Authority /\ n.evidence = a.evidence
    BY DEF Authority
  <1> HIDE DEF n
  <1>2. Write(a, n).evidence = a.evidence
    BY <1>1, WriteKeeps
  <1>3. QED
    BY <1>2 DEF n

-----------------------------------------------------------------------------
(* What a step adds to the log.                                            *)

\* The verified sources of a list of observations, and those not applied yet.
SourcesOf(external) == {x.source : x \in {y \in external : y.verified}}
FreshIn(external) == SourcesOf(external) \ AppliedSources

\* An event was added that describes this step.
Adds(e) ==
    /\ e \in GateEvent
    /\ events' = Append(events, e)
    /\ e.weightBefore = auth.weight /\ e.weightAfter = auth'.weight
    /\ e.promotedAfter = (auth'.status = "PROMOTED")
    /\ e.blockingAfter = BlockingState(contras', auth'.score)
    /\ e.version = auth'.version

\* Nothing a promotion rests on has changed.
Unmoved == auth'.status = "PROMOTED" =>
               auth.status = "PROMOTED" /\ auth'.version = auth.version

\* The kinds of event: the end of a seed, a contradiction, support, evidence counted
\* by a legacy submission that was blocked, something noted, and feedback.
Ends(e) ==
    /\ e.decision = "expired"
    /\ auth'.status = "EXPIRED" /\ auth'.evidence = auth.evidence
    /\ auth'.weight <= auth.weight

Contradicts(e) ==
    /\ e.decision = "contradicted" /\ e.policy \in PolicyIds
    /\ auth.status # "EXPIRED" /\ auth'.status = "NEW"
    /\ auth'.weight <= auth.weight
    /\ auth'.evidence = auth.evidence + IF e.policy = LegacyPolicy
                                        THEN Cardinality(FreshIn(e.external)) ELSE 0

Supports(e) ==
    /\ e.decision \in Confirming
    /\ e.policy \in {"exploratory", "evidence_backed", LegacyPolicy}
    /\ auth.status # "EXPIRED" /\ auth'.status \in {"PROMOTED", "ACTIVE"}
    /\ auth'.evidence = auth.evidence + Cardinality(FreshIn(e.external))
    /\ \/ FreshIn(e.external) # {}
       \/ /\ e.policy # "evidence_backed"
          /\ e.recurrence > 0 /\ e.recurrence \notin AppliedRecurrences

Counts(e) ==
    /\ e.decision = "blocked" /\ e.policy = LegacyPolicy
    /\ auth.status # "EXPIRED" /\ auth'.status = auth.status
    /\ auth'.weight = auth.weight
    /\ auth'.evidence = auth.evidence + Cardinality(FreshIn(e.external))

Notes(e) ==
    /\ e.decision \in {"no_change", "blocked", "contradiction_resolved"}
    /\ e.policy # LegacyPolicy
    /\ auth.status # "EXPIRED" /\ auth'.status = auth.status
    /\ auth'.weight = auth.weight /\ auth'.evidence = auth.evidence
    /\ Unmoved

Nudges(e) ==
    /\ e.policy = "probe_feedback" /\ e.external = {}
    /\ e.decision \in {"validated", "no_change", "demoted"}
    /\ e.decision = "demoted" => auth'.status # "PROMOTED"
    /\ auth.status # "EXPIRED" /\ auth'.status \in {"PROMOTED", "ACTIVE"}
    /\ auth'.status = "PROMOTED" => auth.status = "PROMOTED"
    /\ auth'.evidence = auth.evidence
    /\ e.decision # "validated" => Unmoved

Kinds(e) == Ends(e) \/ Contradicts(e) \/ Supports(e) \/ Counts(e) \/ Notes(e) \/ Nudges(e)

\* The mechanical lifecycle: nothing is recorded.
Silent ==
    /\ UNCHANGED events
    /\ auth'.status = "EXPIRED" <=> auth.status = "EXPIRED"
    /\ auth'.weight = auth.weight /\ auth'.evidence = auth.evidence
    /\ Unmoved

LEMMA RecordAdds ==
    ASSUME TypeOK, auth' \in Authority, contras' \in Contradictions,
           NEW policy \in EventPolicies, NEW decision \in Decisions,
           NEW recurrence \in Nat, NEW external \in SUBSET External,
           Record(policy, decision, recurrence, external)
    PROVE  \E e : /\ Adds(e) /\ e.policy = policy /\ e.decision = decision
                  /\ e.recurrence = recurrence /\ e.external = external
  <1> DEFINE e == [policy |-> policy, decision |-> decision,
                   recurrence |-> recurrence, external |-> external,
                   promotedAfter |-> auth'.status = "PROMOTED",
                   weightBefore |-> auth.weight, weightAfter |-> auth'.weight,
                   blockingAfter |-> BlockingState(contras', auth'.score),
                   version |-> auth'.version]
  <1>1. /\ auth.weight \in 0..MaxWeight /\ auth'.weight \in 0..MaxWeight
        /\ auth'.version \in Nat
    BY DEF TypeOK, Authority
  <1>2. BlockingState(contras', auth'.score) \in BOOLEAN
    BY DEF BlockingState
  <1>3. e \in GateEvent
    BY <1>1, <1>2 DEF GateEvent
  <1>4. events' = Append(events, e)
    BY DEF Record
  <1>5. /\ e.weightBefore = auth.weight /\ e.weightAfter = auth'.weight
        /\ e.promotedAfter = (auth'.status = "PROMOTED")
        /\ e.blockingAfter = BlockingState(contras', auth'.score)
        /\ e.version = auth'.version
        /\ e.policy = policy /\ e.decision = decision
        /\ e.recurrence = recurrence /\ e.external = external
    OBVIOUS
  <1> HIDE DEF e
  <1>6. QED
    BY <1>3, <1>4, <1>5 DEF Adds

\* An event that carries no support.
LEMMA RecordPlainAdds ==
    ASSUME TypeOK, auth' \in Authority, contras' \in Contradictions,
           NEW policy \in EventPolicies, NEW decision \in Decisions,
           Record(policy, decision, 0, {})
    PROVE  \E e : /\ Adds(e) /\ e.policy = policy /\ e.decision = decision
                  /\ e.external = {}
  <1>1. 0 \in Nat /\ {} \in SUBSET External
    OBVIOUS
  <1>2. QED
    BY <1>1, RecordAdds

\* A submission adds an event of one of the first five kinds.
LEMMA SubmissionAdds ==
    ASSUME IInv, IInv', NEW policy \in PolicyIds, NEW o \in Offer,
           SubmitSignals(policy, o)
    PROVE  \E e : Adds(e) /\ Kinds(e)
  <1>1. /\ TypeOK /\ auth \in Authority /\ auth' \in Authority
        /\ contras' \in Contradictions /\ policy \in EventPolicies
    BY DEF IInv, TypeOK, EventPolicies
  <1>2. OfferedRecurrence(o) \in Nat /\ o.external \in SUBSET External
    BY <1>1, OfferedIsTyped
  <1>3. FreshSources(o) = FreshIn(o.external)
    BY DEF FreshSources, FreshIn, Verified, SourcesOf
  <1>4. Cardinality(FreshSources(o)) \in Nat
    BY FreshIsFinite
  <1>5. ASSUME NEW d \in Decisions, Record(policy, d, OfferedRecurrence(o), o.external)
        PROVE  \E e : /\ Adds(e) /\ e.policy = policy /\ e.decision = d
                      /\ e.recurrence = OfferedRecurrence(o) /\ e.external = o.external
    BY <1>1, <1>2, <1>5, RecordAdds
  <1>6. CASE SubmitExpired(policy, o)
    <2>1. PICK e : Adds(e) /\ e.decision = "expired"
      BY <1>5, <1>6 DEF SubmitExpired, Decisions
    <2>2. Ends(e)
      BY <1>1, <1>6, <2>1 DEF SubmitExpired, Ends, Authority
    <2>3. QED
      BY <2>1, <2>2 DEF Kinds
  <1>7. CASE SubmitContradiction(policy, o)
    <2>1. PICK e : Adds(e) /\ e.decision = "contradicted" /\ e.policy = policy
      BY <1>5, <1>7 DEF SubmitContradiction, Decisions
    <2>2. auth' = Contradicted(auth)
      BY <1>7 DEF SubmitContradiction, OpenContradiction
    <2>3. auth.evidence \in Nat
      BY <1>1 DEF Authority
    <2>4. Contradicts(e)
      BY <1>1, <1>7, <2>1, <2>2, <2>3, ContradictedKeeps, ContradictedLowers
         DEF SubmitContradiction, Contradicts
    <2>5. QED
      BY <2>1, <2>4 DEF Kinds
  <1>8. CASE SubmitSupport(policy, o)
    <2>1. PICK d \in Confirming : Record(policy, d, OfferedRecurrence(o), o.external)
      BY <1>8 DEF SubmitSupport, Confirming
    <2>2. PICK e : /\ Adds(e) /\ e.policy = policy /\ e.decision = d
                   /\ e.recurrence = OfferedRecurrence(o) /\ e.external = o.external
      BY <1>5, <2>1 DEF Confirming, Decisions
    <2>3. auth' = Supported(auth, Cardinality(FreshSources(o)))
      BY <1>8 DEF SubmitSupport
    <2>4. /\ auth'.status \in {"PROMOTED", "ACTIVE"}
          /\ auth'.evidence = auth.evidence + Cardinality(FreshSources(o))
      BY <1>1, <1>4, <2>3, SupportedKeeps, SupportedCounts
    <2>5. Supports(e)
      BY <1>3, <1>8, <2>1, <2>2, <2>4
         DEF SubmitSupport, Qualifies, FreshRecurrence, Supports
    <2>6. QED
      BY <2>2, <2>5 DEF Kinds
  <1>9. CASE SubmitWithoutEffect(policy, o)
    <2>1. PICK d \in {"no_change", "blocked"} :
              Record(policy, d, OfferedRecurrence(o), o.external)
      BY <1>9 DEF SubmitWithoutEffect
    <2>2. PICK e : Adds(e) /\ e.policy = policy /\ e.decision = d
      BY <1>5, <2>1 DEF Decisions
    <2>3. Notes(e)
      BY <1>9, <2>1, <2>2 DEF SubmitWithoutEffect, Notes, Unmoved
    <2>4. QED
      BY <2>2, <2>3 DEF Kinds
  <1>10. CASE policy = LegacyPolicy /\ LegacyContradiction(o)
    <2>1. PICK e : /\ Adds(e) /\ e.decision = "contradicted" /\ e.policy = policy
                   /\ e.external = o.external
      BY <1>5, <1>10 DEF LegacyContradiction, Decisions
    <2>2. auth' = Contradicted(Evidenced(o))
      BY <1>10 DEF LegacyContradiction, OpenContradiction
    <2>3. Contradicts(e)
      BY <1>1, <1>3, <1>10, <2>1, <2>2, EvidencedKeeps, EvidencedCounts,
         ContradictedKeeps, ContradictedLowers
         DEF LegacyContradiction, Contradicts
    <2>4. QED
      BY <2>1, <2>3 DEF Kinds
  <1>11. CASE policy = LegacyPolicy /\ LegacySupport(o)
    <2>1. PICK d \in Confirming : Record(policy, d, OfferedRecurrence(o), o.external)
      BY <1>11 DEF LegacySupport, Confirming
    <2>2. PICK e : /\ Adds(e) /\ e.policy = policy /\ e.decision = d
                   /\ e.recurrence = OfferedRecurrence(o) /\ e.external = o.external
      BY <1>5, <2>1 DEF Confirming, Decisions
    <2>3. auth' = Supported(Evidenced(o), 0)
      BY <1>11 DEF LegacySupport
    <2>4. Evidenced(o) \in Authority /\ Evidenced(o).evidence \in Nat
      BY <1>1, EvidencedKeeps DEF Authority
    <2>5. /\ auth'.status \in {"PROMOTED", "ACTIVE"}
          /\ auth'.evidence = Evidenced(o).evidence + 0
      BY <2>3, <2>4, SupportedKeeps, SupportedCounts
    <2>6. auth'.evidence = auth.evidence + Cardinality(FreshSources(o))
      BY <1>1, <2>4, <2>5, EvidencedCounts
    <2>7. Supports(e)
      BY <1>3, <1>11, <2>1, <2>2, <2>5, <2>6
         DEF LegacySupport, LegacyQualifies, FreshRecurrence, Supports, LegacyPolicy
    <2>8. QED
      BY <2>2, <2>7 DEF Kinds
  <1>12. CASE policy = LegacyPolicy /\ LegacyBlocked(o)
    <2>1. PICK e : /\ Adds(e) /\ e.decision = "blocked" /\ e.policy = policy
                   /\ e.external = o.external
      BY <1>5, <1>12 DEF LegacyBlocked, Decisions
    <2>2. Counts(e)
      BY <1>1, <1>3, <1>12, <2>1, EvidencedKeeps, EvidencedCounts
         DEF LegacyBlocked, Counts
    <2>3. QED
      BY <2>1, <2>2 DEF Kinds
  <1>13. QED
    BY <1>6, <1>7, <1>8, <1>9, <1>10, <1>11, <1>12 DEF SubmitSignals

LEMMA ResolutionAdds ==
    ASSUME IInv, IInv', NEW count \in 1..contras.open, ResolveContradiction(count)
    PROVE  \E e : Adds(e) /\ Kinds(e)
  <1>1. /\ TypeOK /\ auth \in Authority /\ auth' \in Authority
        /\ contras' \in Contradictions
    BY DEF IInv, TypeOK
  <1>2. /\ "contradiction_resolution" \in EventPolicies \ {LegacyPolicy}
        /\ "contradiction_resolved" \in Decisions
    BY DEF EventPolicies, Decisions, LegacyPolicy
  <1>3. PICK e : /\ Adds(e) /\ e.policy = "contradiction_resolution"
                 /\ e.decision = "contradiction_resolved"
    BY <1>1, <1>2, RecordPlainAdds DEF ResolveContradiction
  <1>4. auth.status \notin {"EXPIRED", "PROMOTED"}
    <2>1. contras.open > 0
      BY <1>1 DEF TypeOK, Contradictions
    <2>2. Blocking
      BY <2>1, BlockingIsOpen DEF IInv
    <2>3. QED
      BY <2>2 DEF IInv, PromotedIsSound, ResolveContradiction
  <1>5. /\ auth'.status = auth.status /\ auth'.weight = auth.weight
        /\ auth'.evidence = auth.evidence
    <2>1. /\ [auth EXCEPT !.score = 0] \in Authority
          /\ [auth EXCEPT !.score = 0].status = auth.status
          /\ [auth EXCEPT !.score = 0].weight = auth.weight
          /\ [auth EXCEPT !.score = 0].evidence = auth.evidence
      BY <1>1, WeightAssumption DEF Authority
    <2>2. CASE auth' = auth
      BY <2>2
    <2>3. CASE auth' = Write(auth, [auth EXCEPT !.score = 0])
      BY <1>1, <2>1, <2>3, WriteKeeps
    <2>4. QED
      BY <2>2, <2>3 DEF ResolveContradiction
  <1>6. Notes(e)
    BY <1>2, <1>3, <1>4, <1>5 DEF Notes, Unmoved
  <1>7. QED
    BY <1>3, <1>6 DEF Kinds

LEMMA FeedbackAdds ==
    ASSUME IInv, IInv', NEW delta \in ProbeDeltas, ProbeFeedback(delta)
    PROVE  \E e : Adds(e) /\ Kinds(e)
  <1> DEFINE w == Least(MaxWeight, Most(0, auth.weight + delta))
             st == IF auth.status = "PROMOTED" /\ w < PromotionThreshold
                   THEN "ACTIVE" ELSE auth.status
             n == [auth EXCEPT !.weight = w, !.status = st]
             d == IF auth.status = "PROMOTED" /\ auth'.status = "ACTIVE" THEN "demoted"
                  ELSE IF auth'.weight # auth.weight THEN "validated" ELSE "no_change"
  <1>1. /\ TypeOK /\ auth \in Authority /\ auth' \in Authority
        /\ contras' \in Contradictions
    BY DEF IInv, TypeOK
  <1>2. w \in 0..MaxWeight
    BY <1>1, WeightAssumption DEF Least, Most, Authority
  <1>3. /\ st \in {"ACTIVE", "PROMOTED"} /\ (st = "PROMOTED" => auth.status = "PROMOTED")
        /\ auth.status # "PROMOTED" => st = auth.status
    BY DEF ProbeFeedback
  <1>4. auth' = Write(auth, n)
    BY DEF ProbeFeedback, Nudged
  <1>5. Record("probe_feedback", d, 0, {})
    BY DEF ProbeFeedback
  <1> HIDE DEF w, st
  <1>6. /\ n \in Authority /\ n.status = st /\ n.weight = w
        /\ n.evidence = auth.evidence /\ n.score = auth.score
    BY <1>1, <1>2, <1>3 DEF Authority, Statuses
  <1>7. /\ auth'.status = st /\ auth'.weight = w /\ auth'.evidence = auth.evidence
    BY <1>1, <1>4, <1>6, WriteKeeps
  <1>8. w = auth.weight /\ (st = "PROMOTED") = (auth.status = "PROMOTED")
           => auth'.version = auth.version
    BY <1>1, <1>4, <1>6 DEF Write, Authority
  <1> HIDE DEF n
  <1>9. /\ "probe_feedback" \in EventPolicies /\ d \in Decisions
        /\ d \in {"validated", "no_change", "demoted"}
    BY DEF EventPolicies, Decisions
  <1>10. /\ d = "demoted" => auth'.status # "PROMOTED"
         /\ d = "no_change" => /\ auth'.weight = auth.weight
                               /\ ~(auth.status = "PROMOTED" /\ auth'.status = "ACTIVE")
    OBVIOUS
  <1> HIDE DEF d
  <1>11. PICK e : /\ Adds(e) /\ e.policy = "probe_feedback" /\ e.decision = d
                  /\ e.external = {}
    BY <1>1, <1>5, <1>9, RecordPlainAdds
  <1>12. d # "validated" => Unmoved
    BY <1>3, <1>7, <1>8, <1>9, <1>10 DEF Unmoved
  <1>13. Nudges(e)
    BY <1>3, <1>7, <1>9, <1>10, <1>11, <1>12 DEF Nudges, ProbeFeedback
  <1>14. QED
    BY <1>11, <1>13 DEF Kinds

LEMMA ExpiryAdds ==
    ASSUME IInv, IInv', NEW a \in Authority, a.status = "EXPIRED" => a.weight = 0,
           a.evidence = auth.evidence, auth' = Expired(a),
           Record("lifecycle_expiry", "expired", 0, {})
    PROVE  \E e : Adds(e) /\ Kinds(e)
  <1>1. /\ TypeOK /\ auth \in Authority /\ auth' \in Authority
        /\ contras' \in Contradictions
    BY DEF IInv, TypeOK
  <1>2. "lifecycle_expiry" \in EventPolicies /\ "expired" \in Decisions
    BY DEF EventPolicies, Decisions
  <1>3. PICK e : Adds(e) /\ e.decision = "expired"
    BY <1>1, <1>2, RecordPlainAdds
  <1>4. /\ auth'.status = "EXPIRED" /\ auth'.weight = 0
        /\ auth'.evidence = auth.evidence
    BY ExpiredKeeps, ExpiredCounts
  <1>5. auth'.weight <= auth.weight
    BY <1>1, <1>4 DEF Authority
  <1>6. QED
    BY <1>3, <1>4, <1>5 DEF Ends, Kinds

\* A decay leaves a promotion as it was: it has the weight that keeps it from dormancy.
LEMMA DecayedRests ==
    ASSUME IInv, auth.status # "EXPIRED", NEW band \in Bands
    PROVE  /\ Decayed(band).evidence = auth.evidence
           /\ Decayed(band).status = "PROMOTED" =>
                  auth.status = "PROMOTED" /\ Decayed(band).version = auth.version
  <1> DEFINE st == StatusAfterDecay(band)
  <1>1. auth \in Authority
    BY DEF IInv, TypeOK
  <1>2. st \in {"DORMANT", "DECAYING", auth.status}
    BY DEF StatusAfterDecay
  <1>3. st \in Statuses
    BY <1>1, <1>2 DEF Statuses, Authority
  <1>4. Decayed(band) = Write(auth, [auth EXCEPT !.status = st])
    BY DEF Decayed
  <1> HIDE DEF st
  <1>5. Decayed(band).evidence = auth.evidence /\ Decayed(band).status = st
    BY <1>1, <1>3, <1>4, RestatusCounts, RestatusKeeps
  <1>6. CASE st = "PROMOTED"
    BY <1>1, <1>2, <1>3, <1>4, <1>5, <1>6, WriteOfNothing
  <1>7. QED
    BY <1>5, <1>6

LEMMA LifecycleIsSilent ==
    ASSUME IInv, IInv',
           \/ \E turns \in TurnSteps, band \in Bands : Decay(turns, band)
           \/ Reactivate
           \/ \E band \in Bands : Redetect(band)
    PROVE  Silent
  <1>1. auth \in Authority
    BY DEF IInv, TypeOK
  <1>2. ASSUME NEW turns \in TurnSteps, NEW band \in Bands, Decay(turns, band)
        PROVE  Silent
    <2>1. auth.status # "EXPIRED"
      BY <1>2 DEF Decay
    <2>2. /\ auth'.status \in {"DORMANT", "DECAYING", auth.status}
          /\ auth'.weight = auth.weight
      BY <1>2, <2>1, DecayedKeeps DEF Decay
    <2>3. auth'.evidence = auth.evidence /\ Unmoved
      BY <1>2, <2>1, DecayedRests DEF Decay, Unmoved
    <2>4. QED
      BY <1>2, <2>1, <2>2, <2>3 DEF Decay, Silent
  <1>3. CASE Reactivate
    <2>1. /\ auth'.status = "NEW" /\ auth'.weight = auth.weight
          /\ auth'.evidence = auth.evidence
      BY <1>1, <1>3, RestatusKeeps, RestatusCounts DEF Reactivate, Statuses
    <2>2. QED
      BY <1>3, <2>1 DEF Reactivate, Silent, Unmoved
  <1>4. ASSUME NEW band \in Bands, Redetect(band)
        PROVE  Silent
    <2>1. CASE auth.status = "PROMOTED"
      BY <1>4, <2>1 DEF Redetect, Silent, Unmoved
    <2>2. CASE auth.status # "PROMOTED"
      <3>1. /\ auth'.status = "ACTIVE" /\ auth'.weight = auth.weight
            /\ auth'.evidence = auth.evidence
        BY <1>1, <1>4, <2>2, RestatusKeeps, RestatusCounts DEF Redetect, Statuses
      <3>2. QED
        BY <1>4, <3>1 DEF Redetect, Redetectable, Silent, Unmoved
    <2>3. QED
      BY <2>1, <2>2
  <1>5. QED
    BY <1>2, <1>3, <1>4

\* Every step of the Gate and the lifecycle adds one event of a kind, or none.
LEMMA StepAdds ==
    ASSUME IInv, IInv', Next
    PROVE  Silent \/ \E e : Adds(e) /\ Kinds(e)
  <1>1. ASSUME NEW policy \in PolicyIds, NEW o \in Offer, SubmitSignals(policy, o)
        PROVE  \E e : Adds(e) /\ Kinds(e)
    BY <1>1, SubmissionAdds
  <1>2. ASSUME NEW count \in 1..contras.open, ResolveContradiction(count)
        PROVE  \E e : Adds(e) /\ Kinds(e)
    BY <1>2, ResolutionAdds
  <1>3. ASSUME NEW delta \in ProbeDeltas, ProbeFeedback(delta)
        PROVE  \E e : Adds(e) /\ Kinds(e)
    BY <1>3, FeedbackAdds
  <1>4. CASE ExpireByHousekeeping
    BY <1>4, ExpiryAdds DEF ExpireByHousekeeping, IInv, TypeOK, ExpiredIsWeightless
  <1>5. ASSUME NEW turns \in TurnSteps, NEW band \in Bands, DecayToExpiry(turns, band)
        PROVE  \E e : Adds(e) /\ Kinds(e)
    <2>1. auth.status # "EXPIRED"
      BY <1>5 DEF DecayToExpiry
    <2>2. /\ Decayed(band) \in Authority /\ Decayed(band).status # "EXPIRED"
          /\ Decayed(band).evidence = auth.evidence
      BY <2>1, DecayedKeeps, DecayedRests
    <2>3. QED
      BY <1>5, <2>2, ExpiryAdds DEF DecayToExpiry
  <1>6. QED
    BY <1>1, <1>2, <1>3, <1>4, <1>5, LifecycleIsSilent, SubmissionOrNot

-----------------------------------------------------------------------------
(* The log after a step.                                                   *)

LEMMA Appended ==
    ASSUME TypeOK, NEW e, Adds(e)
    PROVE  /\ Len(events) \in Nat /\ Len(events') = Len(events) + 1
           /\ events'[Len(events) + 1] = e
           /\ \A i \in 1..Len(events) : events'[i] = events[i]
  BY DEF TypeOK, Adds

LEMMA LogIsTyped == ASSUME TypeOK PROVE \A i \in 1..Len(events) : events[i] \in GateEvent
  BY DEF TypeOK

\* What an event credits, by itself.
CreditOf(e) ==
    IF /\ e.decision # "expired"
       /\ e.policy = LegacyPolicy \/ e.decision \in Confirming
    THEN SourcesOf(e.external) ELSE {}

LEMMA CreditIsOfTheEvent == \A i : CreditedAt(i) = CreditOf(events[i])
  BY DEF CreditedAt, CreditOf, SourcesOf

LEMMA CreditedGrows ==
    ASSUME TypeOK, NEW e, Adds(e)
    PROVE  Credited' = Credited \cup CreditOf(e)
  <1>1. /\ Credited = UNION {CreditOf(events[i]) : i \in 1..Len(events)}
        /\ Credited' = UNION {CreditOf(events'[i]) : i \in 1..Len(events')}
    BY DEF Credited, CreditedAt, CreditOf, SourcesOf
  <1>2. 1..Len(events') = (1..Len(events)) \cup {Len(events) + 1}
    BY Appended
  <1>3. QED
    BY <1>1, <1>2, Appended

LEMMA CreditedIsFinite ==
    ASSUME TypeOK
    PROVE  Credited \subseteq Sources /\ IsFiniteSet(Credited)
  <1>1. \A i \in 1..Len(events) : CreditedAt(i) \subseteq Sources
    BY LogIsTyped DEF CreditedAt, GateEvent, External
  <1>2. Credited \subseteq Sources
    BY <1>1 DEF Credited
  <1>3. QED
    BY <1>2, OffersAssumption, FS_Subset

\* Only the end of a seed is recorded as its expiry, and it is final.
EndsOnce == auth.status # "EXPIRED" =>
                \A i \in 1..Len(events) : events[i].decision # "expired"

\* While a seed lives, what the Gate takes for applied is what was credited.
LEMMA AppliedIsCredited ==
    ASSUME TypeOK, EndsOnce, auth.status # "EXPIRED"
    PROVE  AppliedSources = Credited
  <1>1. \A i \in 1..Len(events) :
            CreditedAt(i) = IF events[i].policy = LegacyPolicy \/ events[i].decision \in Confirming
                            THEN SourcesOf(events[i].external) ELSE {}
    BY DEF EndsOnce, CreditedAt, SourcesOf
  <1>2. \A s : s \in AppliedSources <=> s \in Sources /\ s \in Credited
    BY <1>1 DEF AppliedSources, Credited, SourcesOf
  <1>3. QED
    BY <1>2, CreditedIsFinite

LEMMA CardinalityOfMore ==
    ASSUME NEW A, NEW S, IsFiniteSet(A), IsFiniteSet(S)
    PROVE  Cardinality(A \cup S) = Cardinality(A) + Cardinality(S \ A)
  <1> DEFINE D == S \ A
  <1>1. IsFiniteSet(D)
    BY FS_Difference
  <1>2. A \cup S = A \cup D /\ A \cap D = {}
    OBVIOUS
  <1> HIDE DEF D
  <1>3. Cardinality(A \cap D) = 0
    BY <1>2, FS_EmptySet, Zenon
  <1>4. Cardinality(A \cup D) = Cardinality(A) + Cardinality(D) - Cardinality(A \cap D)
    BY <1>1, FS_Union
  <1>5. Cardinality(A) \in Nat /\ Cardinality(D) \in Nat
    BY <1>1, FS_CardinalityType
  <1>6. Cardinality(A \cup S) = Cardinality(A \cup D)
    BY <1>2, Zenon
  <1>7. QED
    BY <1>3, <1>4, <1>5, <1>6 DEF D

-----------------------------------------------------------------------------
(* Evidence is counted once.                                               *)

EvidenceInv == IInv /\ EndsOnce /\ EvidenceCountedOnce

LEMMA EndsOnceStep ==
    ASSUME TypeOK, EndsOnce, Silent \/ \E e : Adds(e) /\ Kinds(e),
           auth.status = "EXPIRED" => auth'.status = "EXPIRED"
    PROVE  EndsOnce'
  <1>1. CASE Silent
    BY <1>1 DEF Silent, EndsOnce
  <1>2. ASSUME NEW e, Adds(e), Kinds(e)
        PROVE  EndsOnce'
    <2>1. e.decision = "expired" => auth'.status = "EXPIRED"
      BY <1>2 DEF Kinds, Ends, Contradicts, Supports, Counts, Notes, Nudges, Confirming
    <2>2. QED
      BY <1>2, <2>1, Appended DEF EndsOnce
  <1>3. QED
    BY <1>1, <1>2

LEMMA EvidenceStep == EvidenceInv /\ [Next]_vars => EvidenceInv'
  <1> SUFFICES ASSUME EvidenceInv, [Next]_vars PROVE EvidenceInv'
    OBVIOUS
  <1>1. IInv /\ IInv' /\ TypeOK /\ EndsOnce
    BY NextKeeps DEF EvidenceInv, IInv
  <1>2. CASE UNCHANGED vars
    BY <1>1, <1>2 DEF vars, EvidenceInv, EndsOnce, EvidenceCountedOnce, Credited, CreditedAt
  <1>3. CASE Next
    <2>1. Silent \/ \E e : Adds(e) /\ Kinds(e)
      BY <1>1, <1>3, StepAdds
    <2>2. EndsOnce'
      BY <1>1, <1>3, <2>1, ExpiredRests, EndsOnceStep
    <2>3. CASE Silent
      BY <1>1, <2>2, <2>3 DEF Silent, EvidenceInv, EvidenceCountedOnce, Credited, CreditedAt
    <2>4. ASSUME NEW e, Adds(e), Kinds(e)
          PROVE  EvidenceCountedOnce'
      <3>1. Credited' = Credited \cup CreditOf(e)
        BY <1>1, <2>4, CreditedGrows
      <3>2. auth.evidence = Cardinality(Credited)
        BY DEF EvidenceInv, EvidenceCountedOnce
      <3>3. CASE CreditOf(e) = {} /\ auth'.evidence = auth.evidence
        BY <3>1, <3>2, <3>3 DEF EvidenceCountedOnce
      <3>4. CASE /\ auth.status # "EXPIRED" /\ CreditOf(e) = SourcesOf(e.external)
                 /\ auth'.evidence = auth.evidence + Cardinality(FreshIn(e.external))
        <4>1. FreshIn(e.external) = SourcesOf(e.external) \ Credited
          BY <1>1, <3>4, AppliedIsCredited DEF FreshIn
        <4>2. IsFiniteSet(SourcesOf(e.external))
          <5>1. SourcesOf(e.external) \subseteq Sources
            BY <2>4 DEF Adds, GateEvent, External, SourcesOf
          <5>2. QED
            BY <5>1, OffersAssumption, FS_Subset
        <4>3. Cardinality(Credited') =
                  Cardinality(Credited) + Cardinality(SourcesOf(e.external) \ Credited)
          BY <1>1, <3>1, <3>4, <4>2, CreditedIsFinite, CardinalityOfMore
        <4>4. QED
          BY <3>2, <3>4, <4>1, <4>3 DEF EvidenceCountedOnce
      <3>5. CASE Ends(e)
        BY <3>3, <3>5 DEF Ends, CreditOf
      <3>6. CASE Contradicts(e)
        <4>1. CASE e.policy = LegacyPolicy
          BY <3>4, <3>6, <4>1 DEF Contradicts, CreditOf
        <4>2. CASE e.policy # LegacyPolicy
          <5>1. auth.evidence \in Nat
            BY <1>1 DEF TypeOK, Authority
          <5>2. QED
            BY <3>3, <3>6, <4>2, <5>1 DEF Contradicts, CreditOf, Confirming
        <4>3. QED
          BY <4>1, <4>2
      <3>7. CASE Supports(e)
        BY <3>4, <3>7 DEF Supports, CreditOf, Confirming
      <3>8. CASE Counts(e)
        BY <3>4, <3>8 DEF Counts, CreditOf
      <3>9. CASE Notes(e)
        BY <3>3, <3>9 DEF Notes, CreditOf, Confirming
      <3>10. CASE Nudges(e)
        BY <3>3, <3>10 DEF Nudges, CreditOf, SourcesOf
      <3>11. QED
        BY <2>4, <3>5, <3>6, <3>7, <3>8, <3>9, <3>10 DEF Kinds
    <2>5. QED
      BY <1>1, <2>1, <2>2, <2>3, <2>4 DEF EvidenceInv
  <1>4. QED
    BY <1>2, <1>3

-----------------------------------------------------------------------------
(* Every rise of the weight rests on support not used before.              *)

\* The recurrence counts heard before place i of a log, and what is said of its events.
HeardIn(log, i) ==
    {log[j].recurrence : j \in {k \in 1..(i - 1) :
        /\ log[k].decision \in Confirming
        /\ \A m \in k..i : log[m].decision # "contradicted"}}

CreditsNew(log, i) ==
    \E s \in SourcesOf(log[i].external) : \A j \in 1..(i - 1) : s \notin CreditOf(log[j])

RiseIsFresh(log, i) ==
    log[i].policy \in PolicyIds /\ log[i].weightAfter > log[i].weightBefore
    => CreditsNew(log, i) \/ (log[i].recurrence > 0 /\ log[i].recurrence \notin HeardIn(log, i))

StrictRiseIsFresh(log, i) ==
    log[i].policy = "evidence_backed" /\ log[i].weightAfter > log[i].weightBefore
    => CreditsNew(log, i) /\ log[i].decision \in Confirming

RisesAreFresh ==
    \A i \in 1..Len(events) : RiseIsFresh(events, i) /\ StrictRiseIsFresh(events, i)

LEMMA FreshRisesAreSupported ==
    RisesAreFresh => EveryRiseHasFreshSupport /\ StrictRiseRestsOnEvidence
  <1> SUFFICES ASSUME RisesAreFresh
               PROVE  EveryRiseHasFreshSupport /\ StrictRiseRestsOnEvidence
    OBVIOUS
  <1>1. \A i \in 1..Len(events) : HeardBefore(i) = HeardIn(events, i)
    BY DEF HeardBefore, HeardIn
  <1>2. ASSUME NEW i \in 1..Len(events), CreditsNew(events, i)
        PROVE  \E x \in events[i].external : x.verified /\
                   \A j \in 1..(i - 1) : x.source \notin CreditedAt(j)
    BY <1>2, CreditIsOfTheEvent DEF CreditsNew, SourcesOf
  <1>3. EveryRiseHasFreshSupport
    BY <1>1, <1>2 DEF EveryRiseHasFreshSupport, RisesAreFresh, RiseIsFresh
  <1>4. ASSUME NEW i \in 1..Len(events), CreditsNew(events, i),
               events[i].decision \in Confirming
        PROVE  \E s \in CreditedAt(i) : \A j \in 1..(i - 1) : s \notin CreditedAt(j)
    <2>1. CreditedAt(i) = SourcesOf(events[i].external)
      BY <1>4, CreditIsOfTheEvent DEF CreditOf, Confirming
    <2>2. QED
      BY <1>4, <2>1, CreditIsOfTheEvent DEF CreditsNew
  <1>5. StrictRiseRestsOnEvidence
    BY <1>4 DEF StrictRiseRestsOnEvidence, RisesAreFresh, StrictRiseIsFresh
  <1>6. QED
    BY <1>3, <1>5

\* What is said of an event stays true when the log grows.
LEMMA FreshStaysFresh ==
    ASSUME TypeOK, NEW e, Adds(e), NEW i \in 1..Len(events),
           RiseIsFresh(events, i), StrictRiseIsFresh(events, i)
    PROVE  RiseIsFresh(events', i) /\ StrictRiseIsFresh(events', i)
  <1>1. /\ Len(events) \in Nat /\ events'[i] = events[i]
        /\ \A j \in 1..i : events'[j] = events[j]
    BY Appended
  <1>2. HeardIn(events', i) = HeardIn(events, i)
    BY SMTT(20), <1>1 DEF HeardIn
  <1>3. CreditsNew(events', i) = CreditsNew(events, i)
    BY <1>1 DEF CreditsNew
  <1>4. QED
    BY <1>1, <1>2, <1>3 DEF RiseIsFresh, StrictRiseIsFresh

LEMMA NewRiseIsFresh ==
    ASSUME TypeOK, EndsOnce, NEW e, Adds(e), Kinds(e)
    PROVE  /\ RiseIsFresh(events', Len(events) + 1)
           /\ StrictRiseIsFresh(events', Len(events) + 1)
  <1> DEFINE n == Len(events) + 1
  <1>1. /\ Len(events) \in Nat /\ n - 1 = Len(events) /\ events'[n] = e
        /\ \A j \in 1..(n - 1) : events'[j] = events[j]
    BY Appended
  <1> SUFFICES RiseIsFresh(events', n) /\ StrictRiseIsFresh(events', n)
    OBVIOUS
  <1> HIDE DEF n
  <1>2. CASE ~(e.policy \in PolicyIds /\ e.weightAfter > e.weightBefore)
    BY <1>1, <1>2 DEF RiseIsFresh, StrictRiseIsFresh, PolicyIds
  <1>3. CASE e.policy \in PolicyIds /\ e.weightAfter > e.weightBefore
    <2>1. /\ e.weightBefore = auth.weight /\ e.weightAfter = auth'.weight
          /\ auth.weight \in Int
      BY DEF Adds, TypeOK, Authority
    <2>2. auth'.weight \in Int
      BY <2>1 DEF Adds, GateEvent
    <2>3. Supports(e)
      BY <1>3, <2>1, <2>2
         DEF Kinds, Ends, Contradicts, Counts, Notes, Nudges, PolicyIds, LegacyPolicy
    <2>4. CASE FreshIn(e.external) # {}
      <3>1. AppliedSources = Credited
        BY <2>3, AppliedIsCredited DEF Supports
      <3>2. PICK s \in SourcesOf(e.external) : s \notin Credited
        BY <2>4, <3>1 DEF FreshIn
      <3>3. \A j \in 1..(n - 1) : s \notin CreditOf(events'[j])
        BY <1>1, <3>2, CreditIsOfTheEvent DEF Credited
      <3>4. CreditsNew(events', n)
        BY <1>1, <3>2, <3>3 DEF CreditsNew
      <3>5. QED
        BY <1>1, <2>3, <3>4 DEF RiseIsFresh, StrictRiseIsFresh, Supports
    <2>5. CASE FreshIn(e.external) = {}
      <3>1. /\ e.policy # "evidence_backed"
            /\ e.recurrence > 0 /\ e.recurrence \notin AppliedRecurrences
        BY <2>3, <2>5 DEF Supports
      <3>2. e.recurrence \notin HeardIn(events', n)
        <4> SUFFICES ASSUME NEW j \in 1..(n - 1), events'[j].decision \in Confirming,
                            \A m \in j..n : events'[m].decision # "contradicted",
                            e.recurrence = events'[j].recurrence
                     PROVE  FALSE
          BY DEF HeardIn
        <4>1. n = Len(events) + 1
          BY DEF n
        <4>2. j \in 1..Len(events) /\ j \in 1..(n - 1) /\ events'[j] = events[j]
          BY <1>1
        <4>3. \A m \in j..Len(events) : events[m].decision # "contradicted"
          BY <1>1, <4>1, <4>2
        <4>4. j \in AfterLastContradiction
          BY <4>2, <4>3 DEF AfterLastContradiction
        <4>5. QED
          BY <3>1, <4>2, <4>4 DEF AppliedRecurrences
      <3>3. QED
        BY <1>1, <3>1, <3>2 DEF RiseIsFresh, StrictRiseIsFresh
    <2>6. QED
      BY <2>4, <2>5
  <1>4. QED
    BY <1>2, <1>3

HistoryInv == EvidenceInv /\ RisesAreFresh

LEMMA HistoryStep == HistoryInv /\ [Next]_vars => HistoryInv'
  <1> SUFFICES ASSUME HistoryInv, [Next]_vars PROVE HistoryInv'
    OBVIOUS
  <1>1. EvidenceInv'
    BY EvidenceStep DEF HistoryInv
  <1>2. IInv /\ IInv' /\ TypeOK /\ EndsOnce
    BY <1>1 DEF HistoryInv, EvidenceInv, IInv
  <1>3. CASE UNCHANGED events
    BY <1>1, <1>3 DEF HistoryInv, RisesAreFresh, RiseIsFresh, StrictRiseIsFresh,
                      CreditsNew, HeardIn
  <1>4. ASSUME NEW e, Adds(e), Kinds(e)
        PROVE  RisesAreFresh'
    <2>1. 1..Len(events') = (1..Len(events)) \cup {Len(events) + 1}
      BY <1>2, <1>4, Appended
    <2>2. \A i \in 1..Len(events) : RiseIsFresh(events', i) /\ StrictRiseIsFresh(events', i)
      BY <1>2, <1>4, FreshStaysFresh DEF HistoryInv, RisesAreFresh
    <2>3. /\ RiseIsFresh(events', Len(events) + 1)
          /\ StrictRiseIsFresh(events', Len(events) + 1)
      BY <1>2, <1>4, NewRiseIsFresh
    <2>4. \A i \in 1..Len(events') : RiseIsFresh(events', i) /\ StrictRiseIsFresh(events', i)
      BY <2>1, <2>2, <2>3
    <2>5. QED
      BY <2>4 DEF RisesAreFresh
  <1>5. UNCHANGED events \/ \E e : Adds(e) /\ Kinds(e)
    BY <1>2, StepAdds DEF Silent, vars
  <1>6. QED
    BY <1>1, <1>3, <1>4, <1>5 DEF HistoryInv

LEMMA HistoryStarts == Init => HistoryInv
  <1> SUFFICES ASSUME Init PROVE HistoryInv
    OBVIOUS
  <1>1. IInv
    BY InitEstablishes
  <1>2. Len(events) = 0
    BY DEF Init
  <1>3. Credited = {}
    BY <1>2 DEF Credited
  <1>4. EvidenceCountedOnce
    BY <1>3, FS_EmptySet DEF Init, EvidenceCountedOnce
  <1>5. EndsOnce /\ RisesAreFresh
    BY <1>2 DEF EndsOnce, RisesAreFresh
  <1>6. QED
    BY <1>1, <1>4, <1>5 DEF HistoryInv, EvidenceInv

\* Over any history of calls and policies evidence is counted once per source, and no
\* weight is raised by support that was used before (submit_signals,
\* _deduplicate_authority_signals).
THEOREM RisesAreAlwaysSupported == Spec => []RisesAreSupported
  <1>1. HistoryInv => RisesAreSupported
    BY FreshRisesAreSupported DEF HistoryInv, EvidenceInv, RisesAreSupported
  <1>2. QED
    BY <1>1, HistoryStarts, HistoryStep, PTL DEF Spec

-----------------------------------------------------------------------------
(* A contradiction is not undone behind the policies' back.                *)

RestoreInv == IInv /\ (Unconfirmed => auth.status # "PROMOTED")

\* A confirmation by a policy ends the wait; only a contradiction starts it.
LEMMA WaitEndsAndStarts ==
    ASSUME TypeOK, NEW e, Adds(e), Unconfirmed'
    PROVE  /\ ~(e.policy \in PolicyIds /\ e.decision \in Confirming)
           /\ Unconfirmed \/ e.decision = "contradicted"
  <1>1. /\ Len(events) \in Nat /\ Len(events') = Len(events) + 1
        /\ events'[Len(events) + 1] = e
        /\ \A i \in 1..Len(events) : events'[i] = events[i]
    BY Appended
  <1>2. PICK i \in 1..Len(events') :
            /\ events'[i].decision = "contradicted"
            /\ \A j \in (i + 1)..Len(events') :
                  ~(events'[j].policy \in PolicyIds /\ events'[j].decision \in Confirming)
    BY DEF Unconfirmed
  <1>3. CASE i = Len(events) + 1
    BY <1>1, <1>2, <1>3 DEF Confirming
  <1>4. CASE i \in 1..Len(events)
    <2>1. Len(events) + 1 \in (i + 1)..Len(events')
      BY <1>1, <1>4
    <2>2. Unconfirmed
      BY <1>1, <1>2, <1>4 DEF Unconfirmed
    <2>3. QED
      BY <1>1, <1>2, <2>1, <2>2
  <1>5. QED
    BY <1>1, <1>3, <1>4

\* What a step may do to a seed that still waits.
RestoresNothing ==
    /\ auth'.status # "PROMOTED"
    /\ auth'.weight > auth.weight => events'[Len(events')].policy = "probe_feedback"
    /\ auth'.evidence > auth.evidence => events'[Len(events')].policy = LegacyPolicy

LEMMA WaitingStep ==
    ASSUME RestoreInv, IInv', Next, Unconfirmed'
    PROVE  RestoresNothing
  <1>1. /\ IInv /\ TypeOK /\ auth \in Authority /\ auth' \in Authority
        /\ auth.weight \in Int /\ auth'.weight \in Int
        /\ auth.evidence \in Int /\ auth'.evidence \in Int
    BY DEF RestoreInv, IInv, TypeOK, Authority
  <1>2. CASE Silent
    <2>1. Unconfirmed
      BY <1>2 DEF Silent, Unconfirmed
    <2>2. QED
      BY <1>1, <1>2, <2>1 DEF Silent, Unmoved, RestoreInv, RestoresNothing
  <1>3. ASSUME NEW e, Adds(e), Kinds(e)
        PROVE  RestoresNothing
    <2>1. /\ ~(e.policy \in PolicyIds /\ e.decision \in Confirming)
          /\ auth.status = "PROMOTED" => e.decision = "contradicted"
      BY <1>1, <1>3, WaitEndsAndStarts DEF RestoreInv
    <2>2. events'[Len(events')] = e
      BY <1>1, <1>3, Appended
    <2>3. CASE Ends(e)
      BY <1>1, <2>3 DEF Ends, RestoresNothing
    <2>4. CASE Contradicts(e)
      BY <1>1, <2>2, <2>4 DEF Contradicts, RestoresNothing
    <2>5. CASE Supports(e)
      BY <2>1, <2>5 DEF Supports, PolicyIds
    <2>6. CASE Counts(e)
      BY <1>1, <2>1, <2>2, <2>6 DEF Counts, RestoresNothing
    <2>7. CASE Notes(e)
      BY <1>1, <2>1, <2>7 DEF Notes, RestoresNothing
    <2>8. CASE Nudges(e)
      BY <1>1, <2>1, <2>2, <2>8 DEF Nudges, RestoresNothing
    <2>9. QED
      BY <1>3, <2>3, <2>4, <2>5, <2>6, <2>7, <2>8 DEF Kinds
  <1>4. QED
    BY <1>1, <1>2, <1>3, StepAdds

LEMMA RestoreStep == RestoreInv /\ [Next]_vars => RestoreInv'
  <1> SUFFICES ASSUME RestoreInv, [Next]_vars PROVE RestoreInv'
    OBVIOUS
  <1>1. IInv'
    BY NextKeeps DEF RestoreInv
  <1>2. CASE UNCHANGED vars
    BY <1>1, <1>2 DEF RestoreInv, Unconfirmed, vars
  <1>3. CASE Next
    BY <1>1, <1>3, WaitingStep DEF RestoreInv, RestoresNothing
  <1>4. QED
    BY <1>2, <1>3

\* Neither expiry nor a contradiction is undone behind the policies' back (submit_signals,
\* apply_probe_feedback, expire_seed, activate_existing_seed).
THEOREM ThereIsNoWayBack == Spec => NoWayBack
  <1> DEFINE A == Unconfirmed /\ Unconfirmed' =>
        /\ auth'.status # "PROMOTED"
        /\ auth'.weight > auth.weight => events'[Len(events')].policy = "probe_feedback"
        /\ auth'.evidence > auth.evidence => events'[Len(events')].policy = LegacyPolicy
  <1>1. Init => RestoreInv
    BY InitEstablishes DEF RestoreInv, Init
  <1>2. RestoreInv /\ [Next]_vars => [A]_vars
    <2> SUFFICES ASSUME RestoreInv, Next, Unconfirmed, Unconfirmed' PROVE A
      BY DEF vars
    <2>1. IInv'
      BY NextKeeps DEF RestoreInv
    <2>2. QED
      BY <2>1, WaitingStep DEF RestoresNothing
  <1>3. Spec => RewardNeverRestores
    BY <1>1, <1>2, RestoreStep, PTL DEF Spec, RewardNeverRestores
  <1>4. QED
    BY <1>3, ExpiryIsTerminal DEF NoWayBack

-----------------------------------------------------------------------------
(***************************************************************************)
(* The point of use: an allowed use rests on a promotion that nothing had  *)
(* taken back, a standing promotion stays usable, and what the panel says  *)
(* of a seed is what a use would find.  A use changes nothing of the seed, *)
(* and every other step is a step of SeedGate: what is said of a step      *)
(* above is used again here.                                               *)
(***************************************************************************)

-----------------------------------------------------------------------------
(* The latest of some positions.                                           *)

LEMMA SomeIsLast ==
    ASSUME NEW n \in Nat, NEW S \in SUBSET (1..n), S # {}
    PROVE  \E i \in S : \A j \in S : j <= i
  <1> DEFINE T == {n - i : i \in S}
  <1>1. T \subseteq Nat /\ T # {}
    <2>1. \A i \in S : i \in 1..n
      OBVIOUS
    <2>2. \A i \in S : n - i \in Nat
      BY <2>1
    <2>3. QED
      BY <2>2
  <1>2. PICK x \in T : \A y \in T : ~(<<y, x>> \in OpToRel(<, Nat))
    BY <1>1, NatLessThanWellFounded, WFMin
  <1>3. ASSUME NEW y \in T PROVE x <= y
    <2>1. x \in Nat /\ y \in Nat
      BY <1>1
    <2>2. ~(y < x)
      BY <1>2, <2>1 DEF OpToRel
    <2>3. QED
      BY <2>1, <2>2
  <1>4. PICK i \in S : x = n - i
    OBVIOUS
  <1>5. ASSUME NEW j \in S PROVE j <= i
    <2>1. n - j \in T
      OBVIOUS
    <2>2. n - i <= n - j
      BY <1>3, <1>4, <2>1
    <2>3. i \in Int /\ j \in Int
      OBVIOUS
    <2> HIDE DEF T
    <2>4. QED
      BY <2>2, <2>3
  <1>6. QED
    BY <1>5

LEMMA LatestIsLast ==
    ASSUME NEW n \in Nat, NEW S \in SUBSET (1..n), S # {}
    PROVE  Latest(S) \in S /\ \A j \in S : j <= Latest(S)
  <1>1. \E i \in S : \A j \in S : j <= i
    BY SomeIsLast
  <1>2. QED
    BY <1>1 DEF Latest

-----------------------------------------------------------------------------
(* What the log says of a standing promotion.                              *)

Withdrawals == {"contradicted", "demoted", "expired"}

\* Versions only grow along the log.
VersionsGrow ==
    \A i \in 1..Len(events) : \A j \in 1..i : events[j].version <= events[i].version

\* What withdraws a promotion leaves the seed unpromoted.
WithdrawalsDemote ==
    \A i \in 1..Len(events) :
        events[i].decision \in Withdrawals => ~events[i].promotedAfter

\* A promotion was confirmed at its version, or a legacy submission was blocked there.
ConfirmedOrCredited(i) ==
    /\ events[i].version = auth.version
    /\ \/ events[i].decision \in Confirming
       \/ events[i].policy = LegacyPolicy /\ events[i].decision = "blocked"

PromotionIsLogged ==
    auth.status = "PROMOTED" => \E i \in 1..Len(events) : ConfirmedOrCredited(i)

\* A promotion rests on a confirmation by a policy since the last contradiction.
PromotionIsSupported ==
    auth.status = "PROMOTED" => \E i \in CurrentSupport : events[i].policy \in PolicyIds

\* What a policy confirmed, it confirmed for the support that the policy asks for.
Carries(e) ==
    /\ e.policy = "exploratory" /\ e.decision \in Confirming =>
           (\E x \in e.external : x.verified) \/ e.recurrence > 0
    /\ e.policy = "evidence_backed" /\ e.decision \in Confirming =>
           \E x \in e.external : x.verified

ConfirmationsCarry == \A i \in 1..Len(events) : Carries(events[i])

Detected == presence.occurrences >= 1

StandingInv ==
    /\ VInv /\ VersionsGrow /\ WithdrawalsDemote /\ PromotionIsLogged
    /\ PromotionIsSupported /\ ConfirmationsCarry /\ Detected

\* Nothing makes the count of detections fall below the first.
LEMMA StaysDetected == ASSUME IInv, Detected, Next PROVE Detected'
  <1>1. presence \in Presence
    BY DEF IInv, TypeOK
  <1>2. ASSUME NEW policy \in PolicyIds, NEW o \in Offer, SubmitSignals(policy, o)
        PROVE  Detected'
    <2>1. \/ UNCHANGED presence
          \/ \E before : OpenContradiction(before)
      BY <1>2 DEF SubmitSignals, SubmitExpired, SubmitContradiction, SubmitSupport,
                  SubmitWithoutEffect, LegacyContradiction, LegacySupport, LegacyBlocked
    <2>2. QED
      BY <2>1 DEF OpenContradiction, Detected
  <1>3. ASSUME NEW turns \in TurnSteps, NEW band \in Bands,
               Decay(turns, band) \/ DecayToExpiry(turns, band)
        PROVE  Detected'
    BY <1>1, <1>3 DEF Decay, DecayToExpiry, Detected, Presence
  <1>4. CASE Reactivate
    BY <1>1, <1>4 DEF Reactivate, Detected, Presence
  <1>5. ASSUME NEW band \in Bands, Redetect(band) PROVE Detected'
    BY <1>1, <1>5 DEF Redetect, Detected, Presence
  <1>6. CASE \/ \E count \in 1..contras.open : ResolveContradiction(count)
             \/ \E delta \in ProbeDeltas : ProbeFeedback(delta)
             \/ ExpireByHousekeeping
    BY <1>6 DEF ResolveContradiction, ProbeFeedback, ExpireByHousekeeping, Detected
  <1>7. QED
    BY <1>2, <1>3, <1>4, <1>5, <1>6, SubmissionOrNot

\* A step moves the version forward or leaves it.
LEMMA VersionRises == ASSUME IInv, IInv', Next PROVE auth.version <= auth'.version
  <1>1. Follows(auth, auth')
    BY StepFollows
  <1>2. auth.version \in Nat /\ auth'.version \in Nat
    BY DEF IInv, TypeOK, Authority
  <1>3. QED
    BY <1>1, <1>2 DEF Follows

LEMMA VersionsGrowStep ==
    ASSUME VInv, IInv', VersionsGrow, Next, NEW e, Adds(e)
    PROVE  VersionsGrow'
  <1>1. /\ Len(events) \in Nat /\ Len(events') = Len(events) + 1
        /\ events'[Len(events) + 1] = e
        /\ \A i \in 1..Len(events) : events'[i] = events[i]
    BY Appended DEF VInv, IInv
  <1>2. \A i \in 1..Len(events) : events[i].version \in Nat
    BY LogIsTyped DEF VInv, IInv, GateEvent
  <1>3. e.version = auth'.version /\ auth'.version \in Nat /\ auth.version \in Nat
        /\ auth.version <= auth'.version
    BY VersionRises DEF VInv, IInv, TypeOK, Authority, Adds
  <1>4. \A i \in 1..Len(events) : events[i].version <= e.version
    BY <1>2, <1>3 DEF VInv, VersionsBehind
  <1>5. ASSUME NEW i \in 1..Len(events'), NEW j \in 1..i
        PROVE  events'[j].version <= events'[i].version
    <2>1. CASE i \in 1..Len(events)
      BY <1>1, <2>1 DEF VersionsGrow
    <2>2. CASE i = Len(events) + 1 /\ j \in 1..Len(events)
      BY <1>1, <1>4, <2>2
    <2>3. CASE i = Len(events) + 1 /\ j = Len(events) + 1
      BY <1>1, <1>3, <2>3
    <2>4. QED
      BY <1>1, <2>1, <2>2, <2>3
  <1>6. QED
    BY <1>5 DEF VersionsGrow

\* Each kind of event withdraws nothing, or leaves the seed unpromoted.
LEMMA EventFits ==
    ASSUME NEW e, Adds(e), Kinds(e)
    PROVE  /\ e.decision \in Withdrawals => ~e.promotedAfter
           /\ Carries(e)
  <1>1. e.promotedAfter = (auth'.status = "PROMOTED")
    BY DEF Adds
  <1>2. FreshIn(e.external) # {} => \E x \in e.external : x.verified
    BY DEF FreshIn, SourcesOf
  <1>3. CASE Ends(e) \/ Contradicts(e) \/ Counts(e) \/ Notes(e)
    BY <1>1, <1>3
       DEF Ends, Contradicts, Counts, Notes, Withdrawals, Carries, Confirming
  <1>4. CASE Supports(e)
    BY <1>2, <1>4 DEF Supports, Withdrawals, Carries, Confirming, LegacyPolicy
  <1>5. CASE Nudges(e)
    BY <1>1, <1>5 DEF Nudges, Withdrawals, Carries
  <1>6. QED
    BY <1>3, <1>4, <1>5 DEF Kinds

\* A promotion that a step leaves standing was confirmed or credited by that step, or
\* it stood before at the same version.
LEMMA PromotionStands ==
    ASSUME NEW e, Adds(e), Kinds(e), auth'.status = "PROMOTED"
    PROVE  /\ \/ e.decision \in Confirming
              \/ e.policy = LegacyPolicy /\ e.decision = "blocked"
              \/ auth.status = "PROMOTED" /\ auth'.version = auth.version
           /\ \/ e.decision \in Confirming /\ e.policy \in PolicyIds
              \/ auth.status = "PROMOTED" /\ e.decision # "contradicted"
  <1>1. CASE Ends(e) \/ Contradicts(e)
    BY <1>1 DEF Ends, Contradicts
  <1>2. CASE Supports(e)
    BY <1>2 DEF Supports, PolicyIds
  <1>3. CASE Counts(e)
    BY <1>3 DEF Counts
  <1>4. CASE Notes(e)
    BY <1>4 DEF Notes, Unmoved
  <1>5. CASE Nudges(e)
    BY <1>5 DEF Nudges, Unmoved, Confirming
  <1>6. QED
    BY <1>1, <1>2, <1>3, <1>4, <1>5 DEF Kinds

LEMMA StandingStep == StandingInv /\ [Next]_vars => StandingInv'
  <1> SUFFICES ASSUME StandingInv, [Next]_vars PROVE StandingInv'
    OBVIOUS
  <1>1. VInv /\ VInv' /\ IInv /\ IInv' /\ TypeOK
    BY VersionStep DEF StandingInv, VInv, IInv
  <1>2. CASE UNCHANGED vars
    BY <1>1, <1>2 DEF StandingInv, VersionsGrow, WithdrawalsDemote, PromotionIsLogged,
                      PromotionIsSupported, ConfirmationsCarry, Detected, vars,
                      ConfirmedOrCredited, CurrentSupport, AfterLastContradiction
  <1>3. CASE Next
    <2>1. Detected'
      BY <1>1, <1>3, StaysDetected DEF StandingInv
    <2>2. CASE Silent
      <3>1. VersionsGrow' /\ WithdrawalsDemote' /\ ConfirmationsCarry'
        BY <2>2 DEF Silent, StandingInv, VersionsGrow, WithdrawalsDemote, ConfirmationsCarry
      <3>2. PromotionIsLogged' /\ PromotionIsSupported'
        BY <2>2 DEF Silent, Unmoved, StandingInv, PromotionIsLogged, PromotionIsSupported,
                    ConfirmedOrCredited, CurrentSupport, AfterLastContradiction
      <3>3. QED
        BY <1>1, <2>1, <3>1, <3>2 DEF StandingInv
    <2>3. ASSUME NEW e, Adds(e), Kinds(e)
          PROVE  StandingInv'
      <3>1. /\ Len(events) \in Nat /\ Len(events') = Len(events) + 1
            /\ events'[Len(events) + 1] = e
            /\ \A i \in 1..Len(events) : events'[i] = events[i]
            /\ e.version = auth'.version
        BY <1>1, <2>3, Appended DEF Adds
      <3>2. VersionsGrow'
        BY <1>1, <1>3, <2>3, VersionsGrowStep DEF StandingInv
      <3>3. 1..Len(events') = (1..Len(events)) \cup {Len(events) + 1}
        BY <3>1
      <3>4. WithdrawalsDemote' /\ ConfirmationsCarry'
        BY <2>3, <3>1, <3>3, EventFits DEF StandingInv, WithdrawalsDemote, ConfirmationsCarry
      <3>5. PromotionIsLogged'
        <4> SUFFICES ASSUME auth'.status = "PROMOTED"
                     PROVE  \E i \in 1..Len(events') : ConfirmedOrCredited(i)'
          BY DEF PromotionIsLogged
        <4>1. CASE \/ e.decision \in Confirming
                   \/ e.policy = LegacyPolicy /\ e.decision = "blocked"
          BY <3>1, <3>3, <4>1 DEF ConfirmedOrCredited
        <4>2. CASE auth.status = "PROMOTED" /\ auth'.version = auth.version
          BY <3>1, <3>3, <4>2 DEF ConfirmedOrCredited, StandingInv, PromotionIsLogged
        <4>3. QED
          BY <2>3, <4>1, <4>2, PromotionStands
      <3>6. PromotionIsSupported'
        <4> SUFFICES ASSUME auth'.status = "PROMOTED"
                     PROVE  \E i \in CurrentSupport' : events'[i].policy \in PolicyIds
          BY DEF PromotionIsSupported
        <4>1. CASE e.decision \in Confirming /\ e.policy \in PolicyIds
          <5>1. Len(events) + 1 \in CurrentSupport'
            BY <3>1, <4>1 DEF CurrentSupport, AfterLastContradiction, Confirming
          <5>2. QED
            BY <3>1, <4>1, <5>1
        <4>2. CASE auth.status = "PROMOTED" /\ e.decision # "contradicted"
          <5>1. PICK i \in CurrentSupport : events[i].policy \in PolicyIds
            BY <4>2 DEF StandingInv, PromotionIsSupported
          <5>2. /\ i \in 1..Len(events) /\ events[i].decision \in Confirming
                /\ \A j \in i..Len(events) : events[j].decision # "contradicted"
            BY <5>1 DEF CurrentSupport, AfterLastContradiction
          <5>3. \A j \in i..Len(events') : events'[j].decision # "contradicted"
            BY <3>1, <4>2, <5>2
          <5>4. i \in CurrentSupport'
            BY <3>1, <5>2, <5>3 DEF CurrentSupport, AfterLastContradiction
          <5>5. QED
            BY <3>1, <5>1, <5>2, <5>4
        <4>3. QED
          BY <2>3, <4>1, <4>2, PromotionStands
      <3>7. QED
        BY <1>1, <2>1, <3>2, <3>4, <3>5, <3>6 DEF StandingInv
    <2>4. QED
      BY <1>1, <1>3, <2>2, <2>3, StepAdds
  <1>4. QED
    BY <1>2, <1>3

LEMMA StandingStarts == Init => StandingInv
  <1> SUFFICES ASSUME Init PROVE StandingInv
    OBVIOUS
  <1>1. IInv /\ Len(events) = 0 /\ auth.status = "NEW" /\ presence.occurrences = 1
    BY InitEstablishes DEF Init
  <1>2. QED
    BY <1>1 DEF StandingInv, VInv, VersionsBehind, VersionIdentifiesAuthority, VersionsGrow,
                WithdrawalsDemote, PromotionIsLogged, PromotionIsSupported,
                ConfirmationsCarry, Detected

-----------------------------------------------------------------------------
(* Uses.                                                                   *)

\* What a record of an allowed use is worth: it replays, and nothing between the event it
\* links to and the decision withdrew the promotion.
SoundRecord(r) ==
    /\ r \in InfluenceRecord /\ r.at \in 0..Len(events)
    /\ Allowed(r) =>
          /\ r.ref \in 1..r.at /\ Replays(r)
          /\ \A i \in r.ref..r.at : events[i].decision \notin Withdrawals

UseInv ==
    /\ StandingInv /\ influence \in Seq(InfluenceRecord)
    /\ \A k \in 1..Len(influence) : SoundRecord(influence[k])

\* Every later event at the version of a promotion left the seed promoted.
LEMMA NothingWithdrewSince ==
    ASSUME StandingInv, auth.status = "PROMOTED", NEW i \in 1..Len(events),
           events[i].version = auth.version, NEW j \in i..Len(events)
    PROVE  events[j].decision \notin Withdrawals
  <1>1. VInv /\ TypeOK /\ Len(events) \in Nat /\ j \in 1..Len(events) /\ i \in 1..j
    BY DEF StandingInv, VInv, IInv, TypeOK
  <1>2. events[j].version \in Nat /\ auth.version \in Nat
    BY <1>1, LogIsTyped DEF GateEvent, TypeOK, Authority
  <1>3. events[i].version <= events[j].version /\ events[j].version <= auth.version
    BY <1>1 DEF StandingInv, VersionsGrow, VInv, VersionsBehind
  <1>4. events[j].version = auth.version
    BY <1>2, <1>3
  <1>5. events[j].promotedAfter
    BY <1>1, <1>4 DEF VInv, VersionIdentifiesAuthority
  <1>6. QED
    BY <1>1, <1>5 DEF StandingInv, WithdrawalsDemote

\* The record that a use writes.
RecordOfUse == [reason |-> Decision, ref |-> Latest(Linkable),
                version |-> auth.version, at |-> Len(events)]

LEMMA RecordOfUseIsSound == ASSUME StandingInv PROVE SoundRecord(RecordOfUse)
  <1> DEFINE r == RecordOfUse
  <1>1. /\ r.reason = Decision /\ r.ref = Latest(Linkable)
        /\ r.version = auth.version /\ r.at = Len(events)
    BY DEF RecordOfUse
  <1>2. /\ Len(events) \in Nat /\ auth.version \in Nat
        /\ Linkable \in SUBSET (1..Len(events))
    BY DEF StandingInv, VInv, IInv, TypeOK, Authority, Linkable
  <1>3. Linkable # {} => Latest(Linkable) \in Linkable
    BY <1>2, LatestIsLast
  <1>4. Decision \in Reasons
    BY DEF Decision, Reasons
  <1>5. Latest(Linkable) \in Nat
    <2>1. CASE Linkable = {}
      BY <2>1 DEF Latest, NoLink
    <2>2. CASE Linkable # {}
      <3>1. Latest(Linkable) \in 1..Len(events)
        BY <1>2, <1>3, <2>2
      <3>2. QED
        BY <1>2, <3>1
    <2>3. QED
      BY <2>1, <2>2
  <1>6. r \in InfluenceRecord
    BY <1>2, <1>4, <1>5 DEF RecordOfUse, InfluenceRecord
  <1>7. Allowed(r) => auth.status = "PROMOTED" /\ Linkable # {}
    BY <1>1 DEF Allowed, Decision
  <1> HIDE DEF r
  <1>8. ASSUME Allowed(r)
        PROVE  /\ r.ref \in 1..r.at /\ Replays(r)
               /\ \A i \in r.ref..r.at : events[i].decision \notin Withdrawals
    <2>1. r.ref \in Linkable /\ r.ref \in 1..Len(events)
      BY <1>1, <1>2, <1>3, <1>7, <1>8
    <2>2. Replays(r) /\ events[r.ref].version = auth.version
      BY <1>1, <2>1 DEF Replays, Linkable
    <2>3. QED
      BY <1>1, <1>7, <1>8, <2>1, <2>2, NothingWithdrewSince
  <1>9. SoundRecord(r)
    BY <1>1, <1>2, <1>6, <1>8 DEF SoundRecord
  <1>10. QED
    BY <1>9 DEF r

LEMMA SoundStaysSound ==
    ASSUME TypeOK, NEW r, SoundRecord(r),
           UNCHANGED events \/ \E e : Adds(e)
    PROVE  /\ r \in InfluenceRecord /\ r.at \in 0..Len(events')
           /\ Allowed(r) =>
                 /\ r.ref \in 1..r.at
                 /\ r.ref \in 1..Len(events')
                 /\ events'[r.ref] = events[r.ref] /\ Replays(r)
                 /\ \A i \in r.ref..r.at : events'[i].decision \notin Withdrawals
  <1>1. Len(events) \in Nat
    BY DEF TypeOK
  <1>2. CASE UNCHANGED events
    BY <1>1, <1>2 DEF SoundRecord
  <1>3. ASSUME NEW e, Adds(e)
        PROVE  Len(events') = Len(events) + 1 /\ \A i \in 1..Len(events) : events'[i] = events[i]
    BY <1>3, Appended
  <1>4. CASE \E e : Adds(e)
    BY SMTT(20), <1>1, <1>3, <1>4 DEF SoundRecord
  <1>5. QED
    BY <1>2, <1>4

LEMMA UseStep == UseInv /\ [UseNext]_useVars => UseInv'
  <1> SUFFICES ASSUME UseInv, [UseNext]_useVars PROVE UseInv'
    OBVIOUS
  <1>1. /\ StandingInv /\ IInv /\ TypeOK
        /\ influence \in Seq(InfluenceRecord)
        /\ \A k \in 1..Len(influence) : SoundRecord(influence[k])
    BY DEF UseInv, StandingInv, VInv, IInv
  <1>2. \/ [Next]_vars /\ UNCHANGED influence
        \/ UNCHANGED vars /\ \E policy, revalidate : Use(policy, revalidate)
    BY DEF UseNext, SeedStep, Use, useVars, vars
  <1>3. StandingInv' /\ IInv'
    BY <1>1, <1>2, StandingStep DEF StandingInv, VInv
  <1>4. UNCHANGED events \/ \E e : Adds(e)
    BY <1>1, <1>2, <1>3, StepAdds DEF Silent, vars
  <1>5. ASSUME NEW k \in 1..Len(influence), influence'[k] = influence[k]
        PROVE  SoundRecord(influence[k])'
    <2> DEFINE r == influence[k]
    <2>1. SoundRecord(r)
      BY <1>1
    <2>2. influence'[k] = r
      BY <1>5
    <2> HIDE DEF r
    <2>3. QED
      BY <1>1, <1>4, <2>1, <2>2, SoundStaysSound DEF SoundRecord, Replays, Allowed
  <1>6. CASE UNCHANGED influence
    BY <1>1, <1>3, <1>5, <1>6 DEF UseInv
  <1>7. ASSUME UNCHANGED vars, NEW policy, NEW revalidate, Use(policy, revalidate)
        PROVE  UseInv'
    <2>1. influence' = Append(influence, RecordOfUse) /\ UNCHANGED events
      BY <1>7 DEF Use, RecordOfUse, vars
    <2>2. SoundRecord(RecordOfUse)
      BY <1>1, RecordOfUseIsSound
    <2> DEFINE r == RecordOfUse
    <2>3. r \in InfluenceRecord
      BY <2>2 DEF SoundRecord
    <2> HIDE DEF r
    <2>4. /\ influence' \in Seq(InfluenceRecord) /\ Len(influence') = Len(influence) + 1
          /\ Len(influence) \in Nat
          /\ \A k \in 1..Len(influence) : influence'[k] = influence[k]
          /\ influence'[Len(influence) + 1] = r
      BY <1>1, <2>1, <2>3 DEF r
    <2>5. \A k \in 1..Len(influence') : SoundRecord(influence[k])'
      BY <1>1, <2>1, <2>2, <2>4 DEF r, SoundRecord, Replays, Allowed
    <2>6. QED
      BY <1>3, <2>4, <2>5 DEF UseInv
  <1>8. QED
    BY <1>2, <1>6, <1>7

LEMMA UseStarts == UseInit => UseInv
  <1> SUFFICES ASSUME UseInit PROVE UseInv
    OBVIOUS
  <1>1. StandingInv /\ influence = <<>>
    BY StandingStarts DEF UseInit
  <1>2. QED
    BY <1>1 DEF UseInv

\* Whoever was allowed to steer an answer was allowed on a promotion nothing had taken back,
\* and the record proves it ever after (AgentSafetyContract.decide_and_record,
\* _link_gate_event, assert_influence_records_valid).
THEOREM UsesAreAlwaysSound == UseSpec => []UsesAreSound
  <1>1. UseInv => UsesAreSound
    <2> SUFFICES ASSUME UseInv PROVE UsesAreSound
      OBVIOUS
    <2>1. UseTypeOK
      BY DEF UseInv, StandingInv, VInv, IInv, UseTypeOK
    <2>2. AllowedUsesReplay
      BY DEF UseInv, SoundRecord, AllowedUsesReplay
    <2>3. NoUseAfterWithdrawal
      <3> SUFFICES ASSUME NEW k \in 1..Len(influence), Allowed(influence[k]),
                          NEW i \in 1..influence[k].at, i >= influence[k].ref
                   PROVE  events[i].decision \notin Withdrawals
        BY DEF NoUseAfterWithdrawal, Withdrawals
      <3> DEFINE r == influence[k]
      <3>1. SoundRecord(r) /\ Allowed(r) /\ i \in 1..r.at /\ i >= r.ref
        BY DEF UseInv
      <3> HIDE DEF r
      <3>2. r.ref \in 1..r.at /\ r.at \in Nat
        BY <3>1 DEF SoundRecord, InfluenceRecord
      <3>3. QED
        BY <3>1, <3>2 DEF SoundRecord
    <2>4. QED
      BY <2>1, <2>2, <2>3 DEF UsesAreSound
  <1>2. QED
    BY <1>1, UseStarts, UseStep, PTL DEF UseSpec

-----------------------------------------------------------------------------
(* A standing promotion stays usable.                                      *)

\* A promoted seed has its weight, is not blocked, and was once logged as promoted.
LEMMA PromotedHolds ==
    ASSUME StandingInv, auth.status = "PROMOTED"
    PROVE  /\ ~Blocking /\ auth.weight >= PromotionThreshold /\ auth.weight # 0
           /\ LoggedPromotion
  <1>1. ~Blocking /\ auth.weight >= PromotionThreshold
    BY DEF StandingInv, VInv, IInv, PromotedIsSound
  <1>2. auth.weight # 0
    BY <1>1, WeightAssumption
  <1>3. PICK i \in 1..Len(events) : ConfirmedOrCredited(i)
    BY DEF StandingInv, PromotionIsLogged
  <1>4. events[i].promotedAfter
    BY <1>3 DEF ConfirmedOrCredited, StandingInv, VInv, VersionIdentifiesAuthority
  <1>5. QED
    BY <1>1, <1>2, <1>4 DEF LoggedPromotion

LEMMA LinkIsLostByCredit == StandingInv => LinkLostOnlyByLegacyCredit
  <1> SUFFICES ASSUME StandingInv, auth.status = "PROMOTED", Linkable = {}
               PROVE  \E i \in 1..Len(events) :
                          /\ events[i].version = auth.version
                          /\ events[i].policy = LegacyPolicy
                          /\ events[i].decision = "blocked"
    BY DEF LinkLostOnlyByLegacyCredit
  <1>1. PICK i \in 1..Len(events) : ConfirmedOrCredited(i)
    BY DEF StandingInv, PromotionIsLogged
  <1>2. events[i].promotedAfter /\ events[i].blockingAfter = Blocking
    BY <1>1 DEF ConfirmedOrCredited, StandingInv, VInv, VersionIdentifiesAuthority
  <1>3. events[i].decision \notin Confirming
    BY <1>1, <1>2, PromotedHolds DEF ConfirmedOrCredited, Linkable
  <1>4. QED
    BY <1>1, <1>3 DEF ConfirmedOrCredited

LEMMA RevalidationKeeps == StandingInv => PromotionSurvivesRevalidation
  <1> SUFFICES ASSUME StandingInv, NEW policy \in {"exploratory", "evidence_backed"},
                      auth.status = "PROMOTED",
                      \A i \in CurrentSupport : events[i].policy \in {policy, "probe_feedback"}
               PROVE  MeetsCurrentGate(policy)
    BY DEF PromotionSurvivesRevalidation
  <1>1. PICK i \in CurrentSupport : events[i].policy \in PolicyIds
    BY DEF StandingInv, PromotionIsSupported
  <1>2. events[i].policy = policy
    BY <1>1 DEF PolicyIds, LegacyPolicy
  <1>3. i \in 1..Len(events) /\ events[i].decision \in Confirming
    BY DEF CurrentSupport, AfterLastContradiction
  <1>4. Carries(events[i])
    BY <1>3 DEF StandingInv, ConfirmationsCarry
  <1>5. \/ SupportedBySource(CurrentSupport)
        \/ policy = "exploratory" /\ \E k \in CurrentSupport : events[k].recurrence > 0
    BY <1>2, <1>3, <1>4 DEF Carries, SupportedBySource
  <1>6. QED
    BY <1>5, PromotedHolds DEF MeetsCurrentGate, MeetsGate

\* Nothing but a legacy credit costs a promotion its link, and no unchanged policy takes
\* back what it confirmed (_link_gate_event, snapshot_meets_current_gate).
THEOREM PromotionAlwaysStaysUsable == UseSpec => []PromotionStaysUsable
  <1>1. UseInv => PromotionStaysUsable
    BY LinkIsLostByCredit, RevalidationKeeps DEF UseInv, PromotionStaysUsable
  <1>2. QED
    BY <1>1, UseStarts, UseStep, PTL DEF UseSpec

-----------------------------------------------------------------------------
(* What the panel says.                                                    *)

Usable == auth.status = "PROMOTED" /\ ~UnreviewedSSOT /\ Linkable # {}

LEMMA AllowedIsUsable ==
    ASSUME StandingInv
    PROVE  Decision = "allowed_promoted_gate_logged" <=> Usable
  BY PromotedHolds DEF Decision, Usable

\* The panel asks the records whether the seed is blocked, and the records know.
LEMMA ShownIsPromoted ==
    ASSUME StandingInv, NEW policy, NEW revalidate \in BOOLEAN
    PROVE  ShownAuthorized(policy, revalidate) <=>
               /\ ~UnreviewedSSOT /\ auth.status = "PROMOTED" /\ contras.open = 0
               /\ revalidate => MeetsCurrentGate(policy)
  <1>1. contras.open \in Nat /\ (Blocking <=> contras.open > 0)
    BY BlockingIsOpen DEF StandingInv, VInv, IInv, TypeOK, Contradictions
  <1>2. MeetsGate(policy, contras.open > 0) <=> MeetsCurrentGate(policy)
    BY <1>1 DEF MeetsGate, MeetsCurrentGate
  <1>3. MeetsCurrentGate(policy) => auth.status = "PROMOTED" /\ contras.open = 0
    BY <1>1 DEF MeetsGate, MeetsCurrentGate
  <1>4. QED
    BY <1>2, <1>3 DEF ShownAuthorized

\* Whose turn it is fits whether the seed is authorized, and what is asked of the human
\* is something the Gate would act on.
LEMMA TurnFits ==
    ASSUME StandingInv, NEW policy, NEW profile, NEW authorized \in BOOLEAN,
           authorized => auth.status = "PROMOTED" /\ contras.open = 0
    PROVE  LET turn == Orchestration(policy, profile, authorized)
           IN  /\ authorized <=> turn[1] = "optional_review"
               /\ turn[2] = "resolve_contradiction" => Blocking
               /\ turn[2] = "submit_verified_support" =>
                     ~Blocking /\ auth.status # "EXPIRED"
               /\ ReviewRequired(policy, profile, authorized) =>
                     turn[1] = "human_turn" \/ auth.evidence > 0
  <1>1. /\ contras.open \in Nat /\ (Blocking <=> contras.open > 0)
        /\ presence.occurrences \in Nat /\ auth.evidence \in Nat
    BY BlockingIsOpen
       DEF StandingInv, VInv, IInv, TypeOK, Contradictions, Presence, Authority
  <1>2. presence.occurrences >= 1 /\ MinOccurrences \in Nat
    BY CountAssumption DEF StandingInv, Detected
  <1>3. presence.occurrences >= MinOccurrences => Mature(MinOccurrences)
    BY <1>1, <1>2 DEF Mature, Most
  <1> DEFINE promoted == auth.status = "PROMOTED"
             ours == /\ ByHand(policy, profile)
                     /\ promoted \/ (Mature(MinOccurrences) /\ auth.evidence = 0)
             turn == Orchestration(policy, profile, authorized)
  <1>4. turn = IF contras.open > 0 THEN <<"blocked", "resolve_contradiction">>
               ELSE IF auth.status = "EXPIRED" THEN <<"blocked", "none">>
               ELSE IF promoted /\ authorized THEN <<"optional_review", "none">>
               ELSE IF ours THEN <<"human_turn", "submit_verified_support">>
               ELSE <<"ssl_turn", "none">>
    BY DEF Orchestration
  <1>5. /\ authorized => promoted /\ contras.open = 0
        /\ promoted => auth.status # "EXPIRED"
        /\ ReviewRequired(policy, profile, authorized) =>
              /\ ~authorized /\ contras.open = 0 /\ auth.status # "EXPIRED"
              /\ ours \/ auth.evidence > 0
    BY <1>1, <1>3 DEF ReviewRequired, ByHand
  <1> HIDE DEF promoted, ours, turn
  <1>6. /\ authorized <=> turn[1] = "optional_review"
        /\ turn[2] = "resolve_contradiction" => Blocking
        /\ turn[2] = "submit_verified_support" => ~Blocking /\ auth.status # "EXPIRED"
    BY <1>1, <1>4, <1>5
  <1>7. ReviewRequired(policy, profile, authorized) =>
            turn[1] = "human_turn" \/ auth.evidence > 0
    BY <1>1, <1>4, <1>5
  <1>8. QED
    BY <1>6, <1>7 DEF turn

\* The panel lists what the report lists, and beyond it only what rests on documents
\* nobody reviewed.
LEMMA ListsAgree ==
    ASSUME StandingInv, NEW policy, NEW profile, NEW revalidate \in BOOLEAN
    PROVE  LET reported == SeedReviewRequired(policy, profile, revalidate)
               listed == ReviewRequired(policy, profile, ShownAuthorized(policy, revalidate))
           IN  /\ reported => listed
               /\ listed => reported \/ UnreviewedSSOT
  <1>1. contras.open \in Nat /\ (Blocking <=> contras.open > 0)
    BY BlockingIsOpen DEF StandingInv, VInv, IInv, TypeOK, Contradictions
  <1>2. Blocking <=> contras.open # 0
    BY <1>1
  <1>3. QED
    BY <1>2, ShownIsPromoted DEF SeedReviewRequired, ReviewRequired

\* A use would be allowed exactly where the panel shows an authorized seed, but for a link
\* that was lost.
LEMMA ShownIsUsed ==
    ASSUME StandingInv, NEW policy, NEW revalidate \in BOOLEAN
    PROVE  LET used == /\ Decision = "allowed_promoted_gate_logged"
                       /\ revalidate => MeetsCurrentGate(policy)
           IN  /\ used => ShownAuthorized(policy, revalidate)
               /\ ShownAuthorized(policy, revalidate) => used \/ Linkable = {}
  <1>1. auth.status = "PROMOTED" => contras.open = 0
    BY PromotedHolds, BlockingIsOpen DEF StandingInv, VInv, IInv, TypeOK, Contradictions
  <1>2. QED
    BY <1>1, AllowedIsUsable, ShownIsPromoted DEF Usable

\* What the panel says of a seed is what a use would find, and what it asks of the human
\* the Gate would act on (InspectionService.session_view, derive_seed_orchestration,
\* _seed_review_required).
THEOREM PanelAlwaysSpeaksTrue == UseSpec => []PanelSpeaksTrue
  <1>1. ASSUME StandingInv PROVE PanelSpeaksTrue
    <2> SUFFICES ASSUME NEW policy \in CurrentPolicies
                 PROVE
        LET decided == Decision
            meets == MeetsCurrentGate(policy)
            shown == [r \in BOOLEAN |-> ShownAuthorized(policy, r)]
        IN  /\ \A revalidate \in BOOLEAN :
                  LET used == /\ decided = "allowed_promoted_gate_logged"
                              /\ revalidate => meets
                  IN  /\ used => shown[revalidate]
                      /\ shown[revalidate] => used \/ Linkable = {}
            /\ \A profile \in Profiles, revalidate \in BOOLEAN :
                  LET reported == SeedReviewRequired(policy, profile, revalidate)
                      listed == ReviewRequired(policy, profile, shown[revalidate])
                  IN  /\ reported => listed
                      /\ listed => reported \/ UnreviewedSSOT
            /\ \A profile \in Profiles, authorized \in {shown[TRUE], shown[FALSE]} :
                  LET turn == Orchestration(policy, profile, authorized)
                  IN  /\ authorized <=> turn[1] = "optional_review"
                      /\ turn[2] = "resolve_contradiction" => Blocking
                      /\ turn[2] = "submit_verified_support" =>
                            ~Blocking /\ auth.status # "EXPIRED"
                      /\ ReviewRequired(policy, profile, authorized) =>
                            turn[1] = "human_turn" \/ auth.evidence > 0
      BY DEF PanelSpeaksTrue
    <2> DEFINE shown == [r \in BOOLEAN |-> ShownAuthorized(policy, r)]
    <2>1. \A revalidate \in BOOLEAN :
              /\ shown[revalidate] = ShownAuthorized(policy, revalidate)
              /\ shown[revalidate] \in BOOLEAN
      BY DEF ShownAuthorized, MeetsGate
    <2> HIDE DEF shown
    <2>2. \A revalidate \in BOOLEAN :
              LET used == /\ Decision = "allowed_promoted_gate_logged"
                          /\ revalidate => MeetsCurrentGate(policy)
              IN  /\ used => shown[revalidate]
                  /\ shown[revalidate] => used \/ Linkable = {}
      BY <1>1, <2>1, ShownIsUsed
    <2>3. \A profile \in Profiles, revalidate \in BOOLEAN :
              LET reported == SeedReviewRequired(policy, profile, revalidate)
                  listed == ReviewRequired(policy, profile, shown[revalidate])
              IN  /\ reported => listed
                  /\ listed => reported \/ UnreviewedSSOT
      BY <1>1, <2>1, ListsAgree
    <2>4. ASSUME NEW profile \in Profiles, NEW authorized \in {shown[TRUE], shown[FALSE]}
          PROVE  LET turn == Orchestration(policy, profile, authorized)
                 IN  /\ authorized <=> turn[1] = "optional_review"
                     /\ turn[2] = "resolve_contradiction" => Blocking
                     /\ turn[2] = "submit_verified_support" =>
                           ~Blocking /\ auth.status # "EXPIRED"
                     /\ ReviewRequired(policy, profile, authorized) =>
                           turn[1] = "human_turn" \/ auth.evidence > 0
      <3>1. authorized \in BOOLEAN
        BY <2>1
      <3>2. authorized => auth.status = "PROMOTED" /\ contras.open = 0
        BY <1>1, <2>1, ShownIsPromoted
      <3>3. QED
        BY <1>1, <3>1, <3>2, TurnFits
    <2>5. QED
      BY <2>2, <2>3, <2>4 DEF shown
  <1>2. QED
    BY <1>1, UseStarts, UseStep, PTL DEF UseSpec, UseInv

-----------------------------------------------------------------------------
(* The seed between uses.                                                  *)

\* To a reader of the seed a use is nothing at all: with its uses hidden the seed lives
\* as SeedGate says, and whatever is proved of SeedGate holds here
\* (AgentSafetyContract only reads).
THEOREM UsesLeaveTheSeedAlone == UseSpec => Spec
  <1>1. UseInit => Init
    BY DEF UseInit
  <1>2. [UseNext]_useVars => [Next]_vars
    BY DEF UseNext, SeedStep, Use, useVars, vars
  <1>3. QED
    BY <1>1, <1>2, PTL DEF UseSpec, Spec

=============================================================================

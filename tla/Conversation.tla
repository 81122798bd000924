---------------------------- MODULE Conversation ----------------------------
(***************************************************************************)
(* The live conversation of ShadowseedEngine and ShadowChatSession: a host *)
(* prepares a turn, calls its own model, and then observes the answer or   *)
(* aborts the turn.  Observed answers are ingested as seeds, clustered by  *)
(* open question and offered to the Gate as recurrence.                    *)
(*                                                                         *)
(* The Gate is reduced to what the conversation can tell apart (SeedGate   *)
(* has the rest): weights are counted in confirmations, OPEN stands for    *)
(* NEW, ACTIVE and DECAYING, and the session runs the exploratory policy.  *)
(***************************************************************************)
EXTENDS Integers, Sequences, FiniteSets

CONSTANTS
    Topics,               \* the open questions candidates may express
    Threshold,            \* min_occurrences_for_gate
    Promotion,            \* confirmations that promote
    DormantTTL,           \* dormant_ttl_turns
    MaxCandidates,        \* max_seeds_per_turn
    MaxSeeds, MaxTurns, MaxEvents,  \* bounds
    MaxRetries            \* bound: failed observations of one turn

ASSUME ConversationAssumption ==
    /\ Threshold \in Nat \ {0} /\ Promotion \in Nat \ {0}
    /\ DormantTTL \in Nat /\ MaxCandidates \in Nat
    /\ MaxRetries \in Nat /\ MaxSeeds \in Nat /\ MaxTurns \in Nat /\ MaxEvents \in Nat

VARIABLES
    seeds,      \* manager._seeds: seed id -> seed
    born,       \* born_turn
    clusterOf,  \* seed_to_cluster
    clusters,   \* the clusterer with cluster_rep
    gate,       \* manager.gate_events
    influence,  \* influence_records of answer modification
    turn,       \* _turn: turns observed
    pending     \* _pending_live_turn with its rollback, or NoTurn

vars == <<seeds, born, clusterOf, clusters, gate, influence, turn, pending>>
recurrence == <<born, clusterOf, clusters>>

Ids == 1..MaxSeeds

Seed == [topic : Topics, status : {"OPEN", "DORMANT", "PROMOTED", "EXPIRED"},
         occurrences : Nat, weight : Nat, blocked : BOOLEAN,
         dormant : Nat, version : Nat]

\* topic is what the centroid stands for, refs the turns that were credited.
Cluster == [topic : Topics, refs : SUBSET Nat, count : Nat, rep : Ids]

\* turn and retried are history: when the event was recorded, and whether an earlier
\* attempt to observe that turn had failed.
GateEvent == [seed : Ids, decision : {"validated", "promoted", "blocked", "contradicted",
                                      "contradiction_resolved", "expired"},
              recurrence : Nat, version : Nat, turn : Nat, retried : BOOLEAN]

Confirming == {"validated", "promoted"}

Influence == [seed : Ids, version : Nat, turn : Nat]

NoTurn == [surfaced |-> {}, before |-> <<>>, influenced |-> 0, logged |-> 0,
           failed |-> 0, open |-> FALSE]

\* A candidate text: the question it asks, whether it is worded closely enough
\* to match the seed that already asks it, and whether the recogniser sees the
\* repetition when it is not.
Candidate == [topic : Topics, matches : BOOLEAN, recognized : BOOLEAN]

Live(ss) == {id \in DOMAIN ss : ss[id].status # "EXPIRED"}

\* Seeds in the order of the registry, which is that of their ids.
InOrder(ids) ==
    [k \in 1..Cardinality(ids) |->
        CHOOSE id \in ids : Cardinality({other \in ids : other <= id}) = k]

EventsOf(id) == {i \in 1..Len(gate) : gate[i].seed = id}

-----------------------------------------------------------------------------
(* prepare_turn: decay, reactivation, selection, recorded decisions.       *)

\* decay_traces on one seed; faded says its trace fell below dormant_threshold.
Aged(seed, faded) ==
    IF seed.status = "EXPIRED" THEN seed
    ELSE IF seed.status = "DORMANT" \/ (faded /\ seed.weight = 0)
    THEN [seed EXCEPT !.dormant = seed.dormant + 1,
                      !.status = IF DormantTTL > 0 /\ seed.dormant + 1 >= DormantTTL
                                 THEN "EXPIRED" ELSE "DORMANT"]
    ELSE [seed EXCEPT !.dormant = 0]

\* A first turn decays nothing.
AgedSeeds(faded) ==
    IF turn = 0 THEN seeds ELSE [id \in DOMAIN seeds |-> Aged(seeds[id], id \in faded)]

\* The expiry events decay_traces records, in the order of the registry.
ExpiryEvents(aged) ==
    LET expired == {id \in DOMAIN seeds :
                       seeds[id].status # "EXPIRED" /\ aged[id].status = "EXPIRED"}
    IN [k \in 1..Cardinality(expired) |->
          LET id == InOrder(expired)[k] IN
          [seed |-> id, decision |-> "expired", recurrence |-> 0,
           version |-> aged[id].version, turn |-> turn, retried |-> FALSE]]

\* scan_trtl_triggers
Reactivated(aged, matching) ==
    [id \in DOMAIN aged |->
        IF id \in matching /\ aged[id].status = "DORMANT"
        THEN [aged[id] EXCEPT !.status = "OPEN", !.dormant = 0] ELSE aged[id]]

IsRepresentative(id) ==
    id \in DOMAIN clusterOf => clusters[clusterOf[id]].rep = id

\* A confirming event that links to the current authority version.
Linked(id, version) ==
    \E i \in EventsOf(id) : gate[i].decision = "promoted" /\ gate[i].version = version

\* collect_eligible_promoted_seeds and _contract_filter.
Surfaceable(ss) ==
    {id \in DOMAIN ss : /\ ss[id].status = "PROMOTED" /\ ~ss[id].blocked
                        /\ id \in DOMAIN born /\ born[id] < turn
                        /\ IsRepresentative(id)
                        /\ Linked(id, ss[id].version)}

\* Which of them are close enough to the question, and among the first surface_top_k,
\* is for the embedder to say: select_cross_turn_seeds, above seed_threshold.
Selections(ss) == SUBSET Surfaceable(ss)

RecordsFor(surfaced, ss) ==
    [k \in 1..Cardinality(surfaced) |->
        LET id == InOrder(surfaced)[k] IN
        [seed |-> id, version |-> ss[id].version, turn |-> turn]]

Prepare(faded, matching, surfaced) ==
    LET aged == AgedSeeds(faded)
        ready == Reactivated(aged, matching)
    IN /\ ~pending.open /\ turn < MaxTurns
       /\ Len(gate) + Len(ExpiryEvents(aged)) <= MaxEvents
       /\ surfaced \in Selections(ready)
       /\ seeds' = ready
       /\ gate' = gate \o ExpiryEvents(aged)
       /\ influence' = influence \o RecordsFor(surfaced, ready)
       /\ pending' = [surfaced |-> surfaced, before |-> seeds,
                      influenced |-> Len(influence), logged |-> Len(gate),
                      failed |-> 0, open |-> TRUE]
       /\ UNCHANGED <<recurrence, turn>>

\* An embedding call fails inside prepare_turn, after the decay.
PrepareFails(faded) ==
    LET expiries == ExpiryEvents(AgedSeeds(faded)) IN
    /\ ~pending.open /\ turn < MaxTurns
    /\ expiries # <<>> /\ Len(gate) + Len(expiries) <= MaxEvents
    /\ gate' = gate \o expiries
    /\ UNCHANGED <<seeds, recurrence, influence, turn, pending>>

\* An abort that keeps the influence records of the cancelled turn.
AbortKeepingRecords ==
    /\ pending.open
    /\ seeds' = pending.before
    /\ pending' = NoTurn
    /\ UNCHANGED <<recurrence, gate, turn, influence>>

\* abort_turn: seeds and influence records are restored, the Gate log is not.
Abort ==
    /\ pending.open
    /\ seeds' = pending.before
    /\ influence' = SubSeq(influence, 1, pending.influenced)
    /\ pending' = NoTurn
    /\ UNCHANGED <<recurrence, gate, turn>>

-----------------------------------------------------------------------------
(* observe_turn: ingest, cluster, project recurrence, offer it to the Gate.*)

NewId(ss) == 1 + IF DOMAIN ss = {} THEN 0
                 ELSE CHOOSE id \in DOMAIN ss : \A other \in DOMAIN ss : other <= id

NewSeed(topic) == [topic |-> topic, status |-> "OPEN", occurrences |-> 1, weight |-> 0,
                   blocked |-> FALSE, dormant |-> 0, version |-> 0]

Redetected(seed) ==
    [seed EXCEPT !.occurrences = seed.occurrences + 1, !.dormant = 0,
                 !.status = IF seed.status = "PROMOTED" THEN "PROMOTED" ELSE "OPEN"]

Extended(f, x, y) == [z \in DOMAIN f \cup {x} |-> IF z = x THEN y ELSE f[z]]

\* ingest_detection_candidates on one candidate: a match reinforces a live seed once
\* per batch, everything else is stored as a new weightless seed.
Ingest(batch, candidate) ==
    LET same == {id \in Live(batch.seeds) : batch.seeds[id].topic = candidate.topic}
        match == CHOOSE id \in same : \A other \in same : id <= other
        fresh == NewId(batch.seeds)
    IN IF candidate.matches /\ same # {}
       THEN IF \E k \in 1..Len(batch.accepted) : batch.accepted[k].id = match THEN batch
            ELSE [seeds |-> [batch.seeds EXCEPT ![match] = Redetected(batch.seeds[match])],
                  accepted |-> Append(batch.accepted,
                                      [id |-> match, recognized |-> candidate.recognized])]
       ELSE [seeds |-> Extended(batch.seeds, fresh, NewSeed(candidate.topic)),
             accepted |-> Append(batch.accepted,
                                 [id |-> fresh, recognized |-> candidate.recognized])]

Ingested(candidates) ==
    LET batch[k \in 0..Len(candidates)] ==
            IF k = 0 THEN [seeds |-> seeds, accepted |-> <<>>]
            ELSE Ingest(batch[k - 1], candidates[k])
    IN batch[Len(candidates)]

\* _credit_observation
Credited(cluster) ==
    IF turn \in cluster.refs THEN cluster
    ELSE [cluster EXCEPT !.refs = cluster.refs \cup {turn}, !.count = cluster.count + 1]

NewCluster(id, topic) == [topic |-> topic, refs |-> {turn}, count |-> 1, rep |-> id]

\* A representative that is replaced as soon as it is not promoted.
NeedsReplacingUnlessPromoted(ss, id) ==
    id \notin DOMAIN ss \/ ss[id].status # "PROMOTED"

NeedsReplacing(ss, id) == id \notin DOMAIN ss \/ ss[id].status = "EXPIRED"

\* refresh_cluster_representative
Refreshed(seed) ==
    [seed EXCEPT !.dormant = 0,
                 !.status = IF seed.status = "PROMOTED" THEN "PROMOTED" ELSE "OPEN"]

\* The cluster a seed is registered in: its own, the one the recogniser names, or
\* a new one.
Home(state, accepted) ==
    LET alike == {c \in 1..Len(state.clusters) :
                    state.clusters[c].topic = state.seeds[accepted.id].topic}
    IN IF accepted.id \in DOMAIN state.of THEN state.of[accepted.id]
       ELSE IF accepted.recognized /\ alike # {}
       THEN CHOOSE c \in alike : \A other \in alike : c <= other
       ELSE Len(state.clusters) + 1

\* _register_cluster_observation
Register(state, accepted) ==
    LET id == accepted.id
        c == Home(state, accepted)
        credited == IF c > Len(state.clusters)
                    THEN Append(state.clusters, NewCluster(id, state.seeds[id].topic))
                    ELSE [state.clusters EXCEPT ![c] = Credited(state.clusters[c])]
        rep == credited[c].rep
        replace == NeedsReplacing(state.seeds, rep)
    IN [of |-> Extended(state.of, id, c),
        clusters |-> IF replace THEN [credited EXCEPT ![c].rep = id] ELSE credited,
        seeds |-> IF replace \/ rep = id THEN state.seeds
                  ELSE [state.seeds EXCEPT ![rep] = Refreshed(state.seeds[rep])]]

Registered(batch) ==
    LET state[k \in 0..Len(batch.accepted)] ==
            IF k = 0 THEN [of |-> clusterOf, clusters |-> clusters, seeds |-> batch.seeds]
            ELSE Register(state[k - 1], batch.accepted[k])
    IN state[Len(batch.accepted)]

\* _sync_cluster_recurrence: every cluster, observed in this turn or not.
Synced(state) ==
    [id \in DOMAIN state.seeds |->
        LET led == {c \in 1..Len(state.clusters) : state.clusters[c].rep = id} IN
        IF led = {} \/ state.seeds[id].status = "EXPIRED" THEN state.seeds[id]
        ELSE [state.seeds[id] EXCEPT !.occurrences =
                state.clusters[CHOOSE c \in led : \A other \in led : other <= c].count]]

\* The seeds whose changed recurrence is offered to the Gate.
Offered(state, synced) ==
    {id \in Live(synced) :
        /\ id \in DOMAIN seeds => synced[id].occurrences # seeds[id].occurrences
        /\ synced[id].occurrences >= Threshold
        /\ id \in DOMAIN state.of => state.clusters[state.of[id]].rep = id}

\* Recurrence counts confirmed since the seed was last contradicted.
Heard(id) ==
    {gate[i].recurrence : i \in {k \in EventsOf(id) :
        /\ gate[k].decision \in Confirming
        /\ \A m \in EventsOf(id) : m >= k => gate[m].decision # "contradicted"}}

Confirms(id, synced) ==
    ~synced[id].blocked /\ synced[id].occurrences \notin Heard(id)

Confirmed(seed) ==
    [seed EXCEPT !.weight = seed.weight + 1, !.version = seed.version + 1,
                 !.status = IF seed.weight + 1 >= Promotion THEN "PROMOTED" ELSE "OPEN"]

AfterGate(synced, offered) ==
    [id \in DOMAIN synced |->
        IF id \in offered /\ Confirms(id, synced) THEN Confirmed(synced[id]) ELSE synced[id]]

RecurrenceEvents(synced, offered, after) ==
    [k \in 1..Cardinality(offered) |->
        LET id == InOrder(offered)[k] IN
        [seed |-> id,
         decision |-> IF ~Confirms(id, synced) THEN "blocked"
                      ELSE IF after[id].status = "PROMOTED" THEN "promoted" ELSE "validated",
         recurrence |-> synced[id].occurrences,
         version |-> after[id].version, turn |-> turn,
         retried |-> pending.failed > 0]]

\* _filter_ssl_attributed_candidates: an answer that was given context teaches nothing.
Admitted(candidates) == IF pending.surfaced = {} THEN candidates ELSE <<>>

Observe(candidates) ==
    LET batch == Ingested(Admitted(candidates))
        state == Registered(batch)
        synced == Synced(state)
        offered == Offered(state, synced)
        after == AfterGate(synced, offered)
        accepted == {batch.accepted[k].id : k \in 1..Len(batch.accepted)}
    IN /\ pending.open
       /\ DOMAIN batch.seeds \subseteq Ids
       /\ Len(gate) + Cardinality(offered) <= MaxEvents
       /\ seeds' = after
       /\ born' = [id \in DOMAIN born \cup accepted |->
                     IF id \in DOMAIN born THEN born[id] ELSE turn]
       /\ clusterOf' = state.of /\ clusters' = state.clusters
       /\ gate' = gate \o RecurrenceEvents(synced, offered, after)
       /\ turn' = turn + 1
       /\ pending' = NoTurn
       /\ UNCHANGED influence

\* The embedder fails on a later candidate: what was ingested stays, the turn stays
\* pending, and the host may observe again or abort.
ObserveFails(candidates) ==
    LET batch == Ingested(Admitted(candidates)) IN
    /\ pending.open /\ pending.failed < MaxRetries
    /\ batch.accepted # <<>> /\ DOMAIN batch.seeds \subseteq Ids
    /\ seeds' = batch.seeds
    /\ pending' = [pending EXCEPT !.failed = pending.failed + 1]
    /\ UNCHANGED <<recurrence, gate, influence, turn>>

-----------------------------------------------------------------------------
(* Authority changes the host makes between turns.                         *)

AuthorityMayChangeAnyTime == TRUE

\* The engine refuses them while a prepared turn is pending.
AuthorityMayChange == ~pending.open

LogOne(id, decision, version) ==
    gate' = Append(gate, [seed |-> id, decision |-> decision, recurrence |-> 0,
                          version |-> version, turn |-> turn, retried |-> FALSE])

\* submit_evidence with a source that was not used before.
SubmitEvidence(id) ==
    /\ AuthorityMayChange /\ Len(gate) < MaxEvents
    /\ seeds[id].status # "EXPIRED" /\ ~seeds[id].blocked
    /\ seeds' = [seeds EXCEPT ![id] = Confirmed(seeds[id])]
    /\ LogOne(id, IF seeds'[id].status = "PROMOTED" THEN "promoted" ELSE "validated",
              seeds'[id].version)
    /\ UNCHANGED <<recurrence, influence, turn, pending>>

Penalized(seed) ==
    [seed EXCEPT !.weight = IF seed.weight = 0 THEN 0 ELSE seed.weight - 1,
                 !.blocked = TRUE, !.status = "OPEN",
                 !.occurrences = 1, !.dormant = 0, !.version = seed.version + 1]

\* submit_contradiction
SubmitContradiction(id) ==
    /\ AuthorityMayChange /\ Len(gate) < MaxEvents
    /\ seeds[id].status # "EXPIRED"
    /\ seeds' = [seeds EXCEPT ![id] = Penalized(seeds[id])]
    /\ LogOne(id, "contradicted", seeds'[id].version)
    /\ UNCHANGED <<recurrence, influence, turn, pending>>

\* resolve_contradiction on every open record, between turns.
ResolveContradiction(id) ==
    /\ AuthorityMayChange /\ Len(gate) < MaxEvents
    /\ seeds[id].status # "EXPIRED" /\ seeds[id].blocked
    /\ seeds' = [seeds EXCEPT ![id] =
           [seeds[id] EXCEPT !.blocked = FALSE, !.version = seeds[id].version + 1]]
    /\ LogOne(id, "contradiction_resolved", seeds'[id].version)
    /\ UNCHANGED <<recurrence, influence, turn, pending>>

-----------------------------------------------------------------------------

Init ==
    /\ seeds = <<>> /\ born = <<>> /\ clusterOf = <<>> /\ clusters = <<>>
    /\ gate = <<>> /\ influence = <<>> /\ turn = 0 /\ pending = NoTurn

CandidateLists == UNION {[1..n -> Candidate] : n \in 0..MaxCandidates}

Next ==
    \/ \E faded \in SUBSET DOMAIN seeds : \E matching \in SUBSET DOMAIN seeds :
           \E surfaced \in SUBSET DOMAIN seeds : Prepare(faded, matching, surfaced)
    \/ \E faded \in SUBSET DOMAIN seeds : PrepareFails(faded)
    \/ Abort
    \/ \E candidates \in CandidateLists : Observe(candidates) \/ ObserveFails(candidates)
    \/ \E id \in DOMAIN seeds :
           SubmitEvidence(id) \/ SubmitContradiction(id) \/ ResolveContradiction(id)

Spec == Init /\ [][Next]_vars

-----------------------------------------------------------------------------

TypeOK ==
    /\ DOMAIN seeds \subseteq Ids /\ \A id \in DOMAIN seeds : seeds[id] \in Seed
    /\ DOMAIN born \subseteq Ids /\ \A id \in DOMAIN born : born[id] \in Nat
    /\ DOMAIN clusterOf \subseteq Ids
    /\ \A id \in DOMAIN clusterOf : clusterOf[id] \in 1..Len(clusters)
    /\ \A c \in 1..Len(clusters) : clusters[c] \in Cluster
    /\ \A i \in 1..Len(gate) : gate[i] \in GateEvent
    /\ \A i \in 1..Len(influence) : influence[i] \in Influence
    /\ turn \in 0..MaxTurns /\ pending.surfaced \subseteq DOMAIN seeds

\* The context a host holds stays authorized until it observes or aborts: every
\* surfaced seed is still promoted, unblocked and at the version recorded for it
\* (overview.md: "the context returned to a host cannot become stale").
ContextStaysAuthorized ==
    \A id \in pending.surfaced :
        /\ seeds[id].status = "PROMOTED" /\ ~seeds[id].blocked
        /\ \E i \in 1..Len(influence) :
              influence[i] = [seed |-> id, version |-> seeds[id].version, turn |-> turn]

\* Every influence record belongs to a turn whose answer was observed or is still
\* awaited; nothing is recorded for an answer that never existed, and one turn
\* records a seed once, however often it was aborted and prepared again.
InfluenceWasAnswered ==
    /\ \A i \in 1..Len(influence) : influence[i].turn < turn \/ pending.open
    /\ \A i, j \in 1..Len(influence) :
          i # j => influence[i].seed # influence[j].seed \/ influence[i].turn # influence[j].turn

\* The Gate log never runs ahead of the seed it describes, also when turns that
\* failed half way were rolled back: an abort cannot undo a logged authority change.
LogNeverAhead ==
    \A i \in 1..Len(gate) :
        gate[i].seed \in DOMAIN seeds /\ gate[i].version <= seeds[gate[i].seed].version

\* What is on record happened: influence for answers that were observed, Gate events for
\* authority the seeds still have, also after turns that failed or were aborted.
RecordsStandForWork == TypeOK /\ InfluenceWasAnswered /\ LogNeverAhead

\* The recurrence that confirmed authority never exceeds the turns observed so far:
\* one credit per cluster and turn, whatever was retried, aborted or worded twice.
RecurrenceNeedsDistinctTurns ==
    \A i \in 1..Len(gate) : gate[i].recurrence <= gate[i].turn + 1

\* Within one cluster at most one living seed has ever been confirmed by recurrence.
OneRepresentativeEarns ==
    \A a, b \in Live(seeds) : a # b /\ a \in DOMAIN clusterOf /\ b \in DOMAIN clusterOf =>
        ~ /\ clusterOf[a] = clusterOf[b]
          /\ \A id \in {a, b} : \E i \in EventsOf(id) :
                gate[i].recurrence > 0 /\ gate[i].decision \in Confirming

\* A seed is confirmed by recurrence in a turn that did not observe its question in
\* two situations only: a contradiction had reset its count, or a failed attempt to
\* observe the turn had moved it.  _sync_cluster_recurrence then restores the count
\* of the cluster, and that change is offered to the Gate as recurrence.
QuietRiseIsExplained ==
    \A i \in 1..Len(gate) :
        /\ gate[i].recurrence > 0 /\ gate[i].decision \in Confirming
        /\ gate[i].seed \in DOMAIN clusterOf =>
              gate[i].turn \notin clusters[clusterOf[gate[i].seed]].refs
        => \/ gate[i].retried
           \/ \E j \in 1..(i - 1) :
                 gate[j].seed = gate[i].seed /\ gate[j].decision = "contradicted"

\* Authority by recurrence is earned once per turn, by one seed of a cluster, and in turns
\* that observed the question, but for the two situations named.
RecurrenceIsEarned ==
    RecurrenceNeedsDistinctTurns /\ OneRepresentativeEarns /\ QuietRiseIsExplained

\* Aborting a turn undoes the lifecycle work of its preparation, however often the answer
\* was half ingested in between, with one exception: abort_turn (docs/engine/README.md:
\* "rolls all of that work back") leaves the expiries decay_traces logged, of seeds that
\* live on.
AbortLeavesOnlyExpiries ==
    [][pending.open /\ ~pending'.open /\ turn' = turn =>
        /\ Len(influence') = pending.influenced
        /\ \A i \in (pending.logged + 1)..Len(gate') :
              /\ gate'[i].decision = "expired"
              /\ seeds'[gate'[i].seed] = pending.before[gate'[i].seed]
              /\ seeds'[gate'[i].seed].status # "EXPIRED"]_vars
=============================================================================

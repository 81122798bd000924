------------------------- MODULE ConversationProofs -------------------------
(***************************************************************************)
(* Proofs about Conversation for every set of questions, every threshold   *)
(* and every bound: what a host holds stays authorized, what is on record  *)
(* happened, and recurrence is earned.                                     *)
(*                                                                         *)
(* Ingestion and registration go through a list.  What they do to a list   *)
(* of any length is shown here by induction on its length, in the form of  *)
(* UpTo: a set of numbers that contains 0 and with each its successor.     *)
(***************************************************************************)
EXTENDS Conversation, FiniteSetTheorems, WellFoundedInduction, TLAPS

-----------------------------------------------------------------------------
(* Numbers, sequences and the order of the registry.                       *)

LEMMA UpTo ==
    ASSUME NEW n \in Nat, NEW S, 0 \in S,
           \A k \in 1..n : k - 1 \in S => k \in S
    PROVE  0..n \subseteq S
  <1> DEFINE T == (0..n) \ S
  <1> SUFFICES ASSUME T # {} PROVE FALSE
    OBVIOUS
  <1>1. T \subseteq Nat
    OBVIOUS
  <1>2. PICK x \in T : \A y \in T : ~(<<y, x>> \in OpToRel(<, Nat))
    BY <1>1, NatLessThanWellFounded, WFMin
  <1>3. x \in 1..n /\ x - 1 \in 0..n /\ x \notin S
    <2>1. x \in 0..n /\ x \notin S /\ x # 0
      OBVIOUS
    <2>2. QED
      BY <2>1
  <1>4. x - 1 \notin T
    <2>1. x \in Nat /\ x - 1 \in Nat /\ x - 1 < x
      BY <1>3
    <2>2. <<x - 1, x>> \in OpToRel(<, Nat)
      BY <2>1 DEF OpToRel
    <2>3. QED
      BY <1>2, <2>2
  <1>5. QED
    BY <1>3, <1>4

LEMMA InOrderIsOnto ==
    ASSUME NEW ids \in SUBSET Nat, IsFiniteSet(ids)
    PROVE  /\ Cardinality(ids) \in Nat
           /\ \A k \in 1..Cardinality(ids) : InOrder(ids)[k] \in ids
           /\ \A k, l \in 1..Cardinality(ids) :
                 k # l => InOrder(ids)[k] # InOrder(ids)[l]
           /\ \A id \in ids : \E k \in 1..Cardinality(ids) : InOrder(ids)[k] = id
  <1> DEFINE n == Cardinality(ids)
             Below(x) == {other \in ids : other <= x}
             rank == [x \in ids |-> Cardinality(Below(x))]
  <1>1. n \in Nat
    BY FS_CardinalityType
  <1>2. ASSUME NEW x \in ids
        PROVE  IsFiniteSet(Below(x)) /\ Cardinality(Below(x)) \in 1..n
    <2>1. Below(x) \subseteq ids /\ x \in Below(x)
      OBVIOUS
    <2>2. IsFiniteSet(Below(x)) /\ Cardinality(Below(x)) <= n
      BY <2>1, FS_Subset
    <2>3. Cardinality(Below(x)) \in Nat /\ Cardinality(Below(x)) # 0
      BY <2>1, <2>2, FS_CardinalityType, FS_EmptySet
    <2> HIDE DEF n, Below
    <2>4. QED
      BY <1>1, <2>2, <2>3
  <1>3. ASSUME NEW x \in ids, NEW y \in ids, x < y
        PROVE  rank[x] # rank[y]
    <2>1. Below(x) \subseteq Below(y) /\ y \in Below(y) /\ y \notin Below(x)
      <3>1. x \in Nat /\ y \in Nat /\ \A other \in ids : other \in Nat
        OBVIOUS
      <3>2. \A other \in ids : other <= x => other <= y
        BY <1>3, <3>1
      <3>3. y <= y /\ ~(y <= x)
        BY <1>3, <3>1
      <3>4. QED
        BY <3>2, <3>3
    <2>2. Cardinality(Below(x)) # Cardinality(Below(y))
      <3> HIDE DEF Below
      <3>1. QED
        BY <1>2, <2>1, FS_Subset
    <2>3. QED
      BY <2>2
  <1>4. rank \in [ids -> 1..n]
    <2> HIDE DEF n, Below
    <2>1. QED
      BY <1>2
  <1>5. rank \in Injection(ids, 1..n)
    <2>1. \A x, y \in ids : rank[x] = rank[y] => x = y
      <3>1. \A x, y \in ids : x < y \/ y < x \/ x = y
        OBVIOUS
      <3> HIDE DEF rank
      <3>2. QED
        BY <1>3, <3>1
    <2> HIDE DEF rank, n
    <2>2. QED
      BY <1>4, <2>1 DEF Injection, IsInjective
  <1>6. \A k \in 1..n : \E x \in ids : rank[x] = k
    <2>1. IsFiniteSet(1..n) /\ Cardinality(1..n) = n
      BY <1>1, FS_Interval
    <2> HIDE DEF rank
    <2>2. rank \in Surjection(ids, 1..n)
      BY <1>5, <2>1, FS_Injection
    <2>3. QED
      BY <2>2 DEF Surjection
  <1>7. \A k \in 1..n : InOrder(ids)[k] \in ids /\ rank[InOrder(ids)[k]] = k
    <2>1. SUFFICES ASSUME NEW k \in 1..n
                   PROVE  InOrder(ids)[k] \in ids /\ rank[InOrder(ids)[k]] = k
      OBVIOUS
    <2>2. \E x \in ids : Cardinality(Below(x)) = k
      BY <1>6
    <2>3. InOrder(ids)[k] = CHOOSE x \in ids : Cardinality(Below(x)) = k
      BY DEF InOrder
    <2> HIDE DEF Below
    <2>4. InOrder(ids)[k] \in ids /\ Cardinality(Below(InOrder(ids)[k])) = k
      BY <2>2, <2>3
    <2>5. QED
      BY <2>4
  <1>8. \A id \in ids : \E k \in 1..n : InOrder(ids)[k] = id
    <2> HIDE DEF n
    <2>1. SUFFICES ASSUME NEW id \in ids
                   PROVE  \E k \in 1..n : InOrder(ids)[k] = id
      OBVIOUS
    <2>2. rank[id] \in 1..n
      BY <1>4
    <2> HIDE DEF rank
    <2>3. InOrder(ids)[rank[id]] \in ids /\ rank[InOrder(ids)[rank[id]]] = rank[id]
      BY <1>7, <2>2
    <2>4. InOrder(ids)[rank[id]] = id
      BY <1>5, <2>3 DEF Injection, IsInjective
    <2>5. QED
      BY <2>2, <2>4
  <1> HIDE DEF rank
  <1>9. QED
    BY <1>1, <1>7, <1>8

-----------------------------------------------------------------------------
(* What is done to a list is done one by one.                              *)

IngestsTo(batch, candidates) ==
    /\ batch[0] = [seeds |-> seeds, accepted |-> <<>>]
    /\ \A k \in 1..Len(candidates) : batch[k] = Ingest(batch[k - 1], candidates[k])

LEMMA IngestedOneByOne ==
    ASSUME NEW candidates, Len(candidates) \in Nat
    PROVE  \E batch : /\ IngestsTo(batch, candidates)
                      /\ Ingested(candidates) = batch[Len(candidates)]
  <1> DEFINE n == Len(candidates)
             None == [seeds |-> seeds, accepted |-> <<>>]
             Steps(g, m) == [k \in 0..m |-> IF k = 0 THEN None
                                            ELSE Ingest(g[k - 1], candidates[k])]
             S == {m \in 0..n : \E g : g = Steps(g, m)}
  <1>1. 0 \in S
    <2> DEFINE g == [k \in 0..0 |-> None]
    <2>1. \A k \in 0..0 : k = 0
      OBVIOUS
    <2>2. g = Steps(g, 0)
      BY <2>1
    <2> HIDE DEF g, Steps
    <2>3. QED
      BY <2>2
  <1>2. ASSUME NEW m \in 1..n, m - 1 \in S
        PROVE  m \in S
    <2>1. PICK g : g = Steps(g, m - 1)
      BY <1>2
    <2> DEFINE h == [k \in 0..m |-> IF k < m THEN g[k] ELSE Ingest(g[m - 1], candidates[m])]
    <2>2. \A k \in 0..(m - 1) : g[k] = IF k = 0 THEN None ELSE Ingest(g[k - 1], candidates[k])
      BY <2>1
    <2>3. ASSUME NEW k \in 0..m
          PROVE  h[k] = IF k = 0 THEN None ELSE Ingest(h[k - 1], candidates[k])
      <3>1. CASE k = 0
        BY <2>2, <3>1
      <3>2. CASE k # 0
        <4>1. k \in 1..m /\ k - 1 \in 0..(m - 1) /\ k - 1 < m
          BY <3>2
        <4>2. h[k - 1] = g[k - 1]
          BY <4>1
        <4>3. CASE k < m
          <5>1. k \in 0..(m - 1) /\ h[k] = g[k]
            BY <4>1, <4>3
          <5> HIDE DEF h
          <5>2. QED
            BY <2>2, <3>2, <4>2, <5>1
        <4>4. CASE k = m
          <5>1. h[k] = Ingest(g[m - 1], candidates[m])
            BY <4>4
          <5> HIDE DEF h
          <5>2. QED
            BY <3>2, <4>2, <4>4, <5>1
        <4>5. QED
          BY <4>1, <4>3, <4>4
      <3>3. QED
        BY <3>1, <3>2
    <2>4. h = [k \in 0..m |-> h[k]]
      OBVIOUS
    <2> HIDE DEF h
    <2>5. h = Steps(h, m)
      BY <2>3, <2>4
    <2>6. QED
      BY <2>5
  <1>3. n \in S
    <2> HIDE DEF S
    <2>1. 0..n \subseteq S
      BY <1>1, <1>2, UpTo
    <2>2. QED
      BY <2>1
  <1> DEFINE batch == CHOOSE g : g = Steps(g, n)
  <1>4. batch = Steps(batch, n)
    <2>1. \E g : g = Steps(g, n)
      BY <1>3
    <2> HIDE DEF Steps
    <2>2. QED
      BY <2>1
  <1>5. Ingested(candidates) = batch[n]
    BY DEF Ingested
  <1> HIDE DEF batch
  <1>6. \A k \in 0..n : batch[k] = IF k = 0 THEN None ELSE Ingest(batch[k - 1], candidates[k])
    BY <1>4
  <1>7. IngestsTo(batch, candidates)
    BY <1>6 DEF IngestsTo
  <1>8. QED
    BY <1>5, <1>7

RegistersTo(state, batch) ==
    /\ state[0] = [of |-> clusterOf, clusters |-> clusters, seeds |-> batch.seeds]
    /\ \A k \in 1..Len(batch.accepted) :
          state[k] = Register(state[k - 1], batch.accepted[k])

LEMMA RegisteredOneByOne ==
    ASSUME NEW batch, Len(batch.accepted) \in Nat
    PROVE  \E state : /\ RegistersTo(state, batch)
                      /\ Registered(batch) = state[Len(batch.accepted)]
  <1> DEFINE n == Len(batch.accepted)
             None == [of |-> clusterOf, clusters |-> clusters, seeds |-> batch.seeds]
             Steps(g, m) == [k \in 0..m |-> IF k = 0 THEN None
                                            ELSE Register(g[k - 1], batch.accepted[k])]
             S == {m \in 0..n : \E g : g = Steps(g, m)}
  <1>1. 0 \in S
    <2> DEFINE g == [k \in 0..0 |-> None]
    <2>1. \A k \in 0..0 : k = 0
      OBVIOUS
    <2>2. g = Steps(g, 0)
      BY <2>1
    <2> HIDE DEF g, Steps
    <2>3. QED
      BY <2>2
  <1>2. ASSUME NEW m \in 1..n, m - 1 \in S
        PROVE  m \in S
    <2>1. PICK g : g = Steps(g, m - 1)
      BY <1>2
    <2> DEFINE h == [k \in 0..m |-> IF k < m THEN g[k] ELSE Register(g[m - 1], batch.accepted[m])]
    <2>2. \A k \in 0..(m - 1) : g[k] = IF k = 0 THEN None ELSE Register(g[k - 1], batch.accepted[k])
      BY <2>1
    <2>3. ASSUME NEW k \in 0..m
          PROVE  h[k] = IF k = 0 THEN None ELSE Register(h[k - 1], batch.accepted[k])
      <3>1. CASE k = 0
        BY <2>2, <3>1
      <3>2. CASE k # 0
        <4>1. k \in 1..m /\ k - 1 \in 0..(m - 1) /\ k - 1 < m
          BY <3>2
        <4>2. h[k - 1] = g[k - 1]
          BY <4>1
        <4>3. CASE k < m
          <5>1. k \in 0..(m - 1) /\ h[k] = g[k]
            BY <4>1, <4>3
          <5> HIDE DEF h
          <5>2. QED
            BY <2>2, <3>2, <4>2, <5>1
        <4>4. CASE k = m
          <5>1. h[k] = Register(g[m - 1], batch.accepted[m])
            BY <4>4
          <5> HIDE DEF h
          <5>2. QED
            BY <3>2, <4>2, <4>4, <5>1
        <4>5. QED
          BY <4>1, <4>3, <4>4
      <3>3. QED
        BY <3>1, <3>2
    <2>4. h = [k \in 0..m |-> h[k]]
      OBVIOUS
    <2> HIDE DEF h
    <2>5. h = Steps(h, m)
      BY <2>3, <2>4
    <2>6. QED
      BY <2>5
  <1>3. n \in S
    <2> HIDE DEF S
    <2>1. 0..n \subseteq S
      BY <1>1, <1>2, UpTo
    <2>2. QED
      BY <2>1
  <1> DEFINE state == CHOOSE g : g = Steps(g, n)
  <1>4. state = Steps(state, n)
    <2>1. \E g : g = Steps(g, n)
      BY <1>3
    <2> HIDE DEF Steps
    <2>2. QED
      BY <2>1
  <1>5. Registered(batch) = state[n]
    BY DEF Registered
  <1> HIDE DEF state
  <1>6. \A k \in 0..n : state[k] = IF k = 0 THEN None ELSE Register(state[k - 1], batch.accepted[k])
    BY <1>4
  <1>7. RegistersTo(state, batch)
    BY <1>6 DEF RegistersTo
  <1>8. QED
    BY <1>5, <1>7

-----------------------------------------------------------------------------
(* Ingestion.                                                              *)

Registries == UNION {[1..n -> Seed] : n \in Nat}

\* What neither a detection nor ageing changes of a seed.
SameAuthority(old, new) ==
    /\ new.topic = old.topic /\ new.weight = old.weight
    /\ new.blocked = old.blocked /\ new.version = old.version
    /\ new.status = "EXPIRED" <=> old.status = "EXPIRED"

Grown(old, new) ==
    /\ DOMAIN old \subseteq DOMAIN new
    /\ \A id \in DOMAIN old : SameAuthority(old[id], new[id])

AcceptedIds(batch) == {batch.accepted[k].id : k \in 1..Len(batch.accepted)}

AcceptedOf(ss) == [id : DOMAIN ss, recognized : BOOLEAN]

\* A batch under way: seeds are only reinforced or new, and those are the accepted ones.
BatchInv(batch) ==
    /\ batch.seeds \in Registries
    /\ batch.accepted \in Seq(AcceptedOf(batch.seeds))
    /\ Grown(seeds, batch.seeds)
    /\ \A id \in DOMAIN batch.seeds :
          \/ id \in AcceptedIds(batch)
          \/ id \in DOMAIN seeds /\ batch.seeds[id] = seeds[id]

LEMMA RegistryDomain ==
    ASSUME NEW ss \in Registries
    PROVE  \E n \in Nat : ss \in [1..n -> Seed] /\ DOMAIN ss = 1..n
  BY DEF Registries

LEMMA RegistryIs ==
    ASSUME NEW n \in Nat, NEW ss \in [1..n -> Seed]
    PROVE  ss \in Registries
  BY DEF Registries

\* The registry gives out the number after the last.
LEMMA NewIdIsNext ==
    ASSUME NEW n \in Nat, NEW ss \in [1..n -> Seed]
    PROVE  NewId(ss) = n + 1
  <1>1. CASE n = 0
    <2>1. DOMAIN ss = {}
      BY <1>1
    <2>2. QED
      BY <1>1, <2>1 DEF NewId
  <1>2. CASE n # 0
    <2>1. DOMAIN ss = 1..n /\ n \in 1..n
      BY <1>2
    <2> DEFINE last == CHOOSE id \in 1..n : \A other \in 1..n : other <= id
    <2>2. last \in 1..n /\ \A other \in 1..n : other <= last
      <3>1. \E id \in 1..n : \A other \in 1..n : other <= id
        BY <2>1
      <3>2. QED
        BY <3>1
    <2>3. NewId(ss) = 1 + last
      <3>1. DOMAIN ss # {}
        BY <2>1
      <3>2. QED
        BY <2>1, <3>1 DEF NewId
    <2> HIDE DEF last
    <2>4. last = n
      BY <2>1, <2>2
    <2>5. QED
      BY <2>3, <2>4
  <1>3. QED
    BY <1>1, <1>2

LEMMA RedetectedKeeps ==
    ASSUME NEW seed \in Seed, seed.status # "EXPIRED"
    PROVE  Redetected(seed) \in Seed /\ SameAuthority(seed, Redetected(seed))
  <1> DEFINE st == IF seed.status = "PROMOTED" THEN "PROMOTED" ELSE "OPEN"
             oc == seed.occurrences + 1
  <1>1. st \in {"OPEN", "PROMOTED"}
    OBVIOUS
  <1>2. oc \in Nat
    BY DEF Seed
  <1>3. Redetected(seed) = [seed EXCEPT !.occurrences = oc, !.dormant = 0, !.status = st]
    BY DEF Redetected
  <1> HIDE DEF st, oc
  <1>4. Redetected(seed) \in Seed
    <2>1. [seed EXCEPT !.occurrences = oc] \in Seed
      BY <1>2 DEF Seed
    <2>2. [seed EXCEPT !.occurrences = oc, !.dormant = 0] \in Seed
      BY <2>1 DEF Seed
    <2>3. [seed EXCEPT !.occurrences = oc, !.dormant = 0, !.status = st] \in Seed
      BY <1>1, <2>2 DEF Seed
    <2>4. QED
      BY <1>3, <2>3
  <1>5. SameAuthority(seed, Redetected(seed))
    BY <1>1, <1>3 DEF Seed, SameAuthority
  <1>6. QED
    BY <1>4, <1>5

LEMMA NewSeedIsSeed ==
    ASSUME NEW topic \in Topics
    PROVE  NewSeed(topic) \in Seed
  BY DEF NewSeed, Seed

LEMMA SameAuthorityIsReflexive ==
    ASSUME NEW seed
    PROVE  SameAuthority(seed, seed)
  BY DEF SameAuthority

LEMMA SameAuthorityIsTransitive ==
    ASSUME NEW a, NEW b, NEW c, SameAuthority(a, b), SameAuthority(b, c)
    PROVE  SameAuthority(a, c)
  BY DEF SameAuthority

LEMMA GrownIsTransitive ==
    ASSUME NEW a, NEW b, NEW c, Grown(a, b), Grown(b, c)
    PROVE  Grown(a, c)
  BY SameAuthorityIsTransitive DEF Grown

LEMMA GrownIsReflexive ==
    ASSUME NEW a
    PROVE  Grown(a, a)
  BY SameAuthorityIsReflexive DEF Grown

\* Of some numbers one is the first.
LEMMA SomeIsFirst ==
    ASSUME NEW S \in SUBSET Nat, S # {}
    PROVE  \E i \in S : \A j \in S : i <= j
  <1>1. PICK x \in S : \A y \in S : ~(<<y, x>> \in OpToRel(<, Nat))
    BY NatLessThanWellFounded, WFMin
  <1>2. ASSUME NEW y \in S PROVE x <= y
    <2>1. x \in Nat /\ y \in Nat
      OBVIOUS
    <2>2. ~(y < x)
      BY <1>1, <2>1 DEF OpToRel
    <2>3. QED
      BY <2>1, <2>2
  <1>3. QED
    BY <1>2

LEMMA IngestKeeps ==
    ASSUME NEW batch, BatchInv(batch), NEW candidate \in Candidate
    PROVE  BatchInv(Ingest(batch, candidate))
  <1>1. PICK n \in Nat : batch.seeds \in [1..n -> Seed] /\ DOMAIN batch.seeds = 1..n
    BY RegistryDomain DEF BatchInv
  <1>2. batch.accepted \in Seq(AcceptedOf(batch.seeds)) /\ Grown(seeds, batch.seeds)
    BY DEF BatchInv
  <1>3. candidate.topic \in Topics /\ candidate.matches \in BOOLEAN /\ candidate.recognized \in BOOLEAN
    BY DEF Candidate
  <1> DEFINE same == {id \in Live(batch.seeds) : batch.seeds[id].topic = candidate.topic}
             match == CHOOSE id \in same : \A other \in same : id <= other
             fresh == NewId(batch.seeds)
             after == Ingest(batch, candidate)
  <1>4. same \subseteq 1..n /\ \A id \in same : batch.seeds[id].status # "EXPIRED"
    BY <1>1 DEF Live
  <1>5. CASE candidate.matches /\ same # {}
    <2>1. match \in same
      <3>1. same \subseteq Nat
        BY <1>4
      <3>2. \E id \in same : \A other \in same : id <= other
        BY <1>5, <3>1, SomeIsFirst
      <3> HIDE DEF same
      <3>3. QED
        BY <3>2
    <2>2. CASE \E k \in 1..Len(batch.accepted) : batch.accepted[k].id = match
      <3>1. after = batch
        BY <1>5, <2>2 DEF Ingest
      <3>2. QED
        BY <3>1
    <2>3. CASE ~ \E k \in 1..Len(batch.accepted) : batch.accepted[k].id = match
      <3> DEFINE changed == [batch.seeds EXCEPT ![match] = Redetected(batch.seeds[match])]
                 new == [id |-> match, recognized |-> candidate.recognized]
      <3>1. after = [seeds |-> changed, accepted |-> Append(batch.accepted, new)]
        BY <1>5, <2>3 DEF Ingest
      <3>2. match \in 1..n /\ batch.seeds[match].status # "EXPIRED"
        BY <1>4, <2>1
      <3> HIDE DEF match, same
      <3>3. batch.seeds[match] \in Seed
        BY <1>1, <3>2
      <3>4. /\ Redetected(batch.seeds[match]) \in Seed
            /\ SameAuthority(batch.seeds[match], Redetected(batch.seeds[match]))
        BY <3>2, <3>3, RedetectedKeeps
      <3>5. /\ changed \in [1..n -> Seed]
            /\ changed[match] = Redetected(batch.seeds[match])
            /\ \A id \in 1..n : id # match => changed[id] = batch.seeds[id]
        BY <1>1, <3>2, <3>4
      <3> HIDE DEF changed
      <3>6. Grown(batch.seeds, changed)
        <4>1. DOMAIN changed = 1..n
          BY <3>5
        <4>2. \A id \in 1..n : SameAuthority(batch.seeds[id], changed[id])
          BY <3>4, <3>5, SameAuthorityIsReflexive
        <4>3. QED
          BY <1>1, <4>1, <4>2 DEF Grown
      <3>7. new \in AcceptedOf(changed) /\ AcceptedOf(changed) = AcceptedOf(batch.seeds)
        BY <1>1, <1>3, <3>2, <3>5 DEF AcceptedOf
      <3>8. Append(batch.accepted, new) \in Seq(AcceptedOf(changed))
        BY <1>2, <3>7
      <3>9. AcceptedIds(after) = AcceptedIds(batch) \cup {match}
        <4>1. /\ Len(after.accepted) = Len(batch.accepted) + 1 /\ Len(batch.accepted) \in Nat
              /\ after.accepted[Len(batch.accepted) + 1] = new
              /\ \A k \in 1..Len(batch.accepted) : after.accepted[k] = batch.accepted[k]
          BY <1>2, <3>1
        <4>2. 1..Len(after.accepted) = 1..Len(batch.accepted) \cup {Len(batch.accepted) + 1}
          BY <4>1
        <4> HIDE DEF after
        <4>3. new.id = match
          OBVIOUS
        <4> HIDE DEF new
        <4>4. QED
          BY SMTT(20), <4>1, <4>2, <4>3 DEF AcceptedIds
      <3>10. \A id \in 1..n : \/ id \in AcceptedIds(after)
                              \/ id \in DOMAIN seeds /\ changed[id] = seeds[id]
        BY <1>1, <3>5, <3>9 DEF BatchInv
      <3>11. after.seeds = changed /\ after.accepted = Append(batch.accepted, new)
        BY <3>1
      <3>12. changed \in Registries /\ DOMAIN changed = 1..n /\ Grown(seeds, changed)
        BY <1>2, <3>5, <3>6, RegistryIs, GrownIsTransitive
      <3> HIDE DEF after, new
      <3>13. BatchInv(after)
        BY <3>8, <3>10, <3>11, <3>12 DEF BatchInv
      <3>14. QED
        BY <3>13 DEF after
    <2>4. QED
      BY <2>2, <2>3
  <1>6. CASE ~(candidate.matches /\ same # {})
    <2> DEFINE grown == Extended(batch.seeds, fresh, NewSeed(candidate.topic))
               new == [id |-> fresh, recognized |-> candidate.recognized]
    <2>1. after = [seeds |-> grown, accepted |-> Append(batch.accepted, new)]
      BY <1>6 DEF Ingest
    <2>2. fresh = n + 1
      BY <1>1, NewIdIsNext
    <2> HIDE DEF fresh, same
    <2>3. NewSeed(candidate.topic) \in Seed
      BY <1>3, NewSeedIsSeed
    <2>4. /\ grown \in [1..(n + 1) -> Seed]
          /\ \A id \in 1..n : grown[id] = batch.seeds[id]
      <3>1. 1..(n + 1) = 1..n \cup {n + 1} /\ n + 1 \notin 1..n
        OBVIOUS
      <3>2. QED
        BY <1>1, <2>2, <2>3, <3>1 DEF Extended
    <2> HIDE DEF grown
    <2>5. Grown(batch.seeds, grown)
      <3>1. DOMAIN grown = 1..(n + 1)
        BY <2>4
      <3>2. \A id \in 1..n : SameAuthority(batch.seeds[id], grown[id])
        BY <2>4, SameAuthorityIsReflexive
      <3>3. QED
        BY <1>1, <3>1, <3>2 DEF Grown
    <2>6. new \in AcceptedOf(grown) /\ AcceptedOf(batch.seeds) \subseteq AcceptedOf(grown)
      BY <1>1, <1>3, <2>2, <2>4 DEF AcceptedOf
    <2>7. Append(batch.accepted, new) \in Seq(AcceptedOf(grown))
      <3>1. batch.accepted \in Seq(AcceptedOf(grown))
        BY <1>2, <2>6
      <3>2. QED
        BY <2>6, <3>1
    <2>8. AcceptedIds(after) = AcceptedIds(batch) \cup {fresh}
      <3>1. /\ Len(after.accepted) = Len(batch.accepted) + 1 /\ Len(batch.accepted) \in Nat
            /\ after.accepted[Len(batch.accepted) + 1] = new
            /\ \A k \in 1..Len(batch.accepted) : after.accepted[k] = batch.accepted[k]
        BY <1>2, <2>1
      <3>2. 1..Len(after.accepted) = 1..Len(batch.accepted) \cup {Len(batch.accepted) + 1}
        BY <3>1
      <3> HIDE DEF after
      <3>3. new.id = fresh
        OBVIOUS
      <3> HIDE DEF new
      <3>4. QED
        BY SMTT(20), <3>1, <3>2, <3>3 DEF AcceptedIds
    <2>9. \A id \in 1..(n + 1) : \/ id \in AcceptedIds(after)
                                 \/ id \in DOMAIN seeds /\ grown[id] = seeds[id]
      <3>1. \A id \in 1..(n + 1) : id \in 1..n \/ id = fresh
        BY <2>2
      <3> HIDE DEF after
      <3>2. QED
        BY <1>1, <2>4, <2>8, <3>1 DEF BatchInv
    <2>10. after.seeds = grown /\ after.accepted = Append(batch.accepted, new)
      BY <2>1
    <2>11. grown \in Registries /\ DOMAIN grown = 1..(n + 1) /\ Grown(seeds, grown)
      BY <1>2, <2>4, <2>5, RegistryIs, GrownIsTransitive
    <2> HIDE DEF after, new
    <2>12. BatchInv(after)
      BY <2>7, <2>9, <2>10, <2>11 DEF BatchInv
    <2>13. QED
      BY <2>12 DEF after
  <1>7. QED
    BY <1>5, <1>6

\* Whatever was detected, ingestion leaves every seed its authority.
LEMMA IngestionKeeps ==
    ASSUME seeds \in Registries, NEW candidates \in Seq(Candidate)
    PROVE  BatchInv(Ingested(candidates))
  <1>1. Len(candidates) \in Nat /\ \A k \in 1..Len(candidates) : candidates[k] \in Candidate
    OBVIOUS
  <1>2. PICK batch : /\ IngestsTo(batch, candidates)
                     /\ Ingested(candidates) = batch[Len(candidates)]
    BY <1>1, IngestedOneByOne
  <1> DEFINE S == {k \in 0..Len(candidates) : BatchInv(batch[k])}
  <1>3. 0 \in S
    <2>1. batch[0].seeds = seeds /\ batch[0].accepted = <<>>
      BY <1>2 DEF IngestsTo
    <2>2. BatchInv(batch[0])
      BY <2>1, GrownIsReflexive DEF BatchInv
    <2>3. QED
      BY <1>1, <2>2
  <1>4. ASSUME NEW k \in 1..Len(candidates), k - 1 \in S
        PROVE  k \in S
    <2>1. batch[k] = Ingest(batch[k - 1], candidates[k])
      BY <1>2 DEF IngestsTo
    <2>2. BatchInv(batch[k])
      BY <1>1, <1>4, <2>1, IngestKeeps
    <2>3. QED
      BY <1>1, <2>2
  <1>5. 0..Len(candidates) \subseteq S
    <2> HIDE DEF S
    <2>1. QED
      BY <1>1, <1>3, <1>4, UpTo
  <1>6. QED
    BY <1>1, <1>2, <1>5

-----------------------------------------------------------------------------
(* Registration.                                                           *)

\* Clusters that count the turns up to last, each led by one of its own seeds.
ClustersOK(of, cs, last) ==
    /\ of \in [DOMAIN of -> 1..Len(cs)] /\ cs \in Seq(Cluster)
    /\ \A c \in 1..Len(cs) :
          /\ cs[c].refs \subseteq 0..last /\ cs[c].count = Cardinality(cs[c].refs)
          /\ cs[c].rep \in DOMAIN of /\ of[cs[c].rep] = c

\* What registration leaves of the seeds of a batch.
SeedsKept(st, batch) ==
    /\ st.seeds \in Registries /\ DOMAIN st.seeds = DOMAIN batch.seeds
    /\ \A id \in DOMAIN batch.seeds :
          /\ SameAuthority(batch.seeds[id], st.seeds[id])
          /\ st.seeds[id].occurrences = batch.seeds[id].occurrences

\* What it leaves of the clusters there were.
ClustersKept(st, batch) ==
    /\ DOMAIN clusterOf \subseteq DOMAIN st.of /\ DOMAIN st.of \subseteq DOMAIN batch.seeds
    /\ \A id \in DOMAIN clusterOf : st.of[id] = clusterOf[id]
    /\ \A id \in DOMAIN st.of \ DOMAIN clusterOf : turn \in st.clusters[st.of[id]].refs
    /\ Len(clusters) <= Len(st.clusters)
    /\ \A c \in 1..Len(clusters) :
          /\ clusters[c].refs \subseteq st.clusters[c].refs
          /\ turn \notin st.clusters[c].refs => /\ st.clusters[c].count = clusters[c].count
                                               /\ st.clusters[c].rep = clusters[c].rep
          /\ ~NeedsReplacing(batch.seeds, clusters[c].rep) =>
                st.clusters[c].rep = clusters[c].rep

StateInv(st, batch) ==
    SeedsKept(st, batch) /\ ClustersOK(st.of, st.clusters, turn) /\ ClustersKept(st, batch)

LEMMA HomeIsCluster ==
    ASSUME NEW st, ClustersOK(st.of, st.clusters, turn), NEW accepted
    PROVE  /\ Home(st, accepted) \in 1..(Len(st.clusters) + 1)
           /\ accepted.id \in DOMAIN st.of => Home(st, accepted) = st.of[accepted.id]
           /\ Len(st.clusters) \in Nat
  <1> DEFINE alike == {c \in 1..Len(st.clusters) :
                          st.clusters[c].topic = st.seeds[accepted.id].topic}
             first == CHOOSE c \in alike : \A other \in alike : c <= other
  <1>1. Len(st.clusters) \in Nat /\ st.of \in [DOMAIN st.of -> 1..Len(st.clusters)]
    BY DEF ClustersOK
  <1>2. alike # {} => first \in 1..Len(st.clusters)
    <2>1. alike \subseteq Nat /\ alike \subseteq 1..Len(st.clusters)
      OBVIOUS
    <2> HIDE DEF alike
    <2>2. alike # {} => \E c \in alike : \A other \in alike : c <= other
      BY <2>1, SomeIsFirst
    <2>3. QED
      BY <2>1, <2>2
  <1>3. Home(st, accepted) = IF accepted.id \in DOMAIN st.of THEN st.of[accepted.id]
                             ELSE IF accepted.recognized /\ alike # {} THEN first
                             ELSE Len(st.clusters) + 1
    BY DEF Home
  <1> HIDE DEF alike, first
  <1>4. QED
    BY <1>1, <1>2, <1>3

LEMMA CreditedIsCounted ==
    ASSUME turn \in Nat, NEW cluster \in Cluster, cluster.refs \subseteq 0..turn,
           cluster.count = Cardinality(cluster.refs)
    PROVE  /\ Credited(cluster) \in Cluster
           /\ Credited(cluster).rep = cluster.rep
           /\ Credited(cluster).refs = cluster.refs \cup {turn}
           /\ Credited(cluster).count = Cardinality(cluster.refs \cup {turn})
  <1>1. IsFiniteSet(cluster.refs) /\ cluster.refs \in SUBSET Nat /\ cluster.count \in Nat
    <2>1. IsFiniteSet(0..turn)
      BY FS_Interval
    <2>2. QED
      BY <2>1, FS_Subset DEF Cluster
  <1>2. CASE turn \in cluster.refs
    <2>1. cluster.refs \cup {turn} = cluster.refs
      BY <1>2
    <2>2. QED
      BY <1>2, <2>1 DEF Credited
  <1>3. CASE turn \notin cluster.refs
    <2> DEFINE refs == cluster.refs \cup {turn}
               count == cluster.count + 1
    <2>1. Cardinality(refs) = count
      BY <1>1, <1>3, FS_AddElement
    <2>2. refs \in SUBSET Nat /\ count \in Nat
      BY <1>1
    <2>3. Credited(cluster) = [cluster EXCEPT !.refs = refs, !.count = count]
      BY <1>3 DEF Credited
    <2> HIDE DEF refs, count
    <2>4. [cluster EXCEPT !.refs = refs] \in Cluster
      BY <2>2 DEF Cluster
    <2>5. [cluster EXCEPT !.refs = refs, !.count = count] \in Cluster
      BY <2>2, <2>4 DEF Cluster
    <2>6. /\ Credited(cluster).rep = cluster.rep /\ Credited(cluster).refs = refs
          /\ Credited(cluster).count = count
      BY <2>3 DEF Cluster
    <2>7. QED
      BY <2>1, <2>3, <2>5, <2>6 DEF refs
  <1>4. QED
    BY <1>2, <1>3

LEMMA NewClusterIsCounted ==
    ASSUME turn \in Nat, NEW id \in Ids, NEW topic \in Topics
    PROVE  /\ NewCluster(id, topic) \in Cluster
           /\ NewCluster(id, topic).rep = id
           /\ NewCluster(id, topic).refs = {turn}
           /\ NewCluster(id, topic).count = Cardinality({turn})
  BY FS_Singleton DEF NewCluster, Cluster

LEMMA RefreshedKeeps ==
    ASSUME NEW seed \in Seed, seed.status # "EXPIRED"
    PROVE  /\ Refreshed(seed) \in Seed /\ SameAuthority(seed, Refreshed(seed))
           /\ Refreshed(seed).occurrences = seed.occurrences
  <1> DEFINE st == IF seed.status = "PROMOTED" THEN "PROMOTED" ELSE "OPEN"
  <1>1. st \in {"OPEN", "PROMOTED"}
    OBVIOUS
  <1>2. Refreshed(seed) = [seed EXCEPT !.dormant = 0, !.status = st]
    BY DEF Refreshed
  <1> HIDE DEF st
  <1>3. [seed EXCEPT !.dormant = 0] \in Seed
    BY DEF Seed
  <1>4. [seed EXCEPT !.dormant = 0, !.status = st] \in Seed
    BY <1>1, <1>3 DEF Seed
  <1>5. SameAuthority(seed, Refreshed(seed)) /\ Refreshed(seed).occurrences = seed.occurrences
    BY <1>1, <1>2 DEF Seed, SameAuthority
  <1>6. QED
    BY <1>2, <1>4, <1>5

LEMMA RegisterKeeps ==
    ASSUME turn \in Nat, Len(clusters) \in Nat,
           NEW batch, DOMAIN batch.seeds \subseteq Ids,
           NEW st, StateInv(st, batch), NEW accepted \in AcceptedOf(batch.seeds)
    PROVE  LET new == Register(st, accepted)
           IN  /\ StateInv(new, batch) /\ accepted.id \in DOMAIN new.of
               /\ DOMAIN st.of \subseteq DOMAIN new.of
  <1> DEFINE id == accepted.id
             c == Home(st, accepted)
             L == Len(st.clusters)
             credited == IF c > L
                         THEN Append(st.clusters, NewCluster(id, st.seeds[id].topic))
                         ELSE [st.clusters EXCEPT ![c] = Credited(st.clusters[c])]
             rep == credited[c].rep
             replace == NeedsReplacing(st.seeds, rep)
             of == Extended(st.of, id, c)
             cs == IF replace THEN [credited EXCEPT ![c].rep = id] ELSE credited
             ss == IF replace \/ rep = id THEN st.seeds
                   ELSE [st.seeds EXCEPT ![rep] = Refreshed(st.seeds[rep])]
             m == IF c > L THEN L + 1 ELSE L
             new == Register(st, accepted)
  <1>1. new = [of |-> of, clusters |-> cs, seeds |-> ss]
    BY DEF Register
  <1>2. /\ c \in 1..(L + 1) /\ L \in Nat
        /\ id \in DOMAIN st.of => c = st.of[id]
    BY HomeIsCluster DEF StateInv
  <1>3. /\ st.of \in [DOMAIN st.of -> 1..L] /\ st.clusters \in Seq(Cluster)
        /\ \A d \in 1..L :
              /\ st.clusters[d] \in Cluster /\ st.clusters[d].refs \subseteq 0..turn
              /\ st.clusters[d].count = Cardinality(st.clusters[d].refs)
              /\ st.clusters[d].rep \in DOMAIN st.of /\ st.of[st.clusters[d].rep] = d
    BY DEF StateInv, ClustersOK
  <1>4. /\ id \in DOMAIN batch.seeds /\ id \in Ids
        /\ DOMAIN st.seeds = DOMAIN batch.seeds /\ DOMAIN st.of \subseteq DOMAIN batch.seeds
    BY DEF AcceptedOf, StateInv, SeedsKept, ClustersKept
  <1>5. PICK n \in Nat : st.seeds \in [1..n -> Seed] /\ DOMAIN st.seeds = 1..n
    BY RegistryDomain DEF StateInv, SeedsKept
  <1> HIDE DEF c
  <1>6. /\ DOMAIN of = DOMAIN st.of \cup {id} /\ of[id] = c
        /\ \A z \in DOMAIN st.of : of[z] = st.of[z]
    BY <1>2 DEF Extended
  <1> HIDE DEF of
  <1>7. m \in Nat /\ c \in 1..m /\ L <= m /\ \A d \in 1..m : d = c \/ d \in 1..L
    BY <1>2
  <1>8. /\ credited \in Seq(Cluster) /\ Len(credited) = m
        /\ \A d \in 1..L : d # c => credited[d] = st.clusters[d]
        /\ credited[c] \in Cluster /\ credited[c].refs \subseteq 0..turn
        /\ turn \in credited[c].refs
        /\ credited[c].count = Cardinality(credited[c].refs)
        /\ rep \in DOMAIN of /\ of[rep] = c
        /\ c \in 1..L => /\ st.clusters[c].refs \subseteq credited[c].refs
                         /\ rep = st.clusters[c].rep
        /\ c \notin 1..L => rep = id
    <2>1. CASE c > L
      <3> DEFINE topic == st.seeds[id].topic
                 fresh == NewCluster(id, topic)
      <3>1. c = L + 1 /\ m = L + 1 /\ c \notin 1..L
        BY <1>2, <2>1
      <3>2. topic \in Topics
        BY <1>4, <1>5 DEF Seed
      <3>3. /\ fresh \in Cluster /\ fresh.rep = id /\ fresh.refs = {turn}
            /\ fresh.count = Cardinality({turn})
        <4>1. id \in Ids
          BY <1>4
        <4> HIDE DEF id, topic
        <4>2. QED
          BY <3>2, <4>1, NewClusterIsCounted, Zenon
      <3>4. credited = Append(st.clusters, fresh)
        BY <2>1
      <3> HIDE DEF fresh
      <3>5. /\ credited \in Seq(Cluster) /\ Len(credited) = L + 1
            /\ credited[L + 1] = fresh
            /\ \A d \in 1..L : credited[d] = st.clusters[d]
        BY <1>2, <1>3, <3>3, <3>4
      <3>6. rep = id
        BY <3>1, <3>3, <3>5
      <3>7. {turn} \subseteq 0..turn
        OBVIOUS
      <3>8. /\ Len(credited) = m
            /\ \A d \in 1..L : d # c => credited[d] = st.clusters[d]
            /\ credited[c] = fresh
        BY <3>1, <3>5
      <3> HIDE DEF credited, m, rep, id
      <3>9. QED
        BY <1>6, <3>1, <3>3, <3>5, <3>6, <3>7, <3>8
    <2>2. CASE ~(c > L)
      <3>1. c \in 1..L /\ m = L
        BY <1>2, <2>2
      <3> DEFINE raised == Credited(st.clusters[c])
      <3>2. /\ raised \in Cluster /\ raised.rep = st.clusters[c].rep
            /\ raised.refs = st.clusters[c].refs \cup {turn}
            /\ raised.count = Cardinality(st.clusters[c].refs \cup {turn})
        BY <1>3, <3>1, CreditedIsCounted
      <3>3. credited = [st.clusters EXCEPT ![c] = raised]
        BY <2>2
      <3> HIDE DEF raised
      <3>4. /\ credited \in Seq(Cluster) /\ Len(credited) = L /\ credited[c] = raised
            /\ \A d \in 1..L : d # c => credited[d] = st.clusters[d]
        BY <1>2, <1>3, <3>1, <3>2, <3>3
      <3>5. rep = st.clusters[c].rep
        BY <3>2, <3>4
      <3>6. rep \in DOMAIN of /\ of[rep] = c
        BY <1>3, <1>6, <3>1, <3>5
      <3>7. raised.refs \subseteq 0..turn /\ turn \in raised.refs
        BY <1>3, <3>1, <3>2
      <3> HIDE DEF credited, m, rep
      <3>8. QED
        BY <3>1, <3>2, <3>4, <3>5, <3>6, <3>7
    <2>3. QED
      BY <2>1, <2>2
  <1> HIDE DEF credited
  <1>9. /\ cs \in Seq(Cluster) /\ Len(cs) = m
        /\ \A d \in 1..L : d # c => cs[d] = st.clusters[d]
        /\ cs[c].refs = credited[c].refs /\ cs[c].count = credited[c].count
        /\ cs[c].rep = IF replace THEN id ELSE rep
    <2>1. CASE replace
      <3> DEFINE led == [credited[c] EXCEPT !.rep = id]
      <3>1. /\ led \in Cluster /\ led.rep = id /\ led.refs = credited[c].refs
            /\ led.count = credited[c].count
        BY <1>4, <1>8 DEF Cluster
      <3>2. cs = [credited EXCEPT ![c] = led]
        BY <2>1
      <3> HIDE DEF led, m, replace, cs
      <3>3. /\ cs \in Seq(Cluster) /\ Len(cs) = m /\ cs[c] = led
            /\ \A d \in 1..m : d # c => cs[d] = credited[d]
        BY <1>7, <1>8, <3>1, <3>2
      <3>4. 1..L \subseteq 1..m
        BY <1>2, <1>7
      <3>5. QED
        BY <1>8, <2>1, <3>1, <3>3, <3>4
    <2>2. CASE ~replace
      <3>1. cs = credited
        BY <2>2
      <3> HIDE DEF m, replace, cs
      <3>2. QED
        BY <1>8, <2>2, <3>1 DEF rep
    <2>3. QED
      BY <2>1, <2>2
  <1>10. /\ ss \in [1..n -> Seed]
         /\ \A x \in 1..n : /\ SameAuthority(st.seeds[x], ss[x])
                            /\ ss[x].occurrences = st.seeds[x].occurrences
    <2>1. CASE replace \/ rep = id
      <3>1. ss = st.seeds
        BY <2>1
      <3>2. QED
        BY <1>5, <3>1, SameAuthorityIsReflexive
    <2>2. CASE ~(replace \/ rep = id)
      <3>1. rep \in 1..n /\ st.seeds[rep].status # "EXPIRED"
        BY <1>5, <2>2 DEF NeedsReplacing
      <3> DEFINE woken == Refreshed(st.seeds[rep])
      <3>2. /\ woken \in Seed /\ SameAuthority(st.seeds[rep], woken)
            /\ woken.occurrences = st.seeds[rep].occurrences
        BY <1>5, <3>1, RefreshedKeeps
      <3>3. ss = [st.seeds EXCEPT ![rep] = woken]
        BY <2>2
      <3> HIDE DEF woken, ss, rep, replace
      <3>4. /\ ss \in [1..n -> Seed] /\ ss[rep] = woken
            /\ \A x \in 1..n : x # rep => ss[x] = st.seeds[x]
        BY <1>5, <3>1, <3>2, <3>3
      <3>5. QED
        BY <3>2, <3>4, SameAuthorityIsReflexive
    <2>3. QED
      BY <2>1, <2>2
  <1>11. NeedsReplacing(batch.seeds, rep) = replace
    <2>1. rep \in DOMAIN batch.seeds => SameAuthority(batch.seeds[rep], st.seeds[rep])
      BY DEF StateInv, SeedsKept
    <2> HIDE DEF rep
    <2>2. QED
      BY <1>4, <2>1 DEF NeedsReplacing, SameAuthority
  <1> HIDE DEF rep, replace, cs, ss, m
  <1>12. SeedsKept(new, batch)
    <2>1. new.seeds = ss /\ ss \in Registries /\ DOMAIN ss = DOMAIN batch.seeds
      BY <1>1, <1>4, <1>5, <1>10, RegistryIs
    <2>2. \A x \in DOMAIN batch.seeds :
             /\ SameAuthority(batch.seeds[x], st.seeds[x])
             /\ st.seeds[x].occurrences = batch.seeds[x].occurrences
      BY DEF StateInv, SeedsKept
    <2>3. \A x \in DOMAIN batch.seeds :
             /\ SameAuthority(batch.seeds[x], ss[x])
             /\ ss[x].occurrences = batch.seeds[x].occurrences
      BY <1>4, <1>5, <1>10, <2>2, SameAuthorityIsTransitive
    <2> HIDE DEF new
    <2>4. QED
      BY <2>1, <2>3 DEF SeedsKept
  <1>13. ClustersOK(new.of, new.clusters, turn)
    <2>1. new.of = of /\ new.clusters = cs
      BY <1>1
    <2>2. of \in [DOMAIN of -> 1..m]
      <3>1. of = [z \in DOMAIN of |-> of[z]]
        BY DEF of, Extended
      <3>2. \A z \in DOMAIN of : of[z] \in 1..m
        BY <1>2, <1>3, <1>6, <1>7
      <3>3. QED
        BY <3>1, <3>2
    <2>3. ASSUME NEW d \in 1..m
          PROVE  /\ cs[d].refs \subseteq 0..turn /\ cs[d].count = Cardinality(cs[d].refs)
                 /\ cs[d].rep \in DOMAIN of /\ of[cs[d].rep] = d
      <3>1. CASE d = c
        BY <1>6, <1>8, <1>9, <3>1
      <3>2. CASE d # c
        <4>1. d \in 1..L /\ cs[d] = st.clusters[d]
          BY <1>7, <1>9, <3>2
        <4>2. QED
          BY <1>3, <1>6, <4>1
      <3>3. QED
        BY <3>1, <3>2
    <2> HIDE DEF new
    <2>4. QED
      BY <1>9, <2>1, <2>2, <2>3 DEF ClustersOK
  <1>14. ClustersKept(new, batch)
    <2>1. new.of = of /\ new.clusters = cs
      BY <1>1
    <2>2. /\ DOMAIN clusterOf \subseteq DOMAIN of /\ DOMAIN of \subseteq DOMAIN batch.seeds
          /\ \A z \in DOMAIN clusterOf : of[z] = clusterOf[z]
      BY <1>4, <1>6 DEF StateInv, ClustersKept
    <2>3. ASSUME NEW z \in DOMAIN of \ DOMAIN clusterOf
          PROVE  turn \in cs[of[z]].refs
      <3>1. CASE of[z] = c
        BY <1>8, <1>9, <3>1
      <3>2. CASE of[z] # c
        <4>1. z \in DOMAIN st.of /\ of[z] = st.of[z]
          BY <1>6, <3>2
        <4>2. turn \in st.clusters[st.of[z]].refs
          BY <2>3, <4>1 DEF StateInv, ClustersKept
        <4>3. QED
          BY <1>3, <1>9, <3>2, <4>1, <4>2
      <3>3. QED
        BY <3>1, <3>2
    <2>4. Len(clusters) <= L /\ (Len(clusters) \in Int => Len(clusters) <= m)
      BY <1>2, <1>7 DEF StateInv, ClustersKept
    <2>5. ASSUME NEW d \in 1..Len(clusters), d \in 1..L
          PROVE  /\ clusters[d].refs \subseteq cs[d].refs
                 /\ turn \notin cs[d].refs => /\ cs[d].count = clusters[d].count
                                              /\ cs[d].rep = clusters[d].rep
                 /\ ~NeedsReplacing(batch.seeds, clusters[d].rep) =>
                       cs[d].rep = clusters[d].rep
      <3>1. /\ clusters[d].refs \subseteq st.clusters[d].refs
            /\ turn \notin st.clusters[d].refs => /\ st.clusters[d].count = clusters[d].count
                                                  /\ st.clusters[d].rep = clusters[d].rep
            /\ ~NeedsReplacing(batch.seeds, clusters[d].rep) =>
                  st.clusters[d].rep = clusters[d].rep
        BY DEF StateInv, ClustersKept
      <3>2. CASE d # c
        BY <1>9, <2>5, <3>1, <3>2
      <3>3. CASE d = c
        <4>1. rep = st.clusters[d].rep /\ st.clusters[d].refs \subseteq cs[d].refs
              /\ turn \in cs[d].refs
          BY <1>8, <1>9, <2>5, <3>3
        <4>2. ~NeedsReplacing(batch.seeds, clusters[d].rep) => cs[d].rep = clusters[d].rep
          BY <1>9, <1>11, <3>1, <3>3, <4>1
        <4>3. QED
          BY <3>1, <4>1, <4>2
      <3>4. QED
        BY <3>2, <3>3
    <2>6. Len(clusters) <= m /\ \A d \in 1..Len(clusters) : d \in 1..L
      BY <1>2, <2>4
    <2> HIDE DEF new
    <2>7. \A d \in 1..Len(clusters) :
             /\ clusters[d].refs \subseteq cs[d].refs
             /\ turn \notin cs[d].refs => /\ cs[d].count = clusters[d].count
                                          /\ cs[d].rep = clusters[d].rep
             /\ ~NeedsReplacing(batch.seeds, clusters[d].rep) => cs[d].rep = clusters[d].rep
      BY <2>5, <2>6
    <2>8. Len(clusters) <= Len(cs)
      BY <1>9, <2>6
    <2>9. QED
      BY <2>1, <2>2, <2>3, <2>7, <2>8 DEF ClustersKept
  <1>15. accepted.id \in DOMAIN new.of /\ DOMAIN st.of \subseteq DOMAIN new.of
    BY <1>1, <1>6
  <1>16. QED
    BY <1>12, <1>13, <1>14, <1>15 DEF StateInv

\* Whatever was accepted, registration leaves every seed its authority, every cluster what
\* it counted, and its leader where that one is alive.
LEMMA RegistrationKeeps ==
    ASSUME turn \in Nat, ClustersOK(clusterOf, clusters, turn - 1),
           DOMAIN clusterOf \subseteq DOMAIN seeds,
           NEW batch, BatchInv(batch), DOMAIN batch.seeds \subseteq Ids
    PROVE  /\ StateInv(Registered(batch), batch)
           /\ AcceptedIds(batch) \subseteq DOMAIN Registered(batch).of
  <1> DEFINE n == Len(batch.accepted)
  <1>1. n \in Nat /\ \A k \in 1..n : batch.accepted[k] \in AcceptedOf(batch.seeds)
    BY DEF BatchInv
  <1>2. Len(clusters) \in Nat
    BY DEF ClustersOK
  <1>3. PICK state : RegistersTo(state, batch) /\ Registered(batch) = state[n]
    BY <1>1, RegisteredOneByOne
  <1> DEFINE S == {k \in 0..n : /\ StateInv(state[k], batch)
                                /\ \A i \in 1..k : batch.accepted[i].id \in DOMAIN state[k].of}
  <1>4. 0 \in S
    <2>1. /\ state[0].of = clusterOf /\ state[0].clusters = clusters
          /\ state[0].seeds = batch.seeds
      BY <1>3 DEF RegistersTo
    <2>2. SeedsKept(state[0], batch)
      BY <2>1, SameAuthorityIsReflexive DEF SeedsKept, BatchInv
    <2>3. ClustersOK(state[0].of, state[0].clusters, turn)
      <3>1. 0..(turn - 1) \subseteq 0..turn
        OBVIOUS
      <3>2. QED
        BY <2>1, <3>1 DEF ClustersOK
    <2>4. ClustersKept(state[0], batch)
      <3>1. DOMAIN clusterOf \subseteq DOMAIN batch.seeds
        BY DEF BatchInv, Grown
      <3>2. QED
        BY <1>2, <2>1, <3>1 DEF ClustersKept
    <2>5. QED
      BY <1>1, <2>2, <2>3, <2>4 DEF StateInv
  <1>5. ASSUME NEW k \in 1..n, k - 1 \in S
        PROVE  k \in S
    <2>1. state[k] = Register(state[k - 1], batch.accepted[k])
      BY <1>3 DEF RegistersTo
    <2>2. /\ StateInv(state[k], batch) /\ batch.accepted[k].id \in DOMAIN state[k].of
          /\ DOMAIN state[k - 1].of \subseteq DOMAIN state[k].of
      BY <1>1, <1>2, <1>5, <2>1, RegisterKeeps
    <2>3. \A i \in 1..k : i = k \/ i \in 1..(k - 1)
      BY <1>1
    <2>4. \A i \in 1..k : batch.accepted[i].id \in DOMAIN state[k].of
      BY <1>5, <2>2, <2>3
    <2>5. QED
      BY <1>1, <2>2, <2>4
  <1>6. n \in S
    <2> HIDE DEF S, n
    <2>1. 0..n \subseteq S
      BY <1>1, <1>4, <1>5, UpTo
    <2>2. QED
      BY <1>1, <2>1
  <1>7. QED
    BY <1>3, <1>6 DEF AcceptedIds

-----------------------------------------------------------------------------
(* Recurrence offered to the Gate.                                         *)

\* What the projection of recurrence leaves of a state.
LEMMA SyncedKeeps ==
    ASSUME NEW st, NEW batch, StateInv(st, batch)
    PROVE  /\ Synced(st) \in Registries /\ DOMAIN Synced(st) = DOMAIN batch.seeds
           /\ \A id \in DOMAIN batch.seeds :
                 /\ SameAuthority(batch.seeds[id], Synced(st)[id])
                 /\ Synced(st)[id].occurrences =
                       IF /\ id \in DOMAIN st.of /\ st.clusters[st.of[id]].rep = id
                          /\ batch.seeds[id].status # "EXPIRED"
                       THEN st.clusters[st.of[id]].count ELSE batch.seeds[id].occurrences
  <1>1. PICK n \in Nat : st.seeds \in [1..n -> Seed] /\ DOMAIN st.seeds = 1..n
    BY RegistryDomain DEF StateInv, SeedsKept
  <1>2. /\ DOMAIN batch.seeds = 1..n
        /\ \A id \in 1..n : /\ SameAuthority(batch.seeds[id], st.seeds[id])
                            /\ st.seeds[id].occurrences = batch.seeds[id].occurrences
    BY <1>1 DEF StateInv, SeedsKept
  <1>3. /\ st.of \in [DOMAIN st.of -> 1..Len(st.clusters)]
        /\ \A c \in 1..Len(st.clusters) :
              /\ st.clusters[c].count \in Nat
              /\ st.clusters[c].rep \in DOMAIN st.of /\ st.of[st.clusters[c].rep] = c
    <2>1. ClustersOK(st.of, st.clusters, turn)
      BY DEF StateInv
    <2>2. st.clusters \in Seq(Cluster)
      BY <2>1 DEF ClustersOK
    <2>3. \A c \in 1..Len(st.clusters) : st.clusters[c].count \in Nat
      <3>1. \A c \in 1..Len(st.clusters) : st.clusters[c] \in Cluster
        BY <2>2
      <3>2. \A cluster \in Cluster : cluster.count \in Nat
        BY DEF Cluster
      <3>3. QED
        BY <3>1, <3>2
    <2>4. QED
      BY <2>1, <2>3 DEF ClustersOK
  <1> DEFINE led(id) == {c \in 1..Len(st.clusters) : st.clusters[c].rep = id}
             count(id) == st.clusters[CHOOSE c \in led(id) :
                                         \A other \in led(id) : other <= c].count
  <1>4. Synced(st) = [id \in 1..n |->
                        IF led(id) = {} \/ st.seeds[id].status = "EXPIRED" THEN st.seeds[id]
                        ELSE [st.seeds[id] EXCEPT !.occurrences = count(id)]]
    BY <1>1 DEF Synced
  <1>5. ASSUME NEW id \in 1..n
        PROVE  /\ Synced(st)[id] \in Seed
               /\ SameAuthority(batch.seeds[id], Synced(st)[id])
               /\ Synced(st)[id].occurrences =
                     IF /\ id \in DOMAIN st.of /\ st.clusters[st.of[id]].rep = id
                        /\ batch.seeds[id].status # "EXPIRED"
                     THEN st.clusters[st.of[id]].count ELSE batch.seeds[id].occurrences
    <2>1. st.seeds[id] \in Seed /\ (batch.seeds[id].status = "EXPIRED" <=> st.seeds[id].status = "EXPIRED")
      BY <1>1, <1>2 DEF SameAuthority
    <2>2. led(id) = IF id \in DOMAIN st.of /\ st.clusters[st.of[id]].rep = id
                    THEN {st.of[id]} ELSE {}
      BY <1>3
    <2>3. CASE led(id) = {} \/ st.seeds[id].status = "EXPIRED"
      <3>1. Synced(st)[id] = st.seeds[id]
        BY <1>4, <2>3
      <3>2. led(id) = {} => ~(id \in DOMAIN st.of /\ st.clusters[st.of[id]].rep = id)
        BY <2>2
      <3> HIDE DEF led
      <3>3. QED
        BY <1>2, <2>1, <2>3, <3>1, <3>2
    <2>4. CASE ~(led(id) = {} \/ st.seeds[id].status = "EXPIRED")
      <3>1. id \in DOMAIN st.of /\ st.clusters[st.of[id]].rep = id /\ led(id) = {st.of[id]}
        BY <2>2, <2>4
      <3>2. st.of[id] \in Nat /\ st.of[id] \in 1..Len(st.clusters)
        BY <1>3, <3>1
      <3>3. count(id) = st.clusters[st.of[id]].count
        <4> HIDE DEF led
        <4>1. (CHOOSE c \in led(id) : \A other \in led(id) : other <= c) = st.of[id]
          BY <3>1, <3>2
        <4>2. QED
          BY <4>1
      <3>4. count(id) \in Nat
        BY <1>3, <3>2, <3>3
      <3>5. Synced(st)[id] = [st.seeds[id] EXCEPT !.occurrences = count(id)]
        BY <1>4, <2>4
      <3> HIDE DEF count, led
      <3>6. [st.seeds[id] EXCEPT !.occurrences = count(id)] \in Seed
        BY <2>1, <3>4 DEF Seed
      <3>7. /\ SameAuthority(st.seeds[id], [st.seeds[id] EXCEPT !.occurrences = count(id)])
            /\ [st.seeds[id] EXCEPT !.occurrences = count(id)].occurrences = count(id)
        BY <2>1 DEF Seed, SameAuthority
      <3>8. QED
        BY <1>2, <2>1, <2>4, <3>1, <3>3, <3>5, <3>6, <3>7, SameAuthorityIsTransitive
    <2>5. QED
      BY <2>3, <2>4
  <1>6. Synced(st) \in [1..n -> Seed]
    BY <1>4, <1>5
  <1>7. QED
    BY <1>2, <1>5, <1>6, RegistryIs

LEMMA ConfirmedKeeps ==
    ASSUME NEW seed \in Seed, seed.status # "EXPIRED"
    PROVE  /\ Confirmed(seed) \in Seed /\ Confirmed(seed).version = seed.version + 1
           /\ Confirmed(seed).occurrences = seed.occurrences
           /\ Confirmed(seed).status # "EXPIRED"
  <1> DEFINE st == IF seed.weight + 1 >= Promotion THEN "PROMOTED" ELSE "OPEN"
             w == seed.weight + 1
             v == seed.version + 1
  <1>1. w \in Nat /\ v \in Nat /\ st \in {"OPEN", "PROMOTED"}
    BY DEF Seed
  <1>2. Confirmed(seed) = [seed EXCEPT !.weight = w, !.version = v, !.status = st]
    BY DEF Confirmed
  <1> HIDE DEF w, v, st
  <1>3. [seed EXCEPT !.weight = w] \in Seed
    BY <1>1 DEF Seed
  <1>4. [seed EXCEPT !.weight = w, !.version = v] \in Seed
    BY <1>1, <1>3 DEF Seed
  <1>5. [seed EXCEPT !.weight = w, !.version = v, !.status = st] \in Seed
    BY <1>1, <1>4 DEF Seed
  <1>6. /\ Confirmed(seed).version = v /\ Confirmed(seed).status = st
        /\ Confirmed(seed).occurrences = seed.occurrences
    BY <1>2 DEF Seed
  <1>7. QED
    BY <1>1, <1>2, <1>5, <1>6 DEF v

LEMMA AfterGateKeeps ==
    ASSUME NEW synced \in Registries, NEW offered \in SUBSET Live(synced)
    PROVE  LET after == AfterGate(synced, offered)
           IN  /\ after \in Registries /\ DOMAIN after = DOMAIN synced
               /\ \A id \in DOMAIN synced :
                     /\ after[id].occurrences = synced[id].occurrences
                     /\ after[id].status = "EXPIRED" <=> synced[id].status = "EXPIRED"
                     /\ synced[id].version <= after[id].version
                     /\ after[id].version \in Nat
  <1> DEFINE after == AfterGate(synced, offered)
  <1>1. PICK n \in Nat : synced \in [1..n -> Seed] /\ DOMAIN synced = 1..n
    BY RegistryDomain
  <1>2. after = [id \in 1..n |-> IF id \in offered /\ Confirms(id, synced)
                                 THEN Confirmed(synced[id]) ELSE synced[id]]
    BY <1>1 DEF AfterGate
  <1>3. ASSUME NEW id \in 1..n
        PROVE  /\ after[id] \in Seed
               /\ after[id].occurrences = synced[id].occurrences
               /\ after[id].status = "EXPIRED" <=> synced[id].status = "EXPIRED"
               /\ synced[id].version <= after[id].version
               /\ after[id].version \in Nat
    <2>1. synced[id] \in Seed /\ synced[id].version \in Nat
      BY <1>1 DEF Seed
    <2>2. CASE id \in offered /\ Confirms(id, synced)
      <3>1. after[id] = Confirmed(synced[id]) /\ synced[id].status # "EXPIRED"
        BY <1>2, <2>2 DEF Live
      <3> HIDE DEF after
      <3>2. QED
        BY <2>1, <3>1, ConfirmedKeeps
    <2>3. CASE ~(id \in offered /\ Confirms(id, synced))
      <3>1. after[id] = synced[id]
        BY <1>2, <2>3
      <3> HIDE DEF after
      <3>2. QED
        BY <2>1, <3>1
    <2>4. QED
      BY <2>2, <2>3
  <1>4. after \in [1..n -> Seed]
    BY <1>2, <1>3
  <1> HIDE DEF after
  <1>5. /\ after \in Registries /\ DOMAIN after = DOMAIN synced
        /\ \A id \in DOMAIN synced :
              /\ after[id].occurrences = synced[id].occurrences
              /\ after[id].status = "EXPIRED" <=> synced[id].status = "EXPIRED"
              /\ synced[id].version <= after[id].version
              /\ after[id].version \in Nat
    BY <1>1, <1>3, <1>4, RegistryIs
  <1>6. QED
    BY <1>5 DEF after

\* What is reported about some seeds, one event or record for each.
LEMMA SomeSeedsAreFinite ==
    ASSUME NEW ss \in Registries, NEW ids \in SUBSET DOMAIN ss
    PROVE  ids \in SUBSET Nat /\ IsFiniteSet(ids)
  <1>1. PICK n \in Nat : DOMAIN ss = 1..n
    BY RegistryDomain
  <1>2. IsFiniteSet(1..n) /\ 1..n \subseteq Nat
    BY FS_Interval
  <1>3. QED
    BY <1>1, <1>2, FS_Subset

LEMMA RecurrenceEventsSay ==
    ASSUME turn \in Nat, NEW synced \in Registries, DOMAIN synced \subseteq Ids,
           NEW offered \in SUBSET Live(synced)
    PROVE  LET after == AfterGate(synced, offered)
               events == RecurrenceEvents(synced, offered, after)
           IN  /\ events \in Seq(GateEvent)
               /\ \A k \in 1..Len(events) :
                     /\ events[k].seed \in offered
                     /\ events[k].decision # "contradicted"
                     /\ events[k].recurrence = synced[events[k].seed].occurrences
                     /\ events[k].version = after[events[k].seed].version
                     /\ events[k].turn = turn
                     /\ events[k].retried = (pending.failed > 0)
  <1> DEFINE after == AfterGate(synced, offered)
             events == RecurrenceEvents(synced, offered, after)
             n == Cardinality(offered)
             at(k) == InOrder(offered)[k]
             said(k) == IF ~Confirms(at(k), synced) THEN "blocked"
                        ELSE IF after[at(k)].status = "PROMOTED" THEN "promoted" ELSE "validated"
  <1>1. offered \subseteq DOMAIN synced
    BY DEF Live
  <1>2. n \in Nat /\ \A k \in 1..n : at(k) \in offered
    BY <1>1, SomeSeedsAreFinite, InOrderIsOnto
  <1>3. events = [k \in 1..n |-> [seed |-> at(k), decision |-> said(k),
                                  recurrence |-> synced[at(k)].occurrences,
                                  version |-> after[at(k)].version, turn |-> turn,
                                  retried |-> pending.failed > 0]]
    BY DEF RecurrenceEvents
  <1>4. ASSUME NEW k \in 1..n
        PROVE  /\ events[k] \in GateEvent /\ events[k].seed \in offered
               /\ events[k].decision # "contradicted"
               /\ events[k].recurrence = synced[events[k].seed].occurrences
               /\ events[k].version = after[events[k].seed].version
               /\ events[k].turn = turn
               /\ events[k].retried = (pending.failed > 0)
    <2>1. at(k) \in offered /\ at(k) \in Ids /\ at(k) \in DOMAIN synced
      BY <1>1, <1>2
    <2>2. synced[at(k)].occurrences \in Nat
      <3>1. PICK m \in Nat : synced \in [1..m -> Seed] /\ DOMAIN synced = 1..m
        BY RegistryDomain
      <3>2. synced[at(k)] \in Seed
        BY <2>1, <3>1
      <3>3. QED
        BY <3>2 DEF Seed
    <2>3. after[at(k)].version \in Nat
      BY <2>1, AfterGateKeeps
    <2>4. said(k) \in {"blocked", "promoted", "validated"}
      OBVIOUS
    <2> HIDE DEF said, after, at, events
    <2>5. events[k] = [seed |-> at(k), decision |-> said(k),
                       recurrence |-> synced[at(k)].occurrences,
                       version |-> after[at(k)].version, turn |-> turn,
                       retried |-> pending.failed > 0]
      BY <1>3
    <2>6. QED
      BY <2>1, <2>2, <2>3, <2>4, <2>5 DEF GateEvent
  <1>5. Len(events) = n /\ events \in Seq(GateEvent)
    <2> HIDE DEF said, after, at
    <2>1. DOMAIN events = 1..n
      BY <1>3
    <2> HIDE DEF events
    <2>2. events \in [1..n -> GateEvent]
      <3>1. events = [k \in 1..n |-> events[k]]
        BY <1>3
      <3>2. QED
        BY <1>4, <3>1
    <2>3. QED
      BY <1>2, <2>2
  <1> HIDE DEF events, n
  <1>6. /\ events \in Seq(GateEvent)
        /\ \A k \in 1..Len(events) :
              /\ events[k].seed \in offered
              /\ events[k].decision # "contradicted"
              /\ events[k].recurrence = synced[events[k].seed].occurrences
              /\ events[k].version = after[events[k].seed].version
              /\ events[k].turn = turn
              /\ events[k].retried = (pending.failed > 0)
    BY <1>4, <1>5
  <1>7. QED
    BY <1>6 DEF events

-----------------------------------------------------------------------------
(* Preparation.                                                            *)

\* What ageing and reactivation leave of a seed.
SameRecord(old, new) ==
    /\ new.topic = old.topic /\ new.weight = old.weight /\ new.blocked = old.blocked
    /\ new.version = old.version /\ new.occurrences = old.occurrences
    /\ old.status = "EXPIRED" => new.status = "EXPIRED"

LEMMA AgedKeeps ==
    ASSUME NEW seed \in Seed, NEW faded
    PROVE  Aged(seed, faded) \in Seed /\ SameRecord(seed, Aged(seed, faded))
  <1>1. CASE seed.status = "EXPIRED"
    BY <1>1 DEF Aged, SameRecord
  <1>2. CASE seed.status # "EXPIRED" /\ (seed.status = "DORMANT" \/ (faded /\ seed.weight = 0))
    <2> DEFINE st == IF DormantTTL > 0 /\ seed.dormant + 1 >= DormantTTL
                     THEN "EXPIRED" ELSE "DORMANT"
               d == seed.dormant + 1
    <2>1. st \in {"EXPIRED", "DORMANT"} /\ d \in Nat
      BY DEF Seed
    <2>2. Aged(seed, faded) = [seed EXCEPT !.dormant = d, !.status = st]
      BY <1>2 DEF Aged
    <2> HIDE DEF st, d
    <2>3. [seed EXCEPT !.dormant = d] \in Seed
      BY <2>1 DEF Seed
    <2>4. [seed EXCEPT !.dormant = d, !.status = st] \in Seed
      BY <2>1, <2>3 DEF Seed
    <2>5. SameRecord(seed, [seed EXCEPT !.dormant = d, !.status = st])
      BY <1>2 DEF Seed, SameRecord
    <2>6. QED
      BY <2>2, <2>4, <2>5
  <1>3. CASE seed.status # "EXPIRED" /\ ~(seed.status = "DORMANT" \/ (faded /\ seed.weight = 0))
    <2>1. Aged(seed, faded) = [seed EXCEPT !.dormant = 0]
      BY <1>3 DEF Aged
    <2>2. [seed EXCEPT !.dormant = 0] \in Seed
      BY DEF Seed
    <2>3. SameRecord(seed, [seed EXCEPT !.dormant = 0])
      BY <1>3 DEF Seed, SameRecord
    <2>4. QED
      BY <2>1, <2>2, <2>3
  <1>4. QED
    BY <1>1, <1>2, <1>3

LEMMA AgedSeedsKeep ==
    ASSUME seeds \in Registries, NEW faded
    PROVE  /\ AgedSeeds(faded) \in Registries /\ DOMAIN AgedSeeds(faded) = DOMAIN seeds
           /\ \A id \in DOMAIN seeds : SameRecord(seeds[id], AgedSeeds(faded)[id])
  <1>1. PICK n \in Nat : seeds \in [1..n -> Seed] /\ DOMAIN seeds = 1..n
    BY RegistryDomain
  <1>2. CASE turn = 0
    <2>1. AgedSeeds(faded) = seeds
      BY <1>2 DEF AgedSeeds
    <2>2. QED
      BY <2>1 DEF SameRecord
  <1>3. CASE turn # 0
    <2>1. AgedSeeds(faded) = [id \in 1..n |-> Aged(seeds[id], id \in faded)]
      BY <1>1, <1>3 DEF AgedSeeds
    <2>2. \A id \in 1..n : /\ Aged(seeds[id], id \in faded) \in Seed
                           /\ SameRecord(seeds[id], Aged(seeds[id], id \in faded))
      BY <1>1, AgedKeeps
    <2>3. AgedSeeds(faded) \in [1..n -> Seed]
      BY <2>1, <2>2
    <2>4. QED
      BY <1>1, <2>1, <2>2, <2>3, RegistryIs
  <1>4. QED
    BY <1>2, <1>3

LEMMA ReactivatedKeeps ==
    ASSUME NEW aged \in Registries, NEW matching
    PROVE  LET ready == Reactivated(aged, matching)
           IN  /\ ready \in Registries /\ DOMAIN ready = DOMAIN aged
               /\ \A id \in DOMAIN aged : SameRecord(aged[id], ready[id])
  <1> DEFINE ready == Reactivated(aged, matching)
  <1>1. PICK n \in Nat : aged \in [1..n -> Seed] /\ DOMAIN aged = 1..n
    BY RegistryDomain
  <1>2. ready = [id \in 1..n |-> IF id \in matching /\ aged[id].status = "DORMANT"
                                 THEN [aged[id] EXCEPT !.status = "OPEN", !.dormant = 0]
                                 ELSE aged[id]]
    BY <1>1 DEF Reactivated
  <1>3. ASSUME NEW id \in 1..n
        PROVE  ready[id] \in Seed /\ SameRecord(aged[id], ready[id])
    <2>1. aged[id] \in Seed
      BY <1>1
    <2>2. CASE id \in matching /\ aged[id].status = "DORMANT"
      <3>1. ready[id] = [aged[id] EXCEPT !.status = "OPEN", !.dormant = 0]
        BY <1>2, <2>2
      <3>2. [aged[id] EXCEPT !.status = "OPEN"] \in Seed
        BY <2>1 DEF Seed
      <3>3. [aged[id] EXCEPT !.status = "OPEN", !.dormant = 0] \in Seed
        BY <3>2 DEF Seed
      <3>4. SameRecord(aged[id], [aged[id] EXCEPT !.status = "OPEN", !.dormant = 0])
        BY <2>1, <2>2 DEF Seed, SameRecord
      <3>5. QED
        BY <3>1, <3>3, <3>4
    <2>3. CASE ~(id \in matching /\ aged[id].status = "DORMANT")
      <3>1. ready[id] = aged[id]
        BY <1>2, <2>3
      <3> HIDE DEF ready
      <3>2. QED
        BY <2>1, <3>1 DEF SameRecord
    <2>4. QED
      BY <2>2, <2>3
  <1>4. ready \in [1..n -> Seed]
    BY <1>2, <1>3
  <1> HIDE DEF ready
  <1>5. /\ ready \in Registries /\ DOMAIN ready = DOMAIN aged
        /\ \A id \in DOMAIN aged : SameRecord(aged[id], ready[id])
    BY <1>1, <1>3, <1>4, RegistryIs
  <1>6. QED
    BY <1>5 DEF ready

LEMMA ExpiryEventsSay ==
    ASSUME turn \in Nat, seeds \in Registries, DOMAIN seeds \subseteq Ids,
           NEW aged \in Registries, DOMAIN aged = DOMAIN seeds,
           \A id \in DOMAIN seeds : SameRecord(seeds[id], aged[id])
    PROVE  /\ ExpiryEvents(aged) \in Seq(GateEvent)
           /\ \A k \in 1..Len(ExpiryEvents(aged)) :
                 /\ ExpiryEvents(aged)[k].seed \in DOMAIN seeds
                 /\ seeds[ExpiryEvents(aged)[k].seed].status # "EXPIRED"
                 /\ ExpiryEvents(aged)[k].decision = "expired"
                 /\ ExpiryEvents(aged)[k].recurrence = 0
                 /\ ExpiryEvents(aged)[k].version =
                       seeds[ExpiryEvents(aged)[k].seed].version
                 /\ ExpiryEvents(aged)[k].turn = turn
  <1> DEFINE expired == {id \in DOMAIN seeds :
                           seeds[id].status # "EXPIRED" /\ aged[id].status = "EXPIRED"}
             events == ExpiryEvents(aged)
             n == Cardinality(expired)
             at(k) == InOrder(expired)[k]
  <1>1. expired \subseteq DOMAIN seeds
    OBVIOUS
  <1>2. n \in Nat /\ \A k \in 1..n : at(k) \in expired
    <2> HIDE DEF expired
    <2>1. QED
      BY <1>1, SomeSeedsAreFinite, InOrderIsOnto
  <1>3. events = [k \in 1..n |-> [seed |-> at(k), decision |-> "expired", recurrence |-> 0,
                                  version |-> aged[at(k)].version, turn |-> turn,
                                  retried |-> FALSE]]
    BY DEF ExpiryEvents
  <1>4. ASSUME NEW k \in 1..n
        PROVE  /\ events[k] \in GateEvent /\ events[k].seed \in DOMAIN seeds
               /\ seeds[events[k].seed].status # "EXPIRED"
               /\ events[k].decision = "expired" /\ events[k].recurrence = 0
               /\ events[k].version = seeds[events[k].seed].version
               /\ events[k].turn = turn
    <2>1. at(k) \in DOMAIN seeds /\ at(k) \in Ids /\ seeds[at(k)].status # "EXPIRED"
      BY <1>2
    <2>2. aged[at(k)].version = seeds[at(k)].version /\ aged[at(k)].version \in Nat
      <3>1. PICK m \in Nat : seeds \in [1..m -> Seed] /\ DOMAIN seeds = 1..m
        BY RegistryDomain
      <3>2. seeds[at(k)] \in Seed
        BY <2>1, <3>1
      <3>3. seeds[at(k)].version \in Nat
        BY <3>2 DEF Seed
      <3>4. QED
        BY <2>1, <3>3 DEF SameRecord
    <2> HIDE DEF at, events
    <2>3. events[k] = [seed |-> at(k), decision |-> "expired", recurrence |-> 0,
                       version |-> aged[at(k)].version, turn |-> turn, retried |-> FALSE]
      BY <1>3
    <2>4. QED
      BY <2>1, <2>2, <2>3 DEF GateEvent
  <1>5. Len(events) = n /\ events \in Seq(GateEvent)
    <2> HIDE DEF at, expired
    <2>1. DOMAIN events = 1..n
      BY <1>3
    <2> HIDE DEF events
    <2>2. events \in [1..n -> GateEvent]
      <3>1. events = [k \in 1..n |-> events[k]]
        BY <1>3
      <3>2. QED
        BY <1>4, <3>1
    <2>3. QED
      BY <1>2, <2>2
  <1> HIDE DEF n
  <1>6. QED
    BY <1>4, <1>5

LEMMA RecordsForSay ==
    ASSUME turn \in Nat, NEW ss \in Registries, DOMAIN ss \subseteq Ids,
           NEW surfaced \in SUBSET DOMAIN ss
    PROVE  /\ RecordsFor(surfaced, ss) \in Seq(Influence)
           /\ \A k \in 1..Len(RecordsFor(surfaced, ss)) : RecordsFor(surfaced, ss)[k].turn = turn
           /\ \A k, l \in 1..Len(RecordsFor(surfaced, ss)) : k # l =>
                 RecordsFor(surfaced, ss)[k].seed # RecordsFor(surfaced, ss)[l].seed
           /\ \A id \in surfaced : \E k \in 1..Len(RecordsFor(surfaced, ss)) :
                 RecordsFor(surfaced, ss)[k] =
                    [seed |-> id, version |-> ss[id].version, turn |-> turn]
  <1> DEFINE records == RecordsFor(surfaced, ss)
             n == Cardinality(surfaced)
             at(k) == InOrder(surfaced)[k]
  <1>1. /\ n \in Nat /\ \A k \in 1..n : at(k) \in surfaced
        /\ \A k, l \in 1..n : k # l => at(k) # at(l)
        /\ \A id \in surfaced : \E k \in 1..n : at(k) = id
    BY SomeSeedsAreFinite, InOrderIsOnto
  <1>2. records = [k \in 1..n |-> [seed |-> at(k), version |-> ss[at(k)].version,
                                   turn |-> turn]]
    BY DEF RecordsFor
  <1>3. ASSUME NEW id \in surfaced
        PROVE  id \in Ids /\ ss[id].version \in Nat
    <2>1. PICK m \in Nat : ss \in [1..m -> Seed] /\ DOMAIN ss = 1..m
      BY RegistryDomain
    <2>2. ss[id] \in Seed
      BY <2>1
    <2>3. QED
      BY <2>2 DEF Seed
  <1> HIDE DEF at, n, records
  <1>4. \A k \in 1..n : records[k] \in Influence
    BY <1>1, <1>2, <1>3 DEF Influence
  <1>5. Len(records) = n /\ records \in Seq(Influence)
    <2>1. DOMAIN records = 1..n
      BY <1>2
    <2>2. records \in [1..n -> Influence]
      <3>1. records = [k \in 1..n |-> records[k]]
        BY <1>2
      <3>2. QED
        BY <1>4, <3>1
    <2>3. QED
      BY <1>1, <2>2
  <1>6. \A k \in 1..n : records[k].turn = turn /\ records[k].seed = at(k)
    BY <1>2
  <1>7. \A id \in surfaced : \E k \in 1..n :
           records[k] = [seed |-> id, version |-> ss[id].version, turn |-> turn]
    BY <1>1, <1>2
  <1>8. /\ records \in Seq(Influence)
        /\ \A k \in 1..Len(records) : records[k].turn = turn
        /\ \A k, l \in 1..Len(records) : k # l => records[k].seed # records[l].seed
        /\ \A id \in surfaced : \E k \in 1..Len(records) :
              records[k] = [seed |-> id, version |-> ss[id].version, turn |-> turn]
    BY <1>1, <1>5, <1>6, <1>7
  <1>9. QED
    BY <1>8 DEF records

LEMMA Concatenated ==
    ASSUME NEW A, NEW s \in Seq(A), NEW t \in Seq(A)
    PROVE  /\ s \o t \in Seq(A) /\ Len(s \o t) = Len(s) + Len(t)
           /\ Len(s) \in Nat /\ Len(t) \in Nat
           /\ \A i \in 1..Len(s) : (s \o t)[i] = s[i]
           /\ \A k \in 1..Len(t) : (s \o t)[Len(s) + k] = t[k]
           /\ \A i \in 1..(Len(s) + Len(t)) :
                 i \in 1..Len(s) \/ \E k \in 1..Len(t) : i = Len(s) + k
  <1>1. s \o t \in Seq(A) /\ Len(s \o t) = Len(s) + Len(t) /\ Len(s) \in Nat /\ Len(t) \in Nat
    OBVIOUS
  <1>2. \A i \in 1..Len(s) : (s \o t)[i] = s[i]
    OBVIOUS
  <1>3. \A k \in 1..Len(t) : (s \o t)[Len(s) + k] = t[k]
    OBVIOUS
  <1>4. ASSUME NEW i \in 1..(Len(s) + Len(t)), i \notin 1..Len(s)
        PROVE  \E k \in 1..Len(t) : i = Len(s) + k
    <2>1. i - Len(s) \in 1..Len(t) /\ i = Len(s) + (i - Len(s))
      BY <1>1, <1>4
    <2>2. QED
      BY <2>1
  <1>5. QED
    BY <1>1, <1>2, <1>3, <1>4

-----------------------------------------------------------------------------
(* The invariant.                                                          *)

Pending == [surfaced : SUBSET Ids, before : Registries, influenced : Nat, logged : Nat,
            failed : Nat, open : BOOLEAN]

\* The types, what a turn under way may be taken back to, and how the clusters count.
Shapes ==
    /\ seeds \in Registries /\ DOMAIN seeds \subseteq Ids
    /\ born \in [DOMAIN born -> Nat] /\ DOMAIN born \subseteq Ids
    /\ DOMAIN clusterOf \subseteq DOMAIN seeds /\ ClustersOK(clusterOf, clusters, turn - 1)
    /\ gate \in Seq(GateEvent) /\ influence \in Seq(Influence)
    /\ turn \in 0..MaxTurns /\ pending \in Pending
    /\ pending.surfaced \subseteq DOMAIN seeds
    /\ ~pending.open => pending = NoTurn
    /\ pending.open => /\ turn < MaxTurns
                       /\ DOMAIN clusterOf \subseteq DOMAIN pending.before
                       /\ DOMAIN pending.before \subseteq DOMAIN seeds
                       /\ pending.influenced <= Len(influence)
                       /\ pending.logged <= Len(gate)

\* The log describes the seeds as they are, and as an abort would leave them.
Behind(ss) ==
    \A i \in 1..Len(gate) :
        gate[i].seed \in DOMAIN ss /\ gate[i].version <= ss[gate[i].seed].version

LogInv == Behind(seeds) /\ (pending.open => Behind(pending.before))

\* Influence is of turns that are over, and from pending.influenced on of this one.
InfluenceInv ==
    /\ \A i \in 1..Len(influence) :
          IF pending.open /\ i > pending.influenced THEN influence[i].turn = turn
          ELSE influence[i].turn < turn
    /\ \A i, j \in 1..Len(influence) :
          i # j => influence[i].seed # influence[j].seed \/ influence[i].turn # influence[j].turn

\* A turn that is open has logged expiries only, of seeds that an abort brings back.
ExpiryInv ==
    pending.open => \A i \in (pending.logged + 1)..Len(gate) :
        /\ gate[i].decision = "expired" /\ gate[i].seed \in DOMAIN pending.before
        /\ pending.before[gate[i].seed].status # "EXPIRED"

\* A seed that was confirmed by recurrence leads its cluster as long as it lives.
Earning(event) == event.recurrence > 0 /\ event.decision \in Confirming
Earned(id) == \E i \in 1..Len(gate) : gate[i].seed = id /\ Earning(gate[i])
Leads(id) == id \in DOMAIN clusterOf /\ clusters[clusterOf[id]].rep = id
EarnersLead(ss) == \A id \in Live(ss) : Earned(id) => Leads(id)

EarnInv ==
    /\ EarnersLead(seeds) /\ (pending.open => EarnersLead(pending.before))
    /\ \A id \in Ids : Earned(id) => id \in DOMAIN clusterOf

\* Between turns the leader of a cluster has its count, but for a contradicted one.
Contradicted(id) ==
    \E i \in 1..Len(gate) : gate[i].seed = id /\ gate[i].decision = "contradicted"
InStep(ss) ==
    \A id \in Live(ss) : Leads(id) /\ ~Contradicted(id) =>
        ss[id].occurrences = clusters[clusterOf[id]].count

SyncInv == (pending.failed = 0 => InStep(seeds)) /\ (pending.open => InStep(pending.before))

IInv ==
    /\ Shapes /\ LogInv /\ InfluenceInv /\ ContextStaysAuthorized /\ ExpiryInv
    /\ EarnInv /\ SyncInv /\ RecurrenceNeedsDistinctTurns /\ QuietRiseIsExplained

\* The log after a step that appended events.
LEMMA LogGrows ==
    ASSUME gate \in Seq(GateEvent), NEW events \in Seq(GateEvent), gate' = gate \o events
    PROVE  /\ gate' \in Seq(GateEvent) /\ Len(gate') = Len(gate) + Len(events)
           /\ Len(gate) \in Nat /\ Len(events) \in Nat
           /\ \A i \in 1..Len(gate) : i \in 1..Len(gate') /\ gate'[i] = gate[i]
           /\ \A i \in 1..Len(gate') :
                 \/ i \in 1..Len(gate) /\ gate'[i] = gate[i]
                 \/ i > Len(gate) /\ \E k \in 1..Len(events) : gate'[i] = events[k]
  <1>1. /\ gate' \in Seq(GateEvent) /\ Len(gate') = Len(gate) + Len(events)
        /\ Len(gate) \in Nat /\ Len(events) \in Nat
        /\ \A i \in 1..Len(gate) : gate'[i] = gate[i]
        /\ \A k \in 1..Len(events) : gate'[Len(gate) + k] = events[k]
        /\ \A i \in 1..(Len(gate) + Len(events)) :
              i \in 1..Len(gate) \/ \E k \in 1..Len(events) : i = Len(gate) + k
    <2> DEFINE longer == gate \o events
    <2>1. /\ longer \in Seq(GateEvent) /\ Len(longer) = Len(gate) + Len(events)
          /\ Len(gate) \in Nat /\ Len(events) \in Nat
          /\ \A i \in 1..Len(gate) : longer[i] = gate[i]
          /\ \A k \in 1..Len(events) : longer[Len(gate) + k] = events[k]
          /\ \A i \in 1..(Len(gate) + Len(events)) :
                i \in 1..Len(gate) \/ \E k \in 1..Len(events) : i = Len(gate) + k
      BY Concatenated, Zenon
    <2>2. gate' = longer
      OBVIOUS
    <2> HIDE DEF longer
    <2>3. QED
      BY <2>1, <2>2
  <1>2. \A i \in 1..Len(gate) : i \in 1..Len(gate')
    BY <1>1
  <1>3. ASSUME NEW i \in 1..Len(gate'), i \notin 1..Len(gate)
        PROVE  i > Len(gate) /\ \E k \in 1..Len(events) : gate'[i] = events[k]
    <2>1. PICK k \in 1..Len(events) : i = Len(gate) + k
      BY <1>1, <1>3
    <2>2. gate'[i] = events[k] /\ i > Len(gate)
      BY <1>1, <2>1
    <2>3. QED
      BY <2>2
  <1>4. QED
    BY <1>1, <1>2, <1>3

\* Events that are not of recurrence confirm nothing by recurrence.
LEMMA QuietEvents ==
    ASSUME gate \in Seq(GateEvent), turn \in Nat,
           RecurrenceNeedsDistinctTurns, QuietRiseIsExplained,
           NEW events \in Seq(GateEvent), gate' = gate \o events,
           \A k \in 1..Len(events) : events[k].recurrence = 0,
           clusters' = clusters, clusterOf' = clusterOf
    PROVE  /\ RecurrenceNeedsDistinctTurns' /\ QuietRiseIsExplained'
           /\ \A id : Earned(id)' <=> Earned(id)
           /\ \A id : Leads(id)' <=> Leads(id)
           /\ \A id : Contradicted(id) => Contradicted(id)'
  <1>1. /\ Len(gate) \in Nat
        /\ \A i \in 1..Len(gate) : i \in 1..Len(gate') /\ gate'[i] = gate[i]
        /\ \A i \in 1..Len(gate') :
              \/ i \in 1..Len(gate) /\ gate'[i] = gate[i]
              \/ gate'[i].recurrence = 0 /\ gate'[i].turn \in Nat
    <2>1. \A k \in 1..Len(events) : events[k].turn \in Nat
      <3>1. \A k \in 1..Len(events) : events[k] \in GateEvent
        OBVIOUS
      <3>2. QED
        BY <3>1 DEF GateEvent
    <2>2. QED
      BY <2>1, LogGrows
  <1>2. RecurrenceNeedsDistinctTurns'
    <2>1. \A i \in 1..Len(gate') : gate'[i].recurrence <= gate'[i].turn + 1
      BY <1>1 DEF RecurrenceNeedsDistinctTurns
    <2>2. QED
      BY <2>1 DEF RecurrenceNeedsDistinctTurns
  <1>3. QuietRiseIsExplained'
    <2>1. SUFFICES ASSUME NEW i \in 1..Len(gate'),
                          gate'[i].recurrence > 0, gate'[i].decision \in Confirming,
                          gate'[i].seed \in DOMAIN clusterOf =>
                             gate'[i].turn \notin clusters[clusterOf[gate'[i].seed]].refs
                   PROVE  \/ gate'[i].retried
                          \/ \E j \in 1..(i - 1) : /\ gate'[j].seed = gate'[i].seed
                                                   /\ gate'[j].decision = "contradicted"
      BY DEF QuietRiseIsExplained
    <2>2. i \in 1..Len(gate) /\ gate'[i] = gate[i]
      BY <1>1, <2>1
    <2>3. \/ gate[i].retried
          \/ \E j \in 1..(i - 1) : /\ gate[j].seed = gate[i].seed
                                   /\ gate[j].decision = "contradicted"
      BY <2>1, <2>2 DEF QuietRiseIsExplained
    <2>4. \A j \in 1..(i - 1) : j \in 1..Len(gate)
      BY <1>1, <2>2
    <2>5. QED
      BY <1>1, <2>2, <2>3, <2>4
  <1>4. \A id : Earned(id)' <=> Earned(id)
    BY <1>1 DEF Earned, Earning
  <1>5. \A id : Leads(id)' <=> Leads(id)
    BY DEF Leads
  <1>6. \A id : Contradicted(id) => Contradicted(id)'
    BY <1>1 DEF Contradicted
  <1>7. QED
    BY <1>2, <1>3, <1>4, <1>5, <1>6

-----------------------------------------------------------------------------
(* Every step keeps it.                                                    *)

LEMMA NothingYet ==
    /\ <<>> \in Registries /\ DOMAIN <<>> = {} /\ NoTurn \in Pending
    /\ ~NoTurn.open /\ NoTurn.surfaced = {} /\ NoTurn.failed = 0
  <1>1. <<>> \in [1..0 -> Seed] /\ DOMAIN <<>> = {}
    OBVIOUS
  <1>2. <<>> \in Registries
    BY <1>1, RegistryIs
  <1>3. QED
    BY <1>1, <1>2 DEF NoTurn, Pending

LEMMA InitEstablishes ==
    ASSUME Init
    PROVE  IInv
  <1>1. /\ DOMAIN seeds = {} /\ DOMAIN born = {} /\ DOMAIN clusterOf = {}
        /\ Len(clusters) = 0 /\ Len(gate) = 0 /\ Len(influence) = 0
        /\ seeds \in Registries /\ clusters = <<>> /\ gate = <<>> /\ influence = <<>>
        /\ born = <<>> /\ clusterOf = <<>> /\ pending = NoTurn /\ turn = 0
    BY NothingYet DEF Init
  <1>2. 1..0 = {}
    OBVIOUS
  <1>3. ClustersOK(clusterOf, clusters, turn - 1)
    <2>1. clusterOf \in [DOMAIN clusterOf -> 1..Len(clusters)]
      BY <1>1
    <2>2. QED
      BY <1>1, <1>2, <2>1 DEF ClustersOK
  <1>4. Shapes
    <2>1. born \in [DOMAIN born -> Nat]
      BY <1>1
    <2>2. turn \in 0..MaxTurns
      BY <1>1, ConversationAssumption
    <2>3. gate \in Seq(GateEvent) /\ influence \in Seq(Influence)
      BY <1>1
    <2>4. pending \in Pending /\ pending.surfaced = {} /\ ~pending.open
      BY <1>1, NothingYet
    <2>5. QED
      BY <1>1, <1>3, <2>1, <2>2, <2>3, <2>4 DEF Shapes
  <1>5. ~pending.open /\ pending.surfaced = {} /\ Live(seeds) = {}
    BY <1>1, NothingYet DEF Live
  <1>6. LogInv /\ InfluenceInv /\ ContextStaysAuthorized /\ ExpiryInv
    BY <1>1, <1>2, <1>5 DEF LogInv, Behind, InfluenceInv, ContextStaysAuthorized, ExpiryInv
  <1>7. EarnInv /\ SyncInv
    BY <1>1, <1>2, <1>5 DEF EarnInv, EarnersLead, Earned, SyncInv, InStep
  <1>8. RecurrenceNeedsDistinctTurns /\ QuietRiseIsExplained
    BY <1>1, <1>2 DEF RecurrenceNeedsDistinctTurns, QuietRiseIsExplained
  <1>9. QED
    BY <1>4, <1>6, <1>7, <1>8 DEF IInv

LEMMA PrepareFailsKeeps ==
    ASSUME IInv, NEW faded, PrepareFails(faded)
    PROVE  IInv'
  <1> DEFINE events == ExpiryEvents(AgedSeeds(faded))
  <1>1. Shapes /\ turn \in Nat /\ ~pending.open /\ gate \in Seq(GateEvent)
    BY DEF IInv, Shapes, PrepareFails
  <1>2. /\ gate' = gate \o events
        /\ UNCHANGED <<seeds, born, clusterOf, clusters, influence, turn, pending>>
    BY DEF PrepareFails, recurrence
  <1>3. /\ events \in Seq(GateEvent)
        /\ \A k \in 1..Len(events) :
              /\ events[k].seed \in DOMAIN seeds /\ events[k].recurrence = 0
              /\ events[k].version = seeds[events[k].seed].version
    BY <1>1, AgedSeedsKeep, ExpiryEventsSay DEF Shapes
  <1> HIDE DEF events
  <1>4. /\ RecurrenceNeedsDistinctTurns' /\ QuietRiseIsExplained'
        /\ \A id : Earned(id)' <=> Earned(id)
        /\ \A id : Leads(id)' <=> Leads(id)
        /\ \A id : Contradicted(id) => Contradicted(id)'
    BY <1>1, <1>2, <1>3, QuietEvents DEF IInv
  <1>5. Shapes'
    <2>1. gate' \in Seq(GateEvent)
      BY <1>1, <1>2, <1>3, LogGrows
    <2>2. QED
      BY <1>1, <1>2, <2>1 DEF Shapes
  <1>6. LogInv'
    <2>1. SUFFICES ASSUME NEW i \in 1..Len(gate')
                   PROVE  /\ gate'[i].seed \in DOMAIN seeds
                          /\ gate'[i].version <= seeds[gate'[i].seed].version
      BY <1>1, <1>2 DEF LogInv, Behind
    <2>2. CASE i \in 1..Len(gate) /\ gate'[i] = gate[i]
      BY <2>2 DEF IInv, LogInv, Behind
    <2>3. CASE \E k \in 1..Len(events) : gate'[i] = events[k]
      <3>1. PICK k \in 1..Len(events) : gate'[i] = events[k]
        BY <2>3
      <3>2. events[k].version \in Nat
        <4>1. events[k] \in GateEvent
          BY <1>3
        <4>2. QED
          BY <4>1 DEF GateEvent
      <3>3. QED
        BY <1>3, <3>1, <3>2
    <2>4. QED
      BY <1>1, <1>2, <1>3, <2>2, <2>3, LogGrows
  <1>7. InfluenceInv' /\ ContextStaysAuthorized' /\ ExpiryInv'
    BY <1>1, <1>2 DEF IInv, InfluenceInv, ContextStaysAuthorized, ExpiryInv
  <1>8. EarnInv'
    BY <1>1, <1>2, <1>4 DEF IInv, EarnInv, EarnersLead
  <1>9. SyncInv'
    BY <1>1, <1>2, <1>4 DEF IInv, SyncInv, InStep
  <1>10. QED
    BY <1>4, <1>5, <1>6, <1>7, <1>8, <1>9 DEF IInv

LEMMA AbortKeeps ==
    ASSUME IInv, Abort
    PROVE  IInv'
  <1>1. Shapes /\ pending.open
    BY DEF IInv, Abort
  <1> DEFINE n == pending.influenced
  <1>2. /\ seeds' = pending.before /\ influence' = SubSeq(influence, 1, n) /\ pending' = NoTurn
        /\ UNCHANGED <<born, clusterOf, clusters, gate, turn>>
    BY DEF Abort, recurrence
  <1>3. /\ pending.before \in Registries /\ n \in Nat /\ influence \in Seq(Influence)
        /\ n <= Len(influence)
    BY <1>1 DEF Shapes, Pending
  <1> HIDE DEF n
  <1>4. /\ influence' \in Seq(Influence) /\ Len(influence') = n
        /\ \A i \in 1..n : influence'[i] = influence[i] /\ i \in 1..Len(influence)
    BY <1>2, <1>3
  <1>5. ~pending'.open /\ pending'.surfaced = {} /\ pending'.failed = 0 /\ pending' \in Pending
    BY <1>2, NothingYet
  <1>6. Shapes'
    BY <1>1, <1>2, <1>3, <1>4, <1>5 DEF Shapes
  <1>7. LogInv'
    BY <1>1, <1>2, <1>5 DEF IInv, LogInv, Behind
  <1>8. InfluenceInv'
    <2>1. \A i \in 1..n : influence[i].turn < turn
      <3>1. \A i \in 1..n : i \in 1..Len(influence) /\ ~(i > pending.influenced)
        BY <1>3, <1>4 DEF n
      <3>2. QED
        BY <1>1, <3>1 DEF IInv, InfluenceInv
    <2>2. \A i, j \in 1..n : i # j => influence[i].seed # influence[j].seed
                                      \/ influence[i].turn # influence[j].turn
      BY <1>4 DEF IInv, InfluenceInv
    <2>3. QED
      BY <1>2, <1>4, <1>5, <2>1, <2>2 DEF InfluenceInv
  <1>9. ContextStaysAuthorized' /\ ExpiryInv'
    BY <1>5 DEF ContextStaysAuthorized, ExpiryInv
  <1>10. EarnInv'
    <2>1. \A id : (Earned(id)' <=> Earned(id)) /\ (Leads(id)' <=> Leads(id))
      BY <1>2 DEF Earned, Leads
    <2>2. QED
      BY <1>1, <1>2, <1>5, <2>1 DEF IInv, EarnInv, EarnersLead
  <1>11. SyncInv'
    <2>1. \A id : (Contradicted(id)' <=> Contradicted(id)) /\ (Leads(id)' <=> Leads(id))
      BY <1>2 DEF Contradicted, Leads
    <2>2. QED
      BY <1>1, <1>2, <1>5, <2>1 DEF IInv, SyncInv, InStep
  <1>12. RecurrenceNeedsDistinctTurns' /\ QuietRiseIsExplained'
    BY <1>2 DEF IInv, RecurrenceNeedsDistinctTurns, QuietRiseIsExplained
  <1>13. QED
    BY <1>6, <1>7, <1>8, <1>9, <1>10, <1>11, <1>12 DEF IInv

LEMMA PrepareKeeps ==
    ASSUME IInv, NEW faded, NEW matching, NEW surfaced, Prepare(faded, matching, surfaced)
    PROVE  IInv'
  <1> DEFINE aged == AgedSeeds(faded)
             ready == Reactivated(aged, matching)
             events == ExpiryEvents(aged)
             records == RecordsFor(surfaced, ready)
             n == Len(influence)
  <1>1. /\ Shapes /\ turn \in Nat /\ ~pending.open /\ turn < MaxTurns
        /\ gate \in Seq(GateEvent) /\ influence \in Seq(Influence)
        /\ seeds \in Registries /\ DOMAIN seeds \subseteq Ids /\ n \in Nat /\ Len(gate) \in Nat
    BY DEF IInv, Shapes, Prepare
  <1>2. /\ surfaced \in Selections(ready) /\ seeds' = ready /\ gate' = gate \o events
        /\ influence' = influence \o records
        /\ pending' = [surfaced |-> surfaced, before |-> seeds, influenced |-> n,
                       logged |-> Len(gate), failed |-> 0, open |-> TRUE]
        /\ UNCHANGED <<born, clusterOf, clusters, turn>>
    BY DEF Prepare, recurrence
  <1>3. /\ aged \in Registries /\ DOMAIN aged = DOMAIN seeds
        /\ \A id \in DOMAIN seeds : SameRecord(seeds[id], aged[id])
    BY <1>1, AgedSeedsKeep
  <1>4. /\ events \in Seq(GateEvent)
        /\ \A k \in 1..Len(events) :
              /\ events[k].seed \in DOMAIN seeds /\ events[k].recurrence = 0
              /\ seeds[events[k].seed].status # "EXPIRED" /\ events[k].decision = "expired"
              /\ events[k].version = seeds[events[k].seed].version
              /\ events[k].version \in Nat
    <2> HIDE DEF aged
    <2>1. /\ events \in Seq(GateEvent)
          /\ \A k \in 1..Len(events) :
                /\ events[k].seed \in DOMAIN seeds /\ events[k].recurrence = 0
                /\ seeds[events[k].seed].status # "EXPIRED" /\ events[k].decision = "expired"
                /\ events[k].version = seeds[events[k].seed].version
      BY <1>1, <1>3, ExpiryEventsSay
    <2> HIDE DEF events
    <2>2. ASSUME NEW k \in 1..Len(events) PROVE events[k].version \in Nat
      <3>1. events[k] \in GateEvent
        BY <2>1
      <3>2. QED
        BY <3>1 DEF GateEvent
    <2>3. QED
      BY <2>1, <2>2
  <1> HIDE DEF events
  <1>5. /\ ready \in Registries /\ DOMAIN ready = DOMAIN seeds
        /\ \A id \in DOMAIN seeds : SameRecord(seeds[id], ready[id])
    <2> HIDE DEF aged
    <2>1. /\ ready \in Registries /\ DOMAIN ready = DOMAIN aged
          /\ \A id \in DOMAIN aged : SameRecord(aged[id], ready[id])
      BY <1>3, ReactivatedKeeps
    <2> HIDE DEF ready
    <2>2. QED
      BY <1>3, <2>1 DEF SameRecord
  <1> HIDE DEF aged, ready
  <1>6. /\ surfaced \subseteq DOMAIN ready
        /\ \A id \in surfaced : ready[id].status = "PROMOTED" /\ ~ready[id].blocked
    BY <1>2 DEF Selections, Surfaceable
  <1>7. /\ records \in Seq(Influence)
        /\ \A k \in 1..Len(records) : records[k].turn = turn
        /\ \A k, l \in 1..Len(records) : k # l => records[k].seed # records[l].seed
        /\ \A id \in surfaced : \E k \in 1..Len(records) :
              records[k] = [seed |-> id, version |-> ready[id].version, turn |-> turn]
    BY <1>1, <1>5, <1>6, RecordsForSay
  <1> HIDE DEF records
  <1>8. /\ influence' \in Seq(Influence) /\ Len(influence') = n + Len(records)
        /\ Len(records) \in Nat
        /\ \A i \in 1..n : influence'[i] = influence[i]
        /\ \A k \in 1..Len(records) : influence'[n + k] = records[k]
        /\ \A i \in 1..(n + Len(records)) : i \in 1..n \/ \E k \in 1..Len(records) : i = n + k
    <2> DEFINE longer == influence \o records
    <2>1. /\ longer \in Seq(Influence) /\ Len(longer) = n + Len(records)
          /\ n \in Nat /\ Len(records) \in Nat
          /\ \A i \in 1..n : longer[i] = influence[i]
          /\ \A k \in 1..Len(records) : longer[n + k] = records[k]
          /\ \A i \in 1..(n + Len(records)) : i \in 1..n \/ \E k \in 1..Len(records) : i = n + k
      <3>1. influence \in Seq(Influence) /\ records \in Seq(Influence)
        BY <1>1, <1>7
      <3>2. QED
        BY <3>1, Concatenated, Zenon
    <2>2. influence' = longer
      BY <1>2
    <2> HIDE DEF longer
    <2>3. QED
      BY <2>1, <2>2
  <1>9. /\ RecurrenceNeedsDistinctTurns' /\ QuietRiseIsExplained'
        /\ \A id : Earned(id)' <=> Earned(id)
        /\ \A id : Leads(id)' <=> Leads(id)
        /\ \A id : Contradicted(id) => Contradicted(id)'
    BY <1>1, <1>2, <1>4, QuietEvents DEF IInv
  <1>10. /\ gate' \in Seq(GateEvent) /\ Len(gate) <= Len(gate')
         /\ \A i \in 1..Len(gate') :
               \/ i \in 1..Len(gate) /\ gate'[i] = gate[i]
               \/ i > Len(gate) /\ \E k \in 1..Len(events) : gate'[i] = events[k]
    <2>1. /\ gate' \in Seq(GateEvent) /\ Len(gate') = Len(gate) + Len(events)
          /\ Len(events) \in Nat
          /\ \A i \in 1..Len(gate') :
                \/ i \in 1..Len(gate) /\ gate'[i] = gate[i]
                \/ i > Len(gate) /\ \E k \in 1..Len(events) : gate'[i] = events[k]
      BY <1>1, <1>2, <1>4, LogGrows
    <2>2. QED
      BY <1>1, <2>1
  <1>11. /\ pending'.surfaced = surfaced /\ pending'.before = seeds /\ pending'.influenced = n
         /\ pending'.logged = Len(gate) /\ pending'.failed = 0 /\ pending'.open
    BY <1>2
  <1>12. pending.failed = 0
    BY <1>1, NothingYet DEF Shapes
  <1> HIDE DEF n
  <1>13. Shapes'
    <2>1. pending' \in Pending
      <3>1. surfaced \in SUBSET Ids
        BY <1>1, <1>5, <1>6
      <3>2. QED
        BY <1>1, <1>2, <3>1 DEF Pending
    <2>2. n <= Len(influence')
      BY <1>1, <1>8
    <2>3. QED
      BY <1>1, <1>2, <1>5, <1>6, <1>8, <1>10, <1>11, <2>1, <2>2 DEF Shapes
  <1>14. LogInv'
    <2>1. ASSUME NEW i \in 1..Len(gate')
          PROVE  /\ gate'[i].seed \in DOMAIN seeds
                 /\ gate'[i].version <= seeds[gate'[i].seed].version
      <3>1. CASE i \in 1..Len(gate) /\ gate'[i] = gate[i]
        BY <3>1 DEF IInv, LogInv, Behind
      <3>2. CASE \E k \in 1..Len(events) : gate'[i] = events[k]
        BY <1>4, <3>2
      <3>3. QED
        BY <1>10, <3>1, <3>2
    <2>2. \A id \in DOMAIN seeds : ready[id].version = seeds[id].version
      BY <1>5 DEF SameRecord
    <2>3. QED
      BY <1>2, <1>5, <1>11, <2>1, <2>2 DEF LogInv, Behind
  <1>15. InfluenceInv'
    <2>1. \A i \in 1..n : influence[i].turn < turn
      BY <1>1 DEF IInv, InfluenceInv, n
    <2>2. ASSUME NEW i \in 1..Len(influence')
          PROVE  IF i > n THEN influence'[i].turn = turn ELSE influence'[i].turn < turn
      <3>1. CASE i \in 1..n
        BY <1>1, <1>8, <2>1, <3>1
      <3>2. CASE \E k \in 1..Len(records) : i = n + k
        BY <1>1, <1>7, <1>8, <3>2
      <3>3. QED
        BY <1>8, <3>1, <3>2
    <2>3. ASSUME NEW i \in 1..Len(influence'), NEW j \in 1..Len(influence'), i # j,
                 influence'[i].turn = influence'[j].turn
          PROVE  influence'[i].seed # influence'[j].seed
      <3>1. \A x \in 1..Len(influence') : x \in 1..n \/ \E k \in 1..Len(records) : x = n + k
        BY <1>8
      <3>2. influence \in Seq(Influence) /\ \A x \in 1..n : influence[x].turn # turn
        BY <1>1, <2>1
      <3>3. CASE i \in 1..n /\ j \in 1..n
        BY <1>8, <2>3, <3>3 DEF IInv, InfluenceInv, n
      <3> DEFINE late(x) == x \notin 1..n
      <3>4. \A x \in 1..Len(influence') : late(x) <=> influence'[x].turn = turn
        <4>1. \A x \in 1..n : influence'[x].turn # turn
          BY <1>8, <3>2
        <4>2. \A x \in 1..Len(influence') : late(x) => influence'[x].turn = turn
          BY <1>7, <1>8, <3>1
        <4>3. QED
          BY <4>1, <4>2
      <3>5. late(i) <=> late(j)
        BY <2>3, <3>4
      <3>6. CASE i \notin 1..n /\ j \notin 1..n
        <4>1. PICK k \in 1..Len(records) : i = n + k
          BY <3>1, <3>6
        <4>2. PICK l \in 1..Len(records) : j = n + l
          BY <3>1, <3>6
        <4>3. k # l /\ influence'[i] = records[k] /\ influence'[j] = records[l]
          BY <1>8, <2>3, <4>1, <4>2
        <4>4. QED
          BY <1>7, <4>3
      <3>7. QED
        BY <3>3, <3>5, <3>6
    <2>4. QED
      BY <1>2, <1>11, <2>2, <2>3 DEF InfluenceInv
  <1>16. ContextStaysAuthorized'
    <2>1. ASSUME NEW id \in surfaced
          PROVE  \E i \in 1..Len(influence') :
                    influence'[i] = [seed |-> id, version |-> ready[id].version, turn |-> turn]
      <3>1. PICK k \in 1..Len(records) :
                    records[k] = [seed |-> id, version |-> ready[id].version, turn |-> turn]
        BY <1>7
      <3>2. n + k \in 1..Len(influence') /\ influence'[n + k] = records[k]
        <4>1. n \in Nat /\ Len(records) \in Nat /\ Len(influence') = n + Len(records)
          BY <1>1, <1>8 DEF n
        <4>2. n + k \in 1..Len(influence')
          BY <4>1
        <4>3. QED
          BY <1>8, <4>2
      <3>3. QED
        BY <3>1, <3>2
    <2>2. QED
      BY <1>2, <1>6, <1>11, <2>1 DEF ContextStaysAuthorized
  <1>17. ExpiryInv'
    <2>1. ASSUME NEW i \in (Len(gate) + 1)..Len(gate')
          PROVE  /\ gate'[i].decision = "expired" /\ gate'[i].seed \in DOMAIN seeds
                 /\ seeds[gate'[i].seed].status # "EXPIRED"
      <3>1. i \in 1..Len(gate') /\ i \notin 1..Len(gate)
        BY <1>1
      <3>2. PICK k \in 1..Len(events) : gate'[i] = events[k]
        BY <1>10, <3>1
      <3>3. QED
        BY <1>4, <3>2
    <2>2. QED
      BY <1>11, <2>1 DEF ExpiryInv
  <1>18. Live(ready) \subseteq Live(seeds)
    BY <1>5 DEF Live, SameRecord
  <1>19. EarnInv'
    BY <1>2, <1>9, <1>11, <1>18 DEF IInv, EarnInv, EarnersLead
  <1>20. SyncInv'
    <2>1. InStep(seeds)
      BY <1>12 DEF IInv, SyncInv
    <2>2. \A id \in Live(ready) : id \in Live(seeds) /\ ready[id].occurrences = seeds[id].occurrences
      BY <1>5, <1>18 DEF SameRecord, Live
    <2>3. QED
      BY <1>2, <1>9, <1>11, <2>1, <2>2 DEF SyncInv, InStep
  <1>21. QED
    BY <1>9, <1>13, <1>14, <1>15, <1>16, <1>17, <1>19, <1>20 DEF IInv

\* An authority change of the host: one seed, one event, the next version.
LEMMA AuthorityKeeps ==
    ASSUME IInv, ~pending.open, NEW id \in DOMAIN seeds, seeds[id].status # "EXPIRED",
           NEW changed \in Seed, changed.version = seeds[id].version + 1,
           changed.status # "EXPIRED",
           NEW decision \in {"validated", "promoted", "contradicted", "contradiction_resolved"},
           decision = "contradicted" \/ changed.occurrences = seeds[id].occurrences,
           seeds' = [seeds EXCEPT ![id] = changed],
           LogOne(id, decision, changed.version),
           UNCHANGED <<born, clusterOf, clusters, influence, turn, pending>>
    PROVE  IInv'
  <1> DEFINE event == [seed |-> id, decision |-> decision, recurrence |-> 0,
                       version |-> changed.version, turn |-> turn, retried |-> FALSE]
             events == <<event>>
  <1>1. /\ Shapes /\ turn \in Nat /\ gate \in Seq(GateEvent) /\ Len(gate) \in Nat
        /\ id \in Ids /\ pending.surfaced = {} /\ pending.failed = 0
    BY NothingYet DEF IInv, Shapes
  <1>2. PICK n \in Nat : seeds \in [1..n -> Seed] /\ DOMAIN seeds = 1..n
    BY RegistryDomain DEF IInv, Shapes
  <1>3. changed.version \in Nat /\ \A x \in 1..n : seeds[x].version \in Nat
    <2>1. \A seed \in Seed : seed.version \in Nat
      BY DEF Seed
    <2>2. QED
      BY <1>2, <2>1
  <1>4. event \in GateEvent
    BY <1>1, <1>3 DEF GateEvent
  <1>5. gate' = Append(gate, event)
    BY DEF LogOne
  <1>6. /\ event.seed = id /\ event.recurrence = 0 /\ event.version = changed.version
        /\ event.decision = decision
    OBVIOUS
  <1> HIDE DEF event
  <1>7. /\ gate' = gate \o events /\ events \in Seq(GateEvent)
        /\ \A k \in 1..Len(events) : events[k] = event
        /\ 1 \in 1..Len(events) /\ events[1] = event /\ Len(events) = 1
    <2>1. gate' = gate \o events
      BY <1>1, <1>4, <1>5
    <2>2. QED
      BY <1>4, <2>1
  <1>8. /\ seeds' \in [1..n -> Seed] /\ seeds'[id] = changed
        /\ \A x \in 1..n : x # id => seeds'[x] = seeds[x]
    BY <1>2
  <1>9. /\ RecurrenceNeedsDistinctTurns' /\ QuietRiseIsExplained'
        /\ \A x : Earned(x)' <=> Earned(x)
        /\ \A x : Leads(x)' <=> Leads(x)
        /\ \A x : Contradicted(x) => Contradicted(x)'
    <2>1. \A k \in 1..Len(events) : events[k].recurrence = 0
      BY <1>6, <1>7
    <2> HIDE DEF events
    <2>2. QED
      BY <1>1, <1>7, <2>1, QuietEvents DEF IInv
  <1>10. /\ gate' \in Seq(GateEvent) /\ Len(gate') = Len(gate) + 1
         /\ gate'[Len(gate) + 1] = event
         /\ \A i \in 1..Len(gate') :
               (i \in 1..Len(gate) /\ gate'[i] = gate[i]) \/ gate'[i] = event
    BY <1>1, <1>4, <1>5
  <1>11. Shapes'
    <2>1. seeds' \in Registries /\ DOMAIN seeds' = DOMAIN seeds
      BY <1>2, <1>8, RegistryIs
    <2>2. QED
      BY <1>1, <1>10, <2>1 DEF Shapes
  <1>12. LogInv'
    <2>1. \A x \in 1..n : seeds[x].version <= seeds'[x].version
      BY <1>3, <1>8
    <2>2. ASSUME NEW i \in 1..Len(gate')
          PROVE  /\ gate'[i].seed \in 1..n
                 /\ gate'[i].version <= seeds'[gate'[i].seed].version
      <3>1. CASE i \in 1..Len(gate) /\ gate'[i] = gate[i]
        <4>1. gate[i].seed \in 1..n /\ gate[i].version <= seeds[gate[i].seed].version
          BY <1>2, <3>1 DEF IInv, LogInv, Behind
        <4>2. gate[i].version \in Nat
          <5>1. gate[i] \in GateEvent
            BY <1>1, <3>1
          <5>2. QED
            BY <5>1 DEF GateEvent
        <4>3. seeds[gate[i].seed].version \in Nat /\ seeds'[gate[i].seed].version \in Nat
          <5>1. \A seed \in Seed : seed.version \in Nat
            BY DEF Seed
          <5>2. QED
            BY <1>2, <1>8, <4>1, <5>1
        <4>4. QED
          BY <2>1, <3>1, <4>1, <4>2, <4>3
      <3>2. CASE gate'[i] = event
        BY <1>2, <1>3, <1>6, <1>8, <3>2
      <3>3. QED
        BY <1>10, <3>1, <3>2
    <2>3. QED
      BY <1>8, <2>2 DEF LogInv, Behind
  <1>13. InfluenceInv' /\ ContextStaysAuthorized' /\ ExpiryInv'
    BY <1>1 DEF IInv, InfluenceInv, ContextStaysAuthorized, ExpiryInv
  <1>14. Live(seeds)' = Live(seeds)
    BY <1>2, <1>8 DEF Live
  <1>15. EarnInv'
    BY <1>9, <1>14 DEF IInv, EarnInv, EarnersLead
  <1>16. SyncInv'
    <2>1. InStep(seeds)
      BY <1>1 DEF IInv, SyncInv
    <2>2. decision = "contradicted" => Contradicted(id)'
      <3>1. Len(gate) + 1 \in 1..Len(gate')
        BY <1>1, <1>10
      <3>2. QED
        BY <1>6, <1>10, <3>1 DEF Contradicted
    <2>3. \A x \in Live(seeds) : x \in 1..n
      BY <1>2 DEF Live
    <2>4. InStep(seeds)'
      BY <1>8, <1>9, <1>14, <2>1, <2>2, <2>3 DEF InStep
    <2>5. QED
      BY <2>4 DEF SyncInv
  <1>17. QED
    BY <1>9, <1>11, <1>12, <1>13, <1>15, <1>16 DEF IInv

LEMMA SubmitEvidenceKeeps ==
    ASSUME IInv, NEW id \in DOMAIN seeds, SubmitEvidence(id)
    PROVE  IInv'
  <1>1. seeds[id] \in Seed /\ seeds[id].status # "EXPIRED" /\ ~pending.open
    <2>1. PICK n \in Nat : seeds \in [1..n -> Seed] /\ DOMAIN seeds = 1..n
      BY RegistryDomain DEF IInv, Shapes
    <2>2. QED
      BY <2>1 DEF SubmitEvidence, AuthorityMayChange
  <1> DEFINE changed == Confirmed(seeds[id])
             decision == IF seeds'[id].status = "PROMOTED" THEN "promoted" ELSE "validated"
  <1>2. /\ changed \in Seed /\ changed.version = seeds[id].version + 1
        /\ changed.occurrences = seeds[id].occurrences /\ changed.status # "EXPIRED"
    BY <1>1, ConfirmedKeeps
  <1>3. seeds' = [seeds EXCEPT ![id] = changed] /\ seeds'[id] = changed
    BY DEF SubmitEvidence
  <1>4. /\ LogOne(id, decision, changed.version)
        /\ UNCHANGED <<born, clusterOf, clusters, influence, turn, pending>>
    BY <1>3 DEF SubmitEvidence, recurrence
  <1>5. decision \in {"validated", "promoted", "contradicted", "contradiction_resolved"}
    OBVIOUS
  <1> HIDE DEF changed, decision
  <1>6. QED
    BY <1>1, <1>2, <1>3, <1>4, <1>5, AuthorityKeeps

LEMMA SubmitContradictionKeeps ==
    ASSUME IInv, NEW id \in DOMAIN seeds, SubmitContradiction(id)
    PROVE  IInv'
  <1>1. seeds[id] \in Seed /\ seeds[id].status # "EXPIRED" /\ ~pending.open
    <2>1. PICK n \in Nat : seeds \in [1..n -> Seed] /\ DOMAIN seeds = 1..n
      BY RegistryDomain DEF IInv, Shapes
    <2>2. QED
      BY <2>1 DEF SubmitContradiction, AuthorityMayChange
  <1> DEFINE changed == Penalized(seeds[id])
  <1>2. /\ changed \in Seed /\ changed.version = seeds[id].version + 1
        /\ changed.status # "EXPIRED"
    <2> DEFINE w == IF seeds[id].weight = 0 THEN 0 ELSE seeds[id].weight - 1
               v == seeds[id].version + 1
    <2>1. w \in Nat /\ v \in Nat
      BY <1>1 DEF Seed
    <2>2. changed = [seeds[id] EXCEPT !.weight = w, !.blocked = TRUE, !.status = "OPEN",
                                      !.occurrences = 1, !.dormant = 0, !.version = v]
      BY DEF Penalized
    <2>3. changed = [topic |-> seeds[id].topic, status |-> "OPEN", occurrences |-> 1,
                     weight |-> w, blocked |-> TRUE, dormant |-> 0, version |-> v]
      <3> HIDE DEF w, v, changed
      <3>1. QED
        BY <1>1, <2>2 DEF Seed
    <2>4. seeds[id].topic \in Topics
      BY <1>1 DEF Seed
    <2> HIDE DEF w, changed
    <2>5. QED
      BY <2>1, <2>3, <2>4 DEF Seed
  <1>3. seeds' = [seeds EXCEPT ![id] = changed] /\ seeds'[id] = changed
    BY DEF SubmitContradiction
  <1>4. /\ LogOne(id, "contradicted", changed.version)
        /\ UNCHANGED <<born, clusterOf, clusters, influence, turn, pending>>
    BY <1>3 DEF SubmitContradiction, recurrence
  <1> HIDE DEF changed
  <1>5. QED
    BY <1>1, <1>2, <1>3, <1>4, AuthorityKeeps

LEMMA ResolveContradictionKeeps ==
    ASSUME IInv, NEW id \in DOMAIN seeds, ResolveContradiction(id)
    PROVE  IInv'
  <1>1. seeds[id] \in Seed /\ seeds[id].status # "EXPIRED" /\ ~pending.open
    <2>1. PICK n \in Nat : seeds \in [1..n -> Seed] /\ DOMAIN seeds = 1..n
      BY RegistryDomain DEF IInv, Shapes
    <2>2. QED
      BY <2>1 DEF ResolveContradiction, AuthorityMayChange
  <1> DEFINE v == seeds[id].version + 1
             changed == [seeds[id] EXCEPT !.blocked = FALSE, !.version = v]
  <1>2. /\ changed \in Seed /\ changed.version = v
        /\ changed.occurrences = seeds[id].occurrences /\ changed.status # "EXPIRED"
    <2>1. v \in Nat
      BY <1>1 DEF Seed
    <2> HIDE DEF v
    <2>2. [seeds[id] EXCEPT !.blocked = FALSE] \in Seed
      BY <1>1 DEF Seed
    <2>3. QED
      BY <1>1, <2>1, <2>2 DEF Seed
  <1>3. seeds' = [seeds EXCEPT ![id] = changed] /\ seeds'[id] = changed
    BY DEF ResolveContradiction
  <1>4. /\ LogOne(id, "contradiction_resolved", changed.version)
        /\ UNCHANGED <<born, clusterOf, clusters, influence, turn, pending>>
    BY <1>3 DEF ResolveContradiction, recurrence
  <1>5. changed.version = seeds[id].version + 1
    BY <1>2
  <1> HIDE DEF changed
  <1>6. QED
    BY <1>1, <1>2, <1>3, <1>4, <1>5, AuthorityKeeps

LEMMA AdmittedIsList ==
    ASSUME NEW candidates \in CandidateLists
    PROVE  /\ Admitted(candidates) \in Seq(Candidate)
           /\ pending.surfaced # {} => Admitted(candidates) = <<>>
  <1>1. PICK n \in 0..MaxCandidates : candidates \in [1..n -> Candidate]
    BY DEF CandidateLists
  <1>2. n \in Nat
    BY <1>1, ConversationAssumption
  <1>3. candidates \in Seq(Candidate) /\ <<>> \in Seq(Candidate)
    BY <1>1, <1>2
  <1>4. QED
    BY <1>3 DEF Admitted

LEMMA NothingIngested ==
    /\ Ingested(<<>>).seeds = seeds /\ Ingested(<<>>).accepted = <<>>
  <1>1. Len(<<>>) = 0 /\ 0 \in Nat
    OBVIOUS
  <1> DEFINE none == <<>>
  <1>2. Len(none) \in Nat
    BY <1>1
  <1> HIDE DEF none
  <1>3. PICK batch : IngestsTo(batch, none) /\ Ingested(none) = batch[Len(none)]
    BY <1>2, IngestedOneByOne
  <1>4. QED
    BY <1>1, <1>3 DEF IngestsTo, none

LEMMA ObserveFailsKeeps ==
    ASSUME IInv, NEW candidates \in CandidateLists, ObserveFails(candidates)
    PROVE  IInv'
  <1> DEFINE admitted == Admitted(candidates)
             batch == Ingested(admitted)
  <1>1. /\ Shapes /\ pending.open /\ batch.accepted # <<>> /\ DOMAIN batch.seeds \subseteq Ids
        /\ seeds' = batch.seeds /\ pending' = [pending EXCEPT !.failed = pending.failed + 1]
        /\ UNCHANGED <<born, clusterOf, clusters, gate, influence, turn>>
    BY DEF IInv, ObserveFails, recurrence
  <1>2. BatchInv(batch)
    <2>1. seeds \in Registries /\ admitted \in Seq(Candidate)
      BY <1>1, AdmittedIsList DEF Shapes
    <2> HIDE DEF admitted
    <2>2. QED
      BY <2>1, IngestionKeeps
  <1>3. pending.surfaced = {}
    <2>1. admitted = <<>> => batch.accepted = <<>>
      BY NothingIngested
    <2>2. QED
      BY <1>1, <2>1, AdmittedIsList
  <1> HIDE DEF batch
  <1>4. /\ seeds' \in Registries /\ DOMAIN seeds \subseteq DOMAIN seeds'
        /\ \A id \in DOMAIN seeds : SameAuthority(seeds[id], seeds'[id])
    BY <1>1, <1>2 DEF BatchInv, Grown
  <1>5. /\ pending' \in Pending /\ pending'.open /\ pending'.failed # 0
        /\ pending'.surfaced = {} /\ pending'.before = pending.before
        /\ pending'.influenced = pending.influenced /\ pending'.logged = pending.logged
    <2> DEFINE f == pending.failed + 1
    <2>1. pending \in Pending /\ f \in Nat /\ f # 0
      BY <1>1 DEF Shapes, Pending
    <2>2. pending' = [pending EXCEPT !.failed = f]
      BY <1>1
    <2> HIDE DEF f
    <2>3. QED
      BY <1>1, <1>3, <2>1, <2>2 DEF Pending
  <1>6. Shapes'
    <2>1. pending'.open => /\ turn < MaxTurns
                           /\ DOMAIN clusterOf \subseteq DOMAIN pending.before
                           /\ DOMAIN pending.before \subseteq DOMAIN seeds'
                           /\ pending.influenced <= Len(influence)
                           /\ pending.logged <= Len(gate)
      BY <1>1, <1>4 DEF Shapes
    <2>2. QED
      BY <1>1, <1>4, <1>5, <2>1 DEF Shapes
  <1>7. LogInv'
    BY <1>1, <1>4, <1>5 DEF IInv, LogInv, Behind, SameAuthority
  <1>8. InfluenceInv' /\ ContextStaysAuthorized' /\ ExpiryInv'
    BY <1>1, <1>5 DEF IInv, InfluenceInv, ContextStaysAuthorized, ExpiryInv
  <1>9. \A id : /\ Earned(id)' <=> Earned(id)
                /\ Leads(id)' <=> Leads(id)
                /\ Contradicted(id)' <=> Contradicted(id)
    BY <1>1 DEF Earned, Leads, Contradicted
  <1>10. EarnInv'
    <2>1. ASSUME NEW id \in Live(seeds)', Earned(id)
          PROVE  Leads(id)
      <3>1. id \in DOMAIN seeds
        BY <1>1, <2>1 DEF Live, IInv, EarnInv, Shapes
      <3>2. id \in Live(seeds)
        BY <1>4, <2>1, <3>1 DEF Live, SameAuthority
      <3>3. QED
        BY <2>1, <3>2 DEF IInv, EarnInv, EarnersLead
    <2>2. QED
      BY <1>1, <1>5, <1>9, <2>1 DEF IInv, EarnInv, EarnersLead
  <1>11. SyncInv'
    BY <1>1, <1>5, <1>9 DEF IInv, SyncInv, InStep
  <1>12. RecurrenceNeedsDistinctTurns' /\ QuietRiseIsExplained'
    BY <1>1 DEF IInv, RecurrenceNeedsDistinctTurns, QuietRiseIsExplained
  <1>13. QED
    BY <1>6, <1>7, <1>8, <1>10, <1>11, <1>12 DEF IInv

\* Seeds with recurrence to offer lead the cluster it was counted in.
LEMMA OfferedLead ==
    ASSUME turn \in Nat, NEW batch, BatchInv(batch), NEW st, StateInv(st, batch),
           AcceptedIds(batch) \subseteq DOMAIN st.of,
           NEW id \in Offered(st, Synced(st))
    PROVE  /\ id \in DOMAIN st.of /\ st.clusters[st.of[id]].rep = id
           /\ st.of[id] \in 1..Len(st.clusters)
           /\ Synced(st)[id].occurrences = st.clusters[st.of[id]].count
           /\ Synced(st)[id].occurrences <= turn + 1
           /\ id \in DOMAIN seeds => Synced(st)[id].occurrences # seeds[id].occurrences
  <1> DEFINE synced == Synced(st)
  <1>1. /\ id \in Live(synced)
        /\ id \in DOMAIN seeds => synced[id].occurrences # seeds[id].occurrences
        /\ id \in DOMAIN st.of => st.clusters[st.of[id]].rep = id
    BY DEF Offered
  <1>2. /\ DOMAIN synced = DOMAIN batch.seeds
        /\ \A x \in DOMAIN batch.seeds :
              /\ SameAuthority(batch.seeds[x], synced[x])
              /\ synced[x].occurrences =
                    IF /\ x \in DOMAIN st.of /\ st.clusters[st.of[x]].rep = x
                       /\ batch.seeds[x].status # "EXPIRED"
                    THEN st.clusters[st.of[x]].count ELSE batch.seeds[x].occurrences
    BY SyncedKeeps
  <1> HIDE DEF synced
  <1>3. id \in DOMAIN batch.seeds /\ batch.seeds[id].status # "EXPIRED"
    BY <1>1, <1>2 DEF Live, SameAuthority
  <1>4. id \in DOMAIN st.of
    <2>1. SUFFICES ASSUME id \notin DOMAIN st.of PROVE FALSE
      OBVIOUS
    <2>2. id \in DOMAIN seeds /\ batch.seeds[id] = seeds[id]
      BY <1>3, <2>1 DEF BatchInv
    <2>3. synced[id].occurrences = seeds[id].occurrences
      BY <1>2, <1>3, <2>1, <2>2
    <2>4. QED
      BY <1>1, <2>2, <2>3
  <1>5. synced[id].occurrences = st.clusters[st.of[id]].count
    BY <1>1, <1>2, <1>3, <1>4
  <1>6. st.of[id] \in 1..Len(st.clusters)
    BY <1>4 DEF StateInv, ClustersOK
  <1>7. st.clusters[st.of[id]].count <= turn + 1
    <2> DEFINE refs == st.clusters[st.of[id]].refs
    <2>1. refs \subseteq 0..turn /\ st.clusters[st.of[id]].count = Cardinality(refs)
      BY <1>6 DEF StateInv, ClustersOK
    <2> HIDE DEF refs
    <2>2. IsFiniteSet(0..turn) /\ Cardinality(0..turn) = turn + 1
      BY FS_Interval
    <2> DEFINE turns == 0..turn
    <2>3. IsFiniteSet(turns) /\ Cardinality(turns) = turn + 1 /\ refs \subseteq turns
      BY <2>1, <2>2
    <2> HIDE DEF turns
    <2>4. Cardinality(refs) <= Cardinality(turns)
      BY <2>3, FS_Subset
    <2>5. QED
      BY <2>1, <2>3, <2>4
  <1>8. QED
    BY <1>1, <1>4, <1>5, <1>6, <1>7 DEF synced

LEMMA ObserveKeeps ==
    ASSUME IInv, NEW candidates \in CandidateLists, Observe(candidates)
    PROVE  IInv'
  <1> DEFINE admitted == Admitted(candidates)
             batch == Ingested(admitted)
             st == Registered(batch)
             synced == Synced(st)
             offered == Offered(st, synced)
             after == AfterGate(synced, offered)
             events == RecurrenceEvents(synced, offered, after)
             credited(id) == st.clusters[st.of[id]]
  <1>1. /\ Shapes /\ pending.open /\ turn \in Nat /\ turn < MaxTurns
        /\ gate \in Seq(GateEvent) /\ Len(gate) \in Nat /\ influence \in Seq(Influence)
        /\ seeds \in Registries /\ DOMAIN seeds \subseteq Ids
        /\ DOMAIN clusterOf \subseteq DOMAIN seeds
        /\ ClustersOK(clusterOf, clusters, turn - 1)
        /\ pending.failed \in Nat
    BY DEF IInv, Shapes, Pending, Observe
  <1>2. /\ DOMAIN batch.seeds \subseteq Ids
        /\ seeds' = after /\ clusterOf' = st.of /\ clusters' = st.clusters
        /\ born' = [id \in DOMAIN born \cup AcceptedIds(batch) |->
                      IF id \in DOMAIN born THEN born[id] ELSE turn]
        /\ gate' = gate \o events /\ turn' = turn + 1 /\ pending' = NoTurn
        /\ influence' = influence
    BY DEF Observe, AcceptedIds
  <1>3. BatchInv(batch)
    <2>1. admitted \in Seq(Candidate)
      BY AdmittedIsList
    <2> HIDE DEF admitted
    <2>2. QED
      BY <1>1, <2>1, IngestionKeeps
  <1> HIDE DEF batch
  <1>4. StateInv(st, batch) /\ AcceptedIds(batch) \subseteq DOMAIN st.of
    BY <1>1, <1>2, <1>3, RegistrationKeeps
  <1> HIDE DEF st
  <1>5. /\ synced \in Registries /\ DOMAIN synced = DOMAIN batch.seeds
        /\ \A id \in DOMAIN batch.seeds :
              /\ SameAuthority(batch.seeds[id], synced[id])
              /\ synced[id].occurrences =
                    IF /\ id \in DOMAIN st.of /\ st.clusters[st.of[id]].rep = id
                       /\ batch.seeds[id].status # "EXPIRED"
                    THEN st.clusters[st.of[id]].count ELSE batch.seeds[id].occurrences
    BY <1>4, SyncedKeeps
  <1>6. \A id \in offered :
           /\ id \in DOMAIN st.of /\ st.clusters[st.of[id]].rep = id
           /\ st.of[id] \in 1..Len(st.clusters)
           /\ synced[id].occurrences = st.clusters[st.of[id]].count
           /\ synced[id].occurrences <= turn + 1
           /\ id \in DOMAIN seeds => synced[id].occurrences # seeds[id].occurrences
    BY <1>1, <1>3, <1>4, OfferedLead
  <1>7. offered \subseteq Live(synced)
    BY DEF Offered
  <1> HIDE DEF synced, offered
  <1>8. /\ after \in Registries /\ DOMAIN after = DOMAIN synced
        /\ \A id \in DOMAIN synced :
              /\ after[id].occurrences = synced[id].occurrences
              /\ after[id].status = "EXPIRED" <=> synced[id].status = "EXPIRED"
              /\ synced[id].version <= after[id].version
              /\ after[id].version \in Nat
    BY <1>5, <1>7, AfterGateKeeps
  <1>9. /\ events \in Seq(GateEvent)
        /\ \A k \in 1..Len(events) :
              /\ events[k].seed \in offered
              /\ events[k].decision # "contradicted"
              /\ events[k].recurrence = synced[events[k].seed].occurrences
              /\ events[k].version = after[events[k].seed].version
              /\ events[k].turn = turn
              /\ events[k].retried = (pending.failed > 0)
    BY <1>1, <1>2, <1>5, <1>7, RecurrenceEventsSay
  <1> HIDE DEF after, events
  <1>10. /\ gate' \in Seq(GateEvent) /\ Len(gate') = Len(gate) + Len(events)
         /\ Len(gate) \in Nat /\ Len(events) \in Nat
         /\ \A i \in 1..Len(gate) : i \in 1..Len(gate') /\ gate'[i] = gate[i]
         /\ \A i \in 1..Len(gate') :
               \/ i \in 1..Len(gate) /\ gate'[i] = gate[i]
               \/ i > Len(gate) /\ \E k \in 1..Len(events) : gate'[i] = events[k]
    BY <1>1, <1>2, <1>9, LogGrows
  <1>11. /\ DOMAIN clusterOf \subseteq DOMAIN st.of /\ DOMAIN st.of \subseteq DOMAIN batch.seeds
         /\ \A id \in DOMAIN clusterOf :
               /\ st.of[id] = clusterOf[id] /\ clusterOf[id] \in 1..Len(clusters)
               /\ clusters[clusterOf[id]].refs \subseteq credited(id).refs
               /\ turn \notin credited(id).refs =>
                     /\ credited(id).count = clusters[clusterOf[id]].count
                     /\ credited(id).rep = clusters[clusterOf[id]].rep
               /\ ~NeedsReplacing(batch.seeds, clusters[clusterOf[id]].rep) =>
                     credited(id).rep = clusters[clusterOf[id]].rep
         /\ \A id \in DOMAIN st.of \ DOMAIN clusterOf : turn \in credited(id).refs
    <2>1. \A id \in DOMAIN clusterOf : clusterOf[id] \in 1..Len(clusters)
      BY <1>1 DEF ClustersOK
    <2>2. QED
      BY <1>4, <2>1 DEF StateInv, ClustersKept
  <1>12. /\ \A id \in DOMAIN seeds :
               /\ id \in DOMAIN after /\ seeds[id].version <= after[id].version
               /\ id \in Live(after) <=> id \in Live(seeds)
         /\ \A id \in DOMAIN after : id \in Live(after) <=> batch.seeds[id].status # "EXPIRED"
    <2>1. \A id \in DOMAIN seeds :
             id \in DOMAIN batch.seeds /\ SameAuthority(seeds[id], batch.seeds[id])
      BY <1>3 DEF BatchInv, Grown
    <2>2. QED
      BY <1>5, <1>8, <2>1 DEF Live, SameAuthority
  <1>13. /\ ~pending'.open /\ pending'.surfaced = {} /\ pending'.failed = 0
         /\ pending' \in Pending
    BY <1>2, NothingYet
  <1>14. Shapes'
    <2>1. DOMAIN born' \subseteq Ids /\ born' \in [DOMAIN born' -> Nat]
      <3>1. AcceptedIds(batch) \subseteq Ids
        BY <1>2, <1>4, <1>11
      <3>2. QED
        BY <1>1, <1>2, <3>1 DEF Shapes
    <2>2. ClustersOK(st.of, st.clusters, turn) /\ turn' - 1 = turn /\ turn' \in 0..MaxTurns
      BY <1>1, <1>2, <1>4, ConversationAssumption DEF StateInv
    <2>3. /\ seeds' \in Registries /\ DOMAIN seeds' \subseteq Ids
          /\ DOMAIN clusterOf' \subseteq DOMAIN seeds'
      BY <1>2, <1>5, <1>8, <1>11
    <2>4. ClustersOK(clusterOf', clusters', turn' - 1)
      BY <1>2, <2>2
    <2>5. QED
      BY <1>1, <1>2, <1>10, <1>13, <2>1, <2>2, <2>3, <2>4 DEF Shapes
  <1>15. LogInv'
    <2>1. ASSUME NEW i \in 1..Len(gate')
          PROVE  gate'[i].seed \in DOMAIN after /\ gate'[i].version <= after[gate'[i].seed].version
      <3>1. CASE i \in 1..Len(gate) /\ gate'[i] = gate[i]
        <4>1. gate[i].seed \in DOMAIN seeds /\ gate[i].version <= seeds[gate[i].seed].version
          BY <3>1 DEF IInv, LogInv, Behind
        <4>2. gate[i].version \in Nat
          <5>1. gate[i] \in GateEvent
            BY <1>1, <3>1
          <5>2. QED
            BY <5>1 DEF GateEvent
        <4>3. seeds[gate[i].seed].version \in Nat
          <5>1. PICK n \in Nat : seeds \in [1..n -> Seed] /\ DOMAIN seeds = 1..n
            BY <1>1, RegistryDomain
          <5>2. seeds[gate[i].seed] \in Seed
            BY <4>1, <5>1
          <5>3. QED
            BY <5>2 DEF Seed
        <4>4. after[gate[i].seed].version \in Nat
          BY <1>8, <1>12, <4>1
        <4>5. QED
          BY <1>12, <3>1, <4>1, <4>2, <4>3, <4>4
      <3>2. CASE \E k \in 1..Len(events) : gate'[i] = events[k]
        BY <1>7, <1>8, <1>9, <3>2 DEF Live
      <3>3. QED
        BY <1>10, <3>1, <3>2
    <2>2. QED
      BY <1>2, <1>13, <2>1 DEF LogInv, Behind
  <1>16. InfluenceInv'
    <2>1. ASSUME NEW i \in 1..Len(influence) PROVE influence[i].turn < turn + 1
      <3>1. influence[i].turn \in Nat
        <4>1. influence[i] \in Influence
          BY <1>1
        <4>2. QED
          BY <4>1 DEF Influence
      <3>2. influence[i].turn = turn \/ influence[i].turn < turn
        BY DEF IInv, InfluenceInv
      <3>3. QED
        BY <1>1, <3>1, <3>2
    <2>2. QED
      BY <1>2, <1>13, <2>1 DEF IInv, InfluenceInv
  <1>17. ContextStaysAuthorized' /\ ExpiryInv'
    BY <1>13 DEF ContextStaysAuthorized, ExpiryInv
  <1>18. ASSUME NEW id, Earned(id)'
         PROVE  id \in DOMAIN after /\ (Earned(id) \/ id \in offered)
    <2>1. PICK i \in 1..Len(gate') : gate'[i].seed = id /\ Earning(gate'[i])
      BY <1>18 DEF Earned, Earning
    <2>2. id \in DOMAIN after
      BY <1>2, <2>1, <1>15 DEF LogInv, Behind
    <2>3. QED
      BY <1>9, <1>10, <2>1, <2>2 DEF Earned, Earning
  <1>19. ASSUME NEW id, Earned(id) PROVE id \in DOMAIN clusterOf
    <2>1. id \in DOMAIN seeds
      BY <1>19 DEF Earned, IInv, LogInv, Behind
    <2>2. QED
      BY <1>1, <1>19, <2>1 DEF IInv, EarnInv
  <1>20. EarnInv'
    <2>1. ASSUME NEW id \in Live(after), Earned(id)'
          PROVE  id \in DOMAIN st.of /\ st.clusters[st.of[id]].rep = id
      <3>1. CASE id \in offered
        BY <1>6, <3>1
      <3>2. CASE Earned(id)
        <4>1. id \in DOMAIN clusterOf /\ id \in DOMAIN seeds
          BY <1>1, <1>19, <3>2
        <4>2. id \in Live(seeds) /\ Leads(id)
          BY <1>12, <2>1, <3>2, <4>1 DEF IInv, EarnInv, EarnersLead
        <4>3. ~NeedsReplacing(batch.seeds, id)
          BY <1>5, <1>8, <1>12, <2>1, <4>1 DEF NeedsReplacing
        <4>4. QED
          BY <1>11, <4>1, <4>2, <4>3 DEF Leads
      <3>3. QED
        BY <1>18, <2>1, <3>1, <3>2
    <2>2. ASSUME NEW id, Earned(id)' PROVE id \in DOMAIN st.of
      BY <1>6, <1>11, <1>18, <1>19, <2>2
    <2>3. QED
      BY <1>2, <1>13, <2>1, <2>2 DEF EarnInv, EarnersLead, Leads
  <1>21. SyncInv'
    <2>1. ASSUME NEW id \in Live(after), id \in DOMAIN st.of, st.clusters[st.of[id]].rep = id
          PROVE  after[id].occurrences = st.clusters[st.of[id]].count
      <3>1. id \in DOMAIN after /\ batch.seeds[id].status # "EXPIRED"
        BY <1>12, <2>1 DEF Live
      <3>2. QED
        BY <1>5, <1>8, <2>1, <3>1
    <2>2. QED
      BY <1>2, <1>13, <2>1 DEF SyncInv, InStep, Leads
  <1>22. RecurrenceNeedsDistinctTurns'
    <2>1. \A k \in 1..Len(events) : events[k].recurrence <= events[k].turn + 1
      BY <1>6, <1>9
    <2>2. \A k \in 1..Len(gate) : gate[k].recurrence <= gate[k].turn + 1
      BY DEF IInv, RecurrenceNeedsDistinctTurns
    <2>3. \A i \in 1..Len(gate') : gate'[i].recurrence <= gate'[i].turn + 1
      BY <1>10, <2>1, <2>2
    <2>4. QED
      BY <2>3 DEF RecurrenceNeedsDistinctTurns
  <1>23. QuietRiseIsExplained'
    <2>1. SUFFICES ASSUME NEW i \in 1..Len(gate'),
                          gate'[i].recurrence > 0, gate'[i].decision \in Confirming,
                          gate'[i].seed \in DOMAIN st.of =>
                             gate'[i].turn \notin credited(gate'[i].seed).refs
                   PROVE  \/ gate'[i].retried
                          \/ \E j \in 1..(i - 1) : /\ gate'[j].seed = gate'[i].seed
                                                   /\ gate'[j].decision = "contradicted"
      BY <1>2 DEF QuietRiseIsExplained
    <2>2. CASE i \in 1..Len(gate) /\ gate'[i] = gate[i]
      <3>1. gate[i].seed \in DOMAIN clusterOf =>
               gate[i].turn \notin clusters[clusterOf[gate[i].seed]].refs
        BY <1>11, <2>1, <2>2
      <3>2. \/ gate[i].retried
            \/ \E j \in 1..(i - 1) : /\ gate[j].seed = gate[i].seed
                                     /\ gate[j].decision = "contradicted"
        BY <2>1, <2>2, <3>1 DEF IInv, QuietRiseIsExplained
      <3>3. \A j \in 1..(i - 1) : j \in 1..Len(gate)
        BY <1>1, <2>2
      <3>4. QED
        BY <1>10, <2>2, <3>2, <3>3
    <2>3. CASE i > Len(gate) /\ \E k \in 1..Len(events) : gate'[i] = events[k]
      <3>1. PICK k \in 1..Len(events) : gate'[i] = events[k]
        BY <2>3
      <3> DEFINE id == events[k].seed
      <3>2. /\ id \in offered /\ events[k].turn = turn
            /\ events[k].retried = (pending.failed > 0)
        BY <1>9
      <3>3. id \in DOMAIN st.of /\ turn \notin credited(id).refs
        BY <1>6, <2>1, <3>1, <3>2
      <3>4. id \in DOMAIN clusterOf
        BY <1>11, <3>3
      <3>5. Leads(id) /\ synced[id].occurrences = clusters[clusterOf[id]].count
        BY SMTT(20), <1>6, <1>11, <3>2, <3>3, <3>4 DEF Leads
      <3>6. id \in Live(seeds) /\ synced[id].occurrences # seeds[id].occurrences
        <4>1. id \in Live(synced) /\ id \in DOMAIN seeds
          BY <1>1, <1>7, <3>2, <3>4
        <4>2. id \in Live(after)
          BY <1>8, <4>1 DEF Live
        <4>3. QED
          BY <1>6, <1>12, <3>2, <4>1, <4>2
      <3>7. pending.failed = 0 => Contradicted(id)
        BY <3>5, <3>6 DEF IInv, SyncInv, InStep
      <3>8. CASE pending.failed = 0
        <4>1. PICK j \in 1..Len(gate) : gate[j].seed = id /\ gate[j].decision = "contradicted"
          BY <3>7, <3>8 DEF Contradicted
        <4>2. j \in 1..(i - 1) /\ gate'[j] = gate[j]
          BY <1>1, <1>10, <2>3, <4>1
        <4>3. QED
          BY <3>1, <4>1, <4>2
      <3>9. CASE pending.failed # 0
        <4>1. pending.failed > 0
          BY <1>1, <3>9
        <4>2. QED
          BY <3>1, <3>2, <4>1
      <3>10. QED
        BY <3>8, <3>9
    <2>4. QED
      BY <1>10, <2>2, <2>3
  <1>24. QED
    BY <1>14, <1>15, <1>16, <1>17, <1>20, <1>21, <1>22, <1>23 DEF IInv

LEMMA StutterKeeps ==
    ASSUME IInv, UNCHANGED vars
    PROVE  IInv'
  <1>1. UNCHANGED <<seeds, born, clusterOf, clusters, gate, influence, turn, pending>>
    BY DEF vars
  <1>2. /\ Shapes' /\ LogInv' /\ InfluenceInv' /\ ContextStaysAuthorized' /\ ExpiryInv'
    BY <1>1 DEF IInv, Shapes, LogInv, Behind, InfluenceInv, ContextStaysAuthorized, ExpiryInv
  <1>3. EarnInv' /\ SyncInv' /\ RecurrenceNeedsDistinctTurns' /\ QuietRiseIsExplained'
    BY <1>1 DEF IInv, EarnInv, EarnersLead, SyncInv, InStep, Earned, Leads, Contradicted,
                RecurrenceNeedsDistinctTurns, QuietRiseIsExplained
  <1>4. QED
    BY <1>2, <1>3 DEF IInv

LEMMA NextKeeps ==
    ASSUME IInv, [Next]_vars
    PROVE  IInv'
  <1>1. CASE \E faded \in SUBSET DOMAIN seeds : \E matching \in SUBSET DOMAIN seeds :
                \E surfaced \in SUBSET DOMAIN seeds : Prepare(faded, matching, surfaced)
    BY <1>1, PrepareKeeps
  <1>2. CASE \E faded \in SUBSET DOMAIN seeds : PrepareFails(faded)
    BY <1>2, PrepareFailsKeeps
  <1>3. CASE Abort
    BY <1>3, AbortKeeps
  <1>4. CASE \E candidates \in CandidateLists : Observe(candidates)
    BY <1>4, ObserveKeeps
  <1>5. CASE \E candidates \in CandidateLists : ObserveFails(candidates)
    BY <1>5, ObserveFailsKeeps
  <1>6. CASE \E id \in DOMAIN seeds : SubmitEvidence(id)
    BY <1>6, SubmitEvidenceKeeps
  <1>7. CASE \E id \in DOMAIN seeds : SubmitContradiction(id)
    BY <1>7, SubmitContradictionKeeps
  <1>8. CASE \E id \in DOMAIN seeds : ResolveContradiction(id)
    BY <1>8, ResolveContradictionKeeps
  <1>9. CASE UNCHANGED vars
    BY <1>9, StutterKeeps
  <1>10. QED
    BY <1>1, <1>2, <1>3, <1>4, <1>5, <1>6, <1>7, <1>8, <1>9 DEF Next

\* The invariant holds in every state a conversation can reach.
LEMMA InvariantHolds == Spec => []IInv
  <1>1. Init => IInv
    BY InitEstablishes
  <1>2. IInv /\ [Next]_vars => IInv'
    BY NextKeeps
  <1>3. QED
    BY <1>1, <1>2, PTL DEF Spec

-----------------------------------------------------------------------------
(* What follows from it.                                                   *)

\* Within one cluster one living seed at most was confirmed by recurrence: the leader.
LEMMA OnlyLeadersEarn ==
    ASSUME IInv
    PROVE  OneRepresentativeEarns
  <1>1. SUFFICES ASSUME NEW a \in Live(seeds), NEW b \in Live(seeds), a # b,
                        clusterOf[a] = clusterOf[b], Earned(a), Earned(b)
                 PROVE  FALSE
    BY DEF OneRepresentativeEarns, EventsOf, Earned, Earning
  <1>2. Leads(a) /\ Leads(b)
    BY <1>1 DEF IInv, EarnInv, EarnersLead
  <1>3. QED
    BY <1>1, <1>2 DEF Leads

LEMMA ShapesAreTyped ==
    ASSUME IInv
    PROVE  TypeOK
  <1>1. Shapes
    BY DEF IInv
  <1>2. \A id \in DOMAIN seeds : seeds[id] \in Seed
    <2>1. PICK n \in Nat : seeds \in [1..n -> Seed] /\ DOMAIN seeds = 1..n
      BY <1>1, RegistryDomain DEF Shapes
    <2>2. QED
      BY <2>1
  <1>3. /\ \A id \in DOMAIN clusterOf : clusterOf[id] \in 1..Len(clusters)
        /\ \A c \in 1..Len(clusters) : clusters[c] \in Cluster
    BY <1>1 DEF Shapes, ClustersOK
  <1>4. /\ \A i \in 1..Len(gate) : gate[i] \in GateEvent
        /\ \A i \in 1..Len(influence) : influence[i] \in Influence
    BY <1>1 DEF Shapes
  <1>5. DOMAIN clusterOf \subseteq Ids /\ \A id \in DOMAIN born : born[id] \in Nat
    BY <1>1 DEF Shapes
  <1>6. QED
    BY <1>1, <1>2, <1>3, <1>4, <1>5 DEF TypeOK, Shapes

LEMMA RecordsStand ==
    ASSUME IInv
    PROVE  RecordsStandForWork
  <1>1. InfluenceWasAnswered
    BY DEF IInv, InfluenceInv, InfluenceWasAnswered
  <1>2. LogNeverAhead
    BY DEF IInv, LogInv, Behind, LogNeverAhead
  <1>3. QED
    BY <1>1, <1>2, ShapesAreTyped DEF RecordsStandForWork

\* Only an abort closes a turn that does not count, and it restores what preparing it changed.
LEMMA AbortRestores ==
    ASSUME IInv, [Next]_vars, pending.open, ~pending'.open, turn' = turn
    PROVE  /\ Len(influence') = pending.influenced
           /\ \A i \in (pending.logged + 1)..Len(gate') :
                 /\ gate'[i].decision = "expired"
                 /\ seeds'[gate'[i].seed] = pending.before[gate'[i].seed]
                 /\ seeds'[gate'[i].seed].status # "EXPIRED"
  <1>1. turn \in Nat /\ turn + 1 # turn
    BY DEF IInv, Shapes
  <1>2. Abort
    <2>1. \A candidates : ~Observe(candidates)
      BY <1>1 DEF Observe
    <2>2. \A candidates : ~ObserveFails(candidates)
      <3>1. ASSUME NEW candidates, ObserveFails(candidates) PROVE FALSE
        <4> DEFINE f == pending.failed + 1
        <4>1. pending' = [pending EXCEPT !.failed = f]
          BY <3>1 DEF ObserveFails
        <4> HIDE DEF f
        <4>2. pending'.open = pending.open
          BY <4>1 DEF IInv, Shapes, Pending
        <4>3. QED
          BY <4>2
      <3>2. QED
        BY <3>1
    <2>3. \A id : ~SubmitEvidence(id) /\ ~SubmitContradiction(id) /\ ~ResolveContradiction(id)
      BY DEF SubmitEvidence, SubmitContradiction, ResolveContradiction, AuthorityMayChange
    <2>4. \A faded, matching, surfaced :
             ~Prepare(faded, matching, surfaced) /\ ~PrepareFails(faded)
      BY DEF Prepare, PrepareFails
    <2>5. ~UNCHANGED vars
      BY DEF vars
    <2>6. QED
      BY <2>1, <2>2, <2>3, <2>4, <2>5 DEF Next
  <1>3. seeds' = pending.before /\ gate' = gate
    BY <1>2 DEF Abort
  <1>4. Len(influence') = pending.influenced
    <2> DEFINE n == pending.influenced
    <2>1. influence' = SubSeq(influence, 1, n)
      BY <1>2 DEF Abort
    <2>2. n \in Nat /\ n <= Len(influence) /\ influence \in Seq(Influence)
      BY DEF IInv, Shapes, Pending
    <2> HIDE DEF n
    <2>3. Len(influence') = n
      BY <2>1, <2>2
    <2>4. QED
      BY <2>3 DEF n
  <1>5. QED
    BY <1>3, <1>4 DEF IInv, ExpiryInv

\* What prepare_turn returned stays authorized until the host observes or aborts: every
\* seed it surfaced is still promoted and unblocked, and at the version that is on record
\* for this turn.
THEOREM ContextAlwaysStaysAuthorized == Spec => []ContextStaysAuthorized
  <1>1. IInv => ContextStaysAuthorized
    BY DEF IInv
  <1>2. QED
    BY <1>1, InvariantHolds, PTL

\* What is on record happened: influence_records are of answers that were observed, one per
\* turn and seed, and gate_events are never ahead of the authority the seeds have, whatever
\* was aborted or failed half way.
THEOREM RecordsAlwaysStandForWork == Spec => []RecordsStandForWork
  <1>1. IInv => RecordsStandForWork
    BY RecordsStand
  <1>2. QED
    BY <1>1, InvariantHolds, PTL

\* Recurrence is earned: no seed is confirmed by more turns than were observed, one living
\* seed of a cluster at most is, and in a turn that did not observe its question only after
\* a contradiction or a failed attempt to observe.
THEOREM RecurrenceIsAlwaysEarned == Spec => []RecurrenceIsEarned
  <1>1. IInv => RecurrenceIsEarned
    BY OnlyLeadersEarn DEF IInv, RecurrenceIsEarned
  <1>2. QED
    BY <1>1, InvariantHolds, PTL

\* abort_turn takes back what prepare_turn did to the seeds and the influence records, and
\* leaves in the Gate log of that turn nothing but expiries of seeds that live on.
THEOREM AbortAlwaysLeavesOnlyExpiries == Spec => AbortLeavesOnlyExpiries
  <1>1. IInv /\ [Next]_vars =>
           [pending.open /\ ~pending'.open /\ turn' = turn =>
              /\ Len(influence') = pending.influenced
              /\ \A i \in (pending.logged + 1)..Len(gate') :
                    /\ gate'[i].decision = "expired"
                    /\ seeds'[gate'[i].seed] = pending.before[gate'[i].seed]
                    /\ seeds'[gate'[i].seed].status # "EXPIRED"]_vars
    BY AbortRestores
  <1>2. QED
    BY <1>1, InvariantHolds, PTL DEF Spec, AbortLeavesOnlyExpiries

=============================================================================

------------------------ MODULE CandidateIntakeProofs ------------------------
(***************************************************************************)
(* Proofs about CandidateIntake for every set of questions, every family   *)
(* of detector outputs, documents and runtimes, every threshold and every  *)
(* bound: what is counted for a seed is what is on record for it, and the  *)
(* reports and the history speak of the turns they are of.                 *)
(***************************************************************************)
EXTENDS CandidateIntake, FiniteSetTheorems, SequenceTheorems, TLAPS

-----------------------------------------------------------------------------
(* What a sequence has at some of its positions.                           *)

LEMMA UpToCounts ==
    ASSUME NEW n \in Nat, NEW ps \in SUBSET (1..n)
    PROVE  /\ IsFiniteSet(ps) /\ Cardinality(ps) \in Nat
           /\ [i \in ps |-> UpTo(ps, i)] \in Bijection(ps, 1..Cardinality(ps))
  <1> DEFINE c == Cardinality(ps)
             f == [i \in ps |-> UpTo(ps, i)]
             upto(i) == {j \in ps : j <= i}
  <1>1. IsFiniteSet(ps) /\ c \in Nat
    <2>1. IsFiniteSet(1..n)
      BY FS_Interval
    <2>2. IsFiniteSet(ps)
      BY <2>1, FS_Subset
    <2>3. QED
      BY <2>2, FS_CardinalityType
  <1>2. ASSUME NEW i \in ps
        PROVE  /\ IsFiniteSet(upto(i)) /\ UpTo(ps, i) \in 1..c
    <2>1. IsFiniteSet(upto(i)) /\ Cardinality(upto(i)) <= c
      BY <1>1, FS_Subset
    <2>2. Cardinality(upto(i)) \in Nat
      BY <2>1, FS_CardinalityType
    <2>3. Cardinality(upto(i)) # 0
      BY <2>1, FS_EmptySet
    <2>4. QED
      BY <1>1, <2>1, <2>2, <2>3 DEF UpTo
  <1>3. ASSUME NEW i \in ps, NEW j \in ps, i < j
        PROVE  UpTo(ps, i) # UpTo(ps, j)
    <2>1. upto(i) \in SUBSET upto(j) /\ upto(i) # upto(j)
      <3>1. \A k \in ps : k \in Nat
        OBVIOUS
      <3>2. j \in upto(j) /\ j \notin upto(i)
        BY <1>3, <3>1
      <3>3. \A k \in upto(i) : k \in upto(j)
        BY <1>3, <3>1
      <3>4. QED
        BY <3>2, <3>3
    <2>2. QED
      BY <1>2, <2>1, FS_Subset DEF UpTo
  <1>4. f \in Injection(ps, 1..c)
    <2>1. f \in [ps -> 1..c]
      BY <1>2
    <2>2. ASSUME NEW i \in ps, NEW j \in ps, f[i] = f[j] PROVE i = j
      BY <1>3, <2>2
    <2> HIDE DEF f
    <2>3. QED
      BY <2>1, <2>2 DEF Injection, IsInjective
  <1>5. IsFiniteSet(1..c) /\ Cardinality(1..c) = c
    BY <1>1, FS_Interval
  <1> HIDE DEF f
  <1>6. f \in Surjection(ps, 1..c)
    BY <1>4, <1>5, FS_Injection
  <1>7. f \in Bijection(ps, 1..c)
    BY <1>4, <1>6 DEF Bijection
  <1>8. QED
    BY <1>1, <1>7 DEF f

\* At has what the sequence has at the positions, once for each.
LEMMA AtHas ==
    ASSUME NEW seq, NEW n \in Nat, NEW ps \in SUBSET (1..n), NEW S, \A i \in ps : seq[i] \in S
    PROVE  /\ At(seq, ps) \in Seq(S) /\ Len(At(seq, ps)) = Cardinality(ps)
           /\ ToSet(At(seq, ps)) = {seq[i] : i \in ps}
  <1> DEFINE c == Cardinality(ps)
             f == [i \in ps |-> UpTo(ps, i)]
  <1>1. c \in Nat /\ f \in Bijection(ps, 1..c)
    BY UpToCounts
  <1>2. \A k \in 1..c : \E i \in ps : f[i] = k
    BY <1>1 DEF Bijection, Surjection
  <1>3. \A i, j \in ps : f[i] = f[j] => i = j
    BY <1>1 DEF Bijection, Injection, IsInjective
  <1>4. \A i \in ps : f[i] \in 1..c
    BY <1>1 DEF Bijection, Injection
  <1>5. \A k \in 1..c : \E i \in ps : f[i] = k /\ At(seq, ps)[k] = seq[i]
    <2> SUFFICES ASSUME NEW k \in 1..c PROVE \E i \in ps : f[i] = k /\ At(seq, ps)[k] = seq[i]
      OBVIOUS
    <2>1. PICK i \in ps : UpTo(ps, i) = k
      BY <1>2
    <2>2. (CHOOSE j \in ps : UpTo(ps, j) = k) = i
      BY <1>3, <2>1
    <2>3. QED
      BY <2>1, <2>2 DEF At
  <1>6. DOMAIN At(seq, ps) = 1..c
    BY DEF At
  <1>7. At(seq, ps) \in [1..c -> S]
    <2>1. At(seq, ps) = [k \in 1..c |-> At(seq, ps)[k]]
      BY DEF At
    <2> HIDE DEF c, f
    <2>2. QED
      BY <1>5, <2>1
  <1>8. At(seq, ps) \in Seq(S) /\ Len(At(seq, ps)) = c
    BY <1>1, <1>7
  <1>9. ToSet(At(seq, ps)) = {seq[i] : i \in ps}
    <2>1. ToSet(At(seq, ps)) = {At(seq, ps)[k] : k \in 1..c}
      BY <1>6 DEF ToSet
    <2> HIDE DEF c, f
    <2>2. QED
      BY <1>3, <1>4, <1>5, <2>1
  <1>10. QED
    BY <1>8, <1>9

-----------------------------------------------------------------------------
(* The values of the variables.                                            *)

Ctxs == [kind : {"none", "first_pass", "draft", "visible", "baseline", "chunk", "turn", "source"},
         n : Nat, k : Nat]
Observations == [ctx : Ctxs, index : Nat, line : Lines, exposed : BOOLEAN]
SeedStates == [Questions -> [count : Nat, origin : Ctxs, promoted : BOOLEAN]]
Traces == [prompt : Ctxs, raw : Ctxs]
Reports == [ref : Ctxs, tainted : BOOLEAN, blank : BOOLEAN, tried : BOOLEAN,
            loose : BOOLEAN, audit : Traces]
Pendings == [open : BOOLEAN, turn : Nat, surfaced : SUBSET Questions,
             before : SeedStates \cup {<<>>}, tried : BOOLEAN,
             was : SUBSET Questions, lost : SUBSET Questions]

TypeOK ==
    /\ runtime \in Runtimes /\ turn \in Nat
    /\ seeds \in SeedStates
    /\ credited \in [Questions -> SUBSET Ctxs]
    /\ ledger.obs \in Seq(Observations)
    /\ history \in Seq([tainted : BOOLEAN]) /\ reports \in Seq(Reports)
    /\ pending \in Pendings /\ (pending.open => pending.before \in SeedStates)
    /\ detector \in Traces
    /\ troubled \in SUBSET Questions

LEMMA CtxType ==
    ASSUME NEW kind \in {"none", "first_pass", "draft", "visible", "baseline", "chunk", "turn",
                         "source"}, NEW n \in Nat, NEW k \in Nat
    PROVE  Ctx(kind, n, k) \in Ctxs
  BY DEF Ctx, Ctxs

LEMMA RefType ==
    ASSUME NEW c \in Ctxs
    PROVE  Ref(c) \in Ctxs
  BY DEF Ref, Ctx, Ctxs

-----------------------------------------------------------------------------
(* Detection and recording.                                                *)

\* What is detected are lines, and none of them is a stub.
LEMMA DetectedLines ==
    ASSUME NEW blank \in BOOLEAN, NEW output \in Outputs
    PROVE  /\ Detected(blank, output) \in Seq(Lines)
           /\ \A l \in ToSet(Detected(blank, output)) : l.form # "stub"
  <1> DEFINE lines == output.lines
             once == {i \in DOMAIN lines : /\ lines[i].form # "stub"
                                           /\ \A j \in 1..i - 1 : lines[j] # lines[i]}
             ps == {i \in once : UpTo(once, i) <= MaxPerTurn}
  <1>1. lines \in Seq(Lines) /\ Len(lines) \in Nat /\ DOMAIN lines = 1..Len(lines)
    BY IntakeAssumption
  <1>2. ps \in SUBSET (1..Len(lines)) /\ \A i \in ps : lines[i] \in Lines /\ lines[i].form # "stub"
    BY <1>1
  <1>3. At(lines, ps) \in Seq(Lines) /\ ToSet(At(lines, ps)) = {lines[i] : i \in ps}
    BY <1>1, <1>2, AtHas
  <1>4. <<>> \in Seq(Lines) /\ ToSet(<<>>) = {}
    BY DEF ToSet
  <1>5. Detected(blank, output) \in {<<>>, At(lines, ps)}
    BY DEF Detected, ParseNumbered
  <1> HIDE DEF ps, lines
  <1>6. QED
    BY <1>2, <1>3, <1>4, <1>5

Made(lines, ctx, exposed) == {Observation(ctx, i, lines[i], exposed) : i \in DOMAIN lines}

LEMMA NewRecordsHas ==
    ASSUME ledger.obs \in Seq(Observations),
           NEW lines \in Seq(Lines), NEW ctx \in Ctxs, NEW exposed \in BOOLEAN
    PROVE  LET batch == NewRecords(lines, ctx, exposed)
               known == {Id(o) : o \in ToSet(ledger.obs)}
           IN  /\ batch \in Seq(Observations)
               /\ ToSet(batch) = {o \in Made(lines, ctx, exposed) : Id(o) \notin known}
               /\ Loose(lines, ctx, exposed) => \E o \in ToSet(ledger.obs) : o.ctx = ctx
  <1> DEFINE all == [i \in DOMAIN lines |-> Observation(ctx, i, lines[i], exposed)]
             known == {Id(o) : o \in ToSet(ledger.obs)}
             ps == {i \in DOMAIN all : Id(all[i]) \notin known}
             n == Len(lines)
  <1>1. n \in Nat /\ DOMAIN lines = 1..n /\ \A i \in 1..n : lines[i] \in Lines
    OBVIOUS
  <1>2. \A i \in 1..n : all[i] = Observation(ctx, i, lines[i], exposed) /\ all[i] \in Observations
    BY <1>1 DEF Observation, Observations
  <1>3. ps \in SUBSET (1..n) /\ \A i \in ps : all[i] \in Observations
    BY <1>1, <1>2
  <1>4. NewRecords(lines, ctx, exposed) = At(all, ps)
    BY DEF NewRecords
  <1>5. /\ At(all, ps) \in Seq(Observations) /\ Len(At(all, ps)) = Cardinality(ps)
        /\ ToSet(At(all, ps)) = {all[i] : i \in ps}
    <2> HIDE DEF all, ps, n
    <2>1. QED
      BY <1>1, <1>3, AtHas
  <1>6. {all[i] : i \in ps} = {o \in Made(lines, ctx, exposed) : Id(o) \notin known}
    BY <1>1 DEF Made
  <1>7. ASSUME Loose(lines, ctx, exposed) PROVE \E o \in ToSet(ledger.obs) : o.ctx = ctx
    <2>1. ps # 1..n
      <3> HIDE DEF ps, n
      <3>1. Cardinality(1..n) = n
        BY <1>1, FS_Interval
      <3>2. QED
        BY <1>1, <1>4, <1>5, <1>7, <3>1 DEF Loose, n
    <2>2. PICK i \in 1..n : Id(all[i]) \in known
      BY <1>1, <2>1
    <2>3. PICK o \in ToSet(ledger.obs) : Id(o) = Id(all[i])
      BY <2>2
    <2>4. o.ctx = all[i].ctx
      BY <2>3 DEF Id
    <2>5. QED
      BY <1>2, <2>4 DEF Observation
  <1> HIDE DEF all, known, ps, n
  <1>8. QED
    BY <1>4, <1>5, <1>6, <1>7 DEF known

LEMMA ConcatSet ==
    ASSUME NEW S, NEW a \in Seq(S), NEW b \in Seq(S)
    PROVE  /\ a \o b \in Seq(S) /\ ToSet(a \o b) = ToSet(a) \cup ToSet(b)
  <1>1. /\ a \o b \in Seq(S) /\ Len(a \o b) = Len(a) + Len(b)
        /\ \A i \in 1..Len(a) + Len(b) :
              (a \o b)[i] = IF i <= Len(a) THEN a[i] ELSE b[i - Len(a)]
    BY ConcatProperties
  <1>2. \A i \in 1..Len(b) : Len(a) + i \in 1..Len(a) + Len(b) /\ (a \o b)[Len(a) + i] = b[i]
    BY <1>1
  <1>3. \A i \in 1..Len(a) : i \in 1..Len(a) + Len(b) /\ (a \o b)[i] = a[i]
    BY <1>1
  <1>4. DOMAIN a = 1..Len(a) /\ DOMAIN b = 1..Len(b) /\ DOMAIN (a \o b) = 1..Len(a) + Len(b)
    BY <1>1
  <1>5. ToSet(a) \cup ToSet(b) \subseteq ToSet(a \o b)
    BY <1>2, <1>3, <1>4 DEF ToSet
  <1>6. ASSUME NEW x \in ToSet(a \o b) PROVE x \in ToSet(a) \cup ToSet(b)
    <2>1. PICK i \in 1..Len(a) + Len(b) : x = (a \o b)[i]
      BY <1>4 DEF ToSet
    <2>2. CASE i <= Len(a)
      BY <1>1, <1>4, <2>1, <2>2 DEF ToSet
    <2>3. CASE ~(i <= Len(a))
      <3>1. i - Len(a) \in 1..Len(b)
        BY <2>3
      <3>2. QED
        BY <1>1, <1>4, <2>1, <2>3, <3>1 DEF ToSet
    <2>4. QED
      BY <2>2, <2>3
  <1>7. QED
    BY <1>1, <1>5, <1>6

-----------------------------------------------------------------------------
(* What a batch adds to the records that are free of seeds.                *)

Refs(q) == {Ref(o.ctx) : o \in Clean(q)}

LEMMA RefsFinite ==
    ASSUME ledger.obs \in Seq(Observations), NEW q
    PROVE  IsFiniteSet(Refs(q)) /\ Cardinality(Refs(q)) \in Nat
  <1> DEFINE obs == ledger.obs
             ps == {i \in 1..Len(obs) : obs[i] \in Clean(q)}
             at == [i \in ps |-> Ref(obs[i].ctx)]
  <1>1. IsFiniteSet(1..Len(obs)) /\ DOMAIN obs = 1..Len(obs)
    <2>1. Len(obs) \in Int /\ DOMAIN obs = 1..Len(obs)
      OBVIOUS
    <2> HIDE DEF obs
    <2>2. QED
      BY <2>1, FS_Interval
  <1>2. IsFiniteSet(ps)
    BY <1>1, FS_Subset
  <1>3. Refs(q) = {Ref(obs[i].ctx) : i \in ps}
    BY <1>1 DEF Refs, Clean, ToSet
  <1>4. at \in Surjection(ps, Refs(q))
    BY <1>3 DEF Surjection
  <1>5. QED
    BY <1>2, <1>4, FS_Surjection, FS_CardinalityType

\* Nothing recorded of this context before was exposed otherwise.
Alike(ctx, exposed) == \A o \in ToSet(ledger.obs) : o.ctx = ctx => o.exposed = exposed

LEMMA RecordedSet ==
    ASSUME ledger.obs \in Seq(Observations),
           NEW lines \in Seq(Lines), NEW ctx \in Ctxs, NEW exposed \in BOOLEAN,
           Alike(ctx, exposed), ledger' = RecordBatch(lines, ctx, exposed)
    PROVE  /\ ledger'.obs \in Seq(Observations)
           /\ ToSet(ledger'.obs) = ToSet(ledger.obs) \cup Made(lines, ctx, exposed)
  <1> DEFINE batch == NewRecords(lines, ctx, exposed)
             known == {Id(o) : o \in ToSet(ledger.obs)}
  <1>1. /\ batch \in Seq(Observations)
        /\ ToSet(batch) = {o \in Made(lines, ctx, exposed) : Id(o) \notin known}
    BY NewRecordsHas
  <1>2. ledger'.obs = ledger.obs \o batch
    BY DEF RecordBatch
  <1>3. ledger'.obs \in Seq(Observations) /\ ToSet(ledger'.obs) = ToSet(ledger.obs) \cup ToSet(batch)
    BY <1>1, <1>2, ConcatSet
  <1>4. ASSUME NEW o \in Made(lines, ctx, exposed), Id(o) \in known
        PROVE  o \in ToSet(ledger.obs)
    <2>1. PICK p \in ToSet(ledger.obs) : Id(p) = Id(o)
      BY <1>4
    <2>2. p \in Observations
      BY DEF ToSet
    <2>3. p.ctx = o.ctx /\ p.index = o.index /\ p.line = o.line
      BY <2>1 DEF Id
    <2>4. PICK i \in DOMAIN lines : o = Observation(ctx, i, lines[i], exposed)
      BY DEF Made
    <2>5. o.ctx = ctx /\ o.exposed = exposed
      BY <2>4 DEF Observation
    <2>6. p.exposed = exposed
      BY <2>3, <2>5 DEF Alike
    <2>7. p = [ctx |-> p.ctx, index |-> p.index, line |-> p.line, exposed |-> p.exposed]
      BY <2>2 DEF Observations
    <2>8. p = o
      BY <2>3, <2>4, <2>5, <2>6, <2>7 DEF Observation
    <2>9. QED
      BY <2>8
  <1>5. QED
    BY <1>1, <1>3, <1>4

LEMMA AcceptedSeed ==
    ASSUME NEW lines \in Seq(Lines), \A l \in ToSet(lines) : l.form # "stub", NEW q
    PROVE  q \in Accepted(lines) <=> \E l \in ToSet(lines) : l.asks = q /\ l.form = "seed"
  <1>1. \A l \in ToSet(lines) : l \in Lines
    BY DEF ToSet
  <1>2. QED
    BY <1>1 DEF Accepted, Normalizable, Lines, Forms

LEMMA RefsGrow ==
    ASSUME ledger.obs \in Seq(Observations),
           NEW lines \in Seq(Lines), NEW ctx \in Ctxs, NEW exposed \in BOOLEAN,
           \A l \in ToSet(lines) : l.form # "stub",
           Alike(ctx, exposed), ledger' = RecordBatch(lines, ctx, exposed), NEW q
    PROVE  /\ Clean(q) \subseteq Clean(q)'
           /\ Refs(q)' = IF ~exposed /\ q \in Accepted(lines) THEN Refs(q) \cup {Ref(ctx)}
                                                              ELSE Refs(q)
           /\ ~exposed /\ q \in Accepted(lines) => \E o \in Clean(q)' : o.ctx = ctx
  <1> DEFINE made == Made(lines, ctx, exposed)
             more == {o \in made : ~o.exposed /\ o.line.asks = q /\ o.line.form = "seed"}
  <1>1. ToSet(ledger'.obs) = ToSet(ledger.obs) \cup made
    BY RecordedSet
  <1>2. Clean(q)' = Clean(q) \cup more
    BY <1>1 DEF Clean
  <1>3. \A o \in made : o.ctx = ctx /\ o.exposed = exposed
    BY DEF Made, Observation
  <1>4. more # {} <=> ~exposed /\ q \in Accepted(lines)
    <2>1. \A o \in made : \E i \in DOMAIN lines : o.line = lines[i]
      BY DEF Made, Observation
    <2>2. \A i \in DOMAIN lines : \E o \in made : o.line = lines[i]
      <3> SUFFICES ASSUME NEW i \in DOMAIN lines PROVE \E o \in made : o.line = lines[i]
        OBVIOUS
      <3>1. Observation(ctx, i, lines[i], exposed) \in made
        BY DEF Made
      <3>2. Observation(ctx, i, lines[i], exposed).line = lines[i]
        BY DEF Observation
      <3>3. QED
        BY <3>1, <3>2
    <2>3. ToSet(lines) = {lines[i] : i \in DOMAIN lines}
      BY DEF ToSet
    <2> HIDE DEF made
    <2>4. QED
      BY <1>3, <2>1, <2>2, <2>3, AcceptedSeed
  <1>5. Refs(q)' = Refs(q) \cup {Ref(o.ctx) : o \in more}
    BY <1>2 DEF Refs
  <1> HIDE DEF made
  <1>6. \A o \in more : o.ctx = ctx
    BY <1>3
  <1>7. {Ref(o.ctx) : o \in more} = IF more = {} THEN {} ELSE {Ref(ctx)}
    BY <1>6
  <1> HIDE DEF more
  <1>8. QED
    BY <1>2, <1>4, <1>5, <1>6, <1>7

-----------------------------------------------------------------------------
(* What is counted for a seed.                                             *)

\* A seed was never counted, or it was created.
CountsStart(s) == \A q \in Questions : s[q].count = 0 => s[q] = NoSeed

LEMMA NoSeedType == NoSeed \in [count : Nat, origin : Ctxs, promoted : BOOLEAN]
  BY DEF NoSeed, NoCtx, Ctx, Ctxs

LEMMA IngestCounts ==
    ASSUME NEW s \in SeedStates, CountsStart(s), NEW lines, NEW ctx \in Ctxs
    PROVE  LET after == Ingest(s, lines, ctx)
           IN  /\ after \in SeedStates /\ CountsStart(after)
               /\ \A q \in Questions :
                    IF q \in Accepted(lines)
                      THEN /\ after[q].count = s[q].count + 1
                           /\ after[q].origin = IF s[q].count = 0 THEN ctx ELSE s[q].origin
                      ELSE after[q] = s[q]
  <1> DEFINE after == Ingest(s, lines, ctx)
  <1>1. ASSUME NEW q \in Questions
        PROVE  /\ after[q] \in [count : Nat, origin : Ctxs, promoted : BOOLEAN]
               /\ after[q].count = 0 => after[q] = NoSeed
               /\ IF q \in Accepted(lines)
                    THEN /\ after[q].count = s[q].count + 1
                         /\ after[q].origin = IF s[q].count = 0 THEN ctx ELSE s[q].origin
                    ELSE after[q] = s[q]
    <2>1. s[q] \in [count : Nat, origin : Ctxs, promoted : BOOLEAN]
      BY DEF SeedStates
    <2>2. CASE q \notin Accepted(lines)
      BY <2>1, <2>2 DEF Ingest, CountsStart
    <2>3. CASE q \in Accepted(lines) /\ s[q] = NoSeed
      <3>1. after[q] = [count |-> 1, origin |-> ctx, promoted |-> FALSE]
        BY <2>3 DEF Ingest
      <3>2. s[q].count = 0
        BY <2>3 DEF NoSeed
      <3>3. QED
        BY <2>3, <3>1, <3>2
    <2>4. CASE q \in Accepted(lines) /\ s[q] # NoSeed
      <3>1. after[q] = [s[q] EXCEPT !.count = s[q].count + 1]
        BY <2>4 DEF Ingest, Matched
      <3>2. s[q].count # 0
        BY <2>4 DEF CountsStart
      <3>3. QED
        BY <2>1, <2>4, <3>1, <3>2
    <2>5. QED
      BY <2>2, <2>3, <2>4
  <1>2. after = [q \in Questions |-> after[q]]
    BY DEF Ingest
  <1> HIDE DEF after
  <1>3. after \in SeedStates
    BY <1>1, <1>2 DEF SeedStates
  <1>4. QED
    BY <1>1, <1>3 DEF after, CountsStart

LEMMA PromoteCounts ==
    ASSUME NEW s \in SeedStates, CountsStart(s), NEW up,
           \A q \in up \cap Questions : s[q].count >= Threshold
    PROVE  LET after == Promote(s, up)
           IN  /\ after \in SeedStates /\ CountsStart(after)
               /\ \A q \in Questions :
                    after[q].count = s[q].count /\ after[q].origin = s[q].origin
  <1> DEFINE after == Promote(s, up)
  <1>1. ASSUME NEW q \in Questions
        PROVE  /\ after[q] \in [count : Nat, origin : Ctxs, promoted : BOOLEAN]
               /\ after[q].count = s[q].count /\ after[q].origin = s[q].origin
               /\ after[q].count = 0 => after[q] = NoSeed
    <2>1. s[q] \in [count : Nat, origin : Ctxs, promoted : BOOLEAN]
      BY DEF SeedStates
    <2>2. after[q] = [s[q] EXCEPT !.promoted = @ \/ q \in up]
      BY DEF Promote
    <2>3. q \notin up => after[q] = s[q]
      BY <2>1, <2>2
    <2>4. q \in up => s[q].count # 0
      BY <2>1, IntakeAssumption
    <2>5. QED
      BY <2>1, <2>2, <2>3, <2>4 DEF CountsStart
  <1>2. after = [q \in Questions |-> after[q]]
    BY DEF Promote
  <1> HIDE DEF after
  <1>3. after \in SeedStates
    BY <1>1, <1>2 DEF SeedStates
  <1>4. QED
    BY <1>1, <1>3 DEF after, CountsStart

LEMMA RepairedCounts ==
    ASSUME NEW s \in SeedStates, CountsStart(s), NEW born, NEW ctx \in Ctxs,
           \A q \in born \cap Questions : s[q].count # 0
    PROVE  LET after == Repaired(s, born, ctx)
           IN  /\ after \in SeedStates /\ CountsStart(after)
               /\ \A q \in Questions :
                    /\ after[q].count = s[q].count
                    /\ after[q].origin = IF q \in born /\ s[q].origin = Provisional
                                         THEN ctx ELSE s[q].origin
  <1> DEFINE after == Repaired(s, born, ctx)
  <1>1. ASSUME NEW q \in Questions
        PROVE  /\ after[q] \in [count : Nat, origin : Ctxs, promoted : BOOLEAN]
               /\ after[q].count = 0 => after[q] = NoSeed
               /\ after[q].count = s[q].count
               /\ after[q].origin = IF q \in born /\ s[q].origin = Provisional
                                    THEN ctx ELSE s[q].origin
    <2>1. s[q] \in [count : Nat, origin : Ctxs, promoted : BOOLEAN]
      BY DEF SeedStates
    <2>2. after[q] = IF q \in born /\ s[q].origin = Provisional
                     THEN [s[q] EXCEPT !.origin = ctx] ELSE s[q]
      BY DEF Repaired
    <2>3. QED
      BY <2>1, <2>2 DEF CountsStart
  <1>2. after = [q \in Questions |-> after[q]]
    BY DEF Repaired
  <1> HIDE DEF after
  <1>3. after \in SeedStates
    BY <1>1, <1>2 DEF SeedStates
  <1>4. QED
    BY <1>1, <1>3 DEF after, CountsStart

\* A seed's count and its origin are on record.
Right(x, q) ==
    /\ x.count = Cardinality(Refs(q))
    /\ x.count > 0 => \E o \in Clean(q) : o.ctx = x.origin

RightAfter(x, q) ==
    /\ x.count = Cardinality(Refs(q)')
    /\ x.count > 0 => \E o \in Clean(q)' : o.ctx = x.origin

\* They are after a batch, when the seed is counted exactly if it names a new turn or document.
LEMMA RightGrows ==
    ASSUME ledger.obs \in Seq(Observations),
           NEW lines \in Seq(Lines), NEW ctx \in Ctxs, NEW exposed \in BOOLEAN,
           \A l \in ToSet(lines) : l.form # "stub",
           Alike(ctx, exposed), ledger' = RecordBatch(lines, ctx, exposed), NEW q,
           NEW x, NEW y, x.count \in Nat, Right(x, q),
           IF ~exposed /\ q \in Accepted(lines) /\ Ref(ctx) \notin Refs(q)
             THEN /\ y.count = x.count + 1
                  /\ y.origin = IF x.count = 0 THEN ctx ELSE x.origin
             ELSE y.count = x.count /\ y.origin = x.origin
    PROVE  RightAfter(y, q)
  <1>1. /\ Clean(q) \subseteq Clean(q)'
        /\ Refs(q)' = IF ~exposed /\ q \in Accepted(lines) THEN Refs(q) \cup {Ref(ctx)}
                                                           ELSE Refs(q)
        /\ ~exposed /\ q \in Accepted(lines) => \E o \in Clean(q)' : o.ctx = ctx
    BY RefsGrow
  <1>2. IsFiniteSet(Refs(q)) /\ Cardinality(Refs(q)) \in Nat
    BY RefsFinite
  <1>3. CASE ~exposed /\ q \in Accepted(lines) /\ Ref(ctx) \notin Refs(q)
    <2>1. Cardinality(Refs(q)') = Cardinality(Refs(q)) + 1
      BY <1>1, <1>2, <1>3, FS_AddElement
    <2>2. QED
      BY <1>1, <1>3, <2>1 DEF Right, RightAfter
  <1>4. CASE ~(~exposed /\ q \in Accepted(lines) /\ Ref(ctx) \notin Refs(q))
    <2>1. Refs(q)' = Refs(q)
      BY <1>1, <1>4
    <2>2. QED
      BY <1>1, <1>4, <2>1 DEF Right, RightAfter
  <1>5. QED
    BY <1>3, <1>4

-----------------------------------------------------------------------------
(* The inductive invariant.                                                *)

\* The questions whose counts stay apart from the record when the turn under way is
\* aborted, and the number of the turn that is or will be under way.
Held == IF pending.open THEN pending.was \cup pending.lost ELSE troubled
Now == IF pending.open THEN pending.turn ELSE turn

PendingSound ==
    pending.open => /\ Live /\ pending.turn <= turn /\ Held \subseteq troubled
                    /\ CountsStart(pending.before)
                    /\ \A q \in Questions \ Held : Right(pending.before[q], q)

SeedsRight == CountsStart(seeds) /\ \A q \in Questions \ troubled : Right(seeds[q], q)

\* The turns on record are over, and the documents on record are the credited ones.
RefsPast ==
    \A q \in Questions \ Held :
        /\ \A r \in Refs(q) : r.kind = "turn" => r.n < Now
        /\ credited[q] = {r \in Refs(q) : r.kind = "source"}

\* What is on record of the turn under way is there because it was tried before.
ContextsKnown ==
    \A o \in ToSet(ledger.obs) :
        /\ o.ctx.kind \in {"draft", "visible", "baseline", "chunk"}
        /\ o.ctx.kind \in {"baseline", "chunk"} => ~o.exposed
        /\ o.ctx.kind \in {"draft", "visible"} =>
             /\ o.ctx.n < turn
             /\ pending.open /\ o.ctx.n = pending.turn =>
                  pending.tried /\ o.exposed = (pending.surfaced # {})

HistoryPaired ==
    /\ Len(reports) <= Len(history)
    /\ Len(reports) = Len(history) =>
         \A i \in 1..Len(history) : history[i].tainted = reports[i].tainted
    /\ ~Live => \A i \in 1..Len(history) : ~history[i].tainted

IInv ==
    /\ TypeOK /\ PendingSound /\ SeedsRight /\ RefsPast /\ ContextsKnown
    /\ LinksOnRecord /\ HistoryPaired /\ ReportSpeaksOfItsTurn

\* The part of it that is about seeds and records.
Core == TypeOK /\ PendingSound /\ SeedsRight /\ RefsPast /\ ContextsKnown

LEMMA InitCore == Init => Core
  <1> SUFFICES ASSUME Init PROVE Core
    OBVIOUS
  <1> USE DEF Init
  <1>1. pending.open = FALSE /\ ToSet(ledger.obs) = {}
    BY DEF NoPending, ToSet
  <1>2. \A q : Clean(q) = {} /\ Refs(q) = {}
    BY <1>1 DEF Clean, Refs
  <1>3. TypeOK
    <2>1. seeds \in SeedStates
      BY NoSeedType DEF SeedStates
    <2>2. pending \in Pendings /\ detector \in Traces
      BY DEF NoPending, Pendings, FreshDetector, Traces, NoCtx, Ctx, Ctxs
    <2>3. QED
      BY <1>1, <2>1, <2>2 DEF TypeOK
  <1>4. SeedsRight
    <2>1. \A q \in Questions : seeds[q] = NoSeed
      OBVIOUS
    <2>2. \A q \in Questions : seeds[q].count = 0
      BY DEF NoSeed
    <2>3. Cardinality({}) = 0
      BY FS_EmptySet
    <2>4. \A q \in Questions : Cardinality(Refs(q)) = 0
      BY <1>2, <2>3
    <2>5. \A q \in Questions : Right(seeds[q], q)
      BY <2>2, <2>4 DEF Right
    <2>6. QED
      BY <2>1, <2>5 DEF SeedsRight, CountsStart
  <1>5. PendingSound /\ ContextsKnown
    BY <1>1 DEF PendingSound, ContextsKnown
  <1>6. RefsPast
    BY <1>2 DEF RefsPast
  <1>7. QED
    BY <1>3, <1>4, <1>5, <1>6 DEF Core

-----------------------------------------------------------------------------
(* Steps that record nothing.                                              *)

LEMMA SameRecords ==
    ASSUME ledger' = ledger
    PROVE  /\ \A q : Clean(q)' = Clean(q) /\ Refs(q)' = Refs(q)
           /\ \A x, q : RightAfter(x, q) = Right(x, q)
  <1>1. \A q : Clean(q)' = Clean(q)
    BY DEF Clean
  <1>2. \A q : Refs(q)' = Refs(q)
    BY <1>1 DEF Refs
  <1>3. QED
    BY <1>1, <1>2 DEF Right, RightAfter

LEMMA PrepareCore ==
    ASSUME Core, NEW surfaced \in SUBSET Questions, PrepareTurn(surfaced)
    PROVE  Core'
  <1> USE DEF Core, PrepareTurn
  <1>1. /\ ~pending.open /\ pending'.open = TRUE /\ pending'.turn = turn /\ pending'.before = seeds
        /\ pending'.was = troubled /\ pending'.lost = {} /\ pending'.surfaced = surfaced
    OBVIOUS
  <1>2. TypeOK'
    BY DEF TypeOK, Pendings
  <1>3. Held' = Held /\ Now' = Now /\ Held = troubled /\ Now = turn
    BY <1>1 DEF Held, Now
  <1>4. /\ \A q : Clean(q)' = Clean(q) /\ Refs(q)' = Refs(q)
        /\ \A x, q : RightAfter(x, q) = Right(x, q)
    BY SameRecords
  <1>5. SeedsRight'
    BY <1>4 DEF SeedsRight, CountsStart, Right, RightAfter
  <1>6. PendingSound'
    <2>1. turn <= turn
      BY DEF TypeOK
    <2>2. CountsStart(seeds) /\ \A q \in Questions \ troubled : Right(seeds[q], q)
      BY DEF SeedsRight
    <2>3. CountsStart(pending'.before)
      BY <1>1, <2>2
    <2>4. \A q \in Questions \ Held' : RightAfter(pending'.before[q], q)
      BY <1>1, <1>3, <1>4, <2>2
    <2>5. QED
      BY <1>1, <1>3, <2>1, <2>3, <2>4 DEF PendingSound, Live, CountsStart, Right, RightAfter
  <1>7. RefsPast'
    BY <1>3, <1>4 DEF RefsPast
  <1>8. ContextsKnown'
    <2>1. \A o \in ToSet(ledger.obs) : o.ctx.n < turn /\ o.ctx.n \in Nat => o.ctx.n # turn
      BY DEF TypeOK
    <2>2. \A o \in ToSet(ledger.obs) : o.ctx.n \in Nat
      <3>1. \A o \in ToSet(ledger.obs) : o \in Observations
        BY DEF TypeOK, ToSet
      <3>2. QED
        BY <3>1 DEF Observations, Ctxs
    <2>3. QED
      BY <1>1, <2>1, <2>2 DEF ContextsKnown
  <1>9. QED
    BY <1>2, <1>5, <1>6, <1>7, <1>8

LEMMA AbortCore ==
    ASSUME Core, AbortTurn
    PROVE  Core'
  <1> USE DEF Core, AbortTurn
  <1>1. pending.open /\ pending'.open = FALSE /\ pending.turn <= turn
    BY DEF NoPending, PendingSound
  <1>2. TypeOK'
    BY <1>1 DEF TypeOK, Pendings, NoPending
  <1>3. Held' = Held /\ Now = pending.turn /\ Now' = turn /\ troubled' = Held
    BY <1>1 DEF Held, Now
  <1>4. /\ \A q : Clean(q)' = Clean(q) /\ Refs(q)' = Refs(q)
        /\ \A x, q : RightAfter(x, q) = Right(x, q)
    BY SameRecords
  <1>5. SeedsRight'
    BY <1>1, <1>3, <1>4 DEF PendingSound, SeedsRight, CountsStart, Right, RightAfter
  <1>6. PendingSound'
    BY <1>1 DEF PendingSound
  <1>7. RefsPast'
    <2>1. \A q \in Questions \ Held : \A r \in Refs(q) : r.kind = "turn" => r.n < turn
      <3>1. \A o \in ToSet(ledger.obs) : o \in Observations
        BY DEF TypeOK, ToSet
      <3>2. \A q : \A r \in Refs(q) : r.n \in Nat
        BY <3>1, RefType DEF Refs, Clean, Observations, Ctxs
      <3>3. pending.turn \in Nat /\ turn \in Nat
        BY DEF TypeOK, Pendings
      <3>4. QED
        BY <1>1, <1>3, <3>2, <3>3 DEF RefsPast
    <2>2. QED
      BY <1>3, <1>4, <2>1 DEF RefsPast
  <1>8. ContextsKnown'
    BY <1>1 DEF ContextsKnown
  <1>9. QED
    BY <1>2, <1>5, <1>6, <1>7, <1>8

LEMMA DetectFailsCore ==
    ASSUME Core, DetectFails
    PROVE  Core'
  <1> USE DEF Core, DetectFails
  <1>1. /\ pending.open /\ pending'.open = TRUE /\ pending'.turn = pending.turn
        /\ pending'.before = pending.before /\ pending'.was = pending.was
        /\ pending'.lost = pending.lost /\ pending'.tried = TRUE
        /\ pending'.surfaced = pending.surfaced
    BY DEF TypeOK, Pendings
  <1>2. TypeOK'
    <2>1. detector' \in Traces
      <3>1. Ctx("turn", pending.turn, 0) \in Ctxs
        BY CtxType DEF TypeOK, Pendings
      <3>2. QED
        BY <3>1 DEF TypeOK, Traces
    <2>2. QED
      BY <2>1 DEF TypeOK, Pendings
  <1>3. Held' = Held /\ Now' = Now
    BY <1>1 DEF Held, Now
  <1>4. /\ \A q : Clean(q)' = Clean(q) /\ Refs(q)' = Refs(q)
        /\ \A x, q : RightAfter(x, q) = Right(x, q)
    BY SameRecords
  <1>5. SeedsRight'
    BY <1>4 DEF SeedsRight, CountsStart, Right, RightAfter
  <1>6. PendingSound'
    BY <1>1, <1>3, <1>4 DEF PendingSound, CountsStart, Right, RightAfter, Live
  <1>7. RefsPast'
    BY <1>3, <1>4 DEF RefsPast
  <1>8. ContextsKnown'
    BY <1>1 DEF ContextsKnown
  <1>9. QED
    BY <1>2, <1>5, <1>6, <1>7, <1>8

LEMMA ReloadCore ==
    ASSUME Core, Reload
    PROVE  Core'
  <1> USE DEF Core, Reload
  <1>1. TypeOK'
    BY DEF TypeOK, FreshDetector, Traces, NoCtx, Ctx, Ctxs
  <1>2. Held' = Held /\ Now' = Now
    BY DEF Held, Now
  <1>3. /\ \A q : Clean(q)' = Clean(q) /\ Refs(q)' = Refs(q)
        /\ \A x, q : RightAfter(x, q) = Right(x, q)
    BY SameRecords
  <1>4. SeedsRight'
    BY <1>3 DEF SeedsRight, CountsStart, Right, RightAfter
  <1>5. PendingSound'
    BY <1>2, <1>3 DEF PendingSound, CountsStart, Right, RightAfter, Live
  <1>6. RefsPast'
    BY <1>2, <1>3 DEF RefsPast
  <1>7. ContextsKnown'
    BY DEF ContextsKnown
  <1>8. QED
    BY <1>1, <1>4, <1>5, <1>6, <1>7

LEMMA AcceptedAsked ==
    ASSUME NEW lines \in Seq(Lines)
    PROVE  Accepted(lines) \subseteq Questions
  <1>1. \A l \in ToSet(lines) : l \in Lines
    BY DEF ToSet
  <1>2. QED
    BY <1>1 DEF Accepted, Normalizable, Lines

\* Some of the lines, from the first, are lines; nothing more is accepted for them.
LEMMA SomeLines ==
    ASSUME NEW lines \in Seq(Lines), NEW n \in 0..Len(lines)
    PROVE  SubSeq(lines, 1, n) \in Seq(Lines) /\ Accepted(SubSeq(lines, 1, n)) \subseteq Accepted(lines)
  <1> DEFINE some == SubSeq(lines, 1, n)
  <1>1. /\ some \in Seq(Lines) /\ Len(some) = n
        /\ \A i \in 1..n : some[i] = lines[i]
    BY SubSeqProperties
  <1>2. n \in Nat /\ n <= Len(lines) /\ DOMAIN some = 1..n /\ DOMAIN lines = 1..Len(lines)
    BY <1>1
  <1> HIDE DEF some
  <1>3. ToSet(some) \subseteq ToSet(lines)
    <2> SUFFICES ASSUME NEW i \in 1..n PROVE some[i] \in ToSet(lines)
      BY <1>2 DEF ToSet
    <2>1. i \in DOMAIN lines
      BY <1>2
    <2>2. QED
      BY <1>1, <2>1 DEF ToSet
  <1>4. Accepted(some) \subseteq Accepted(lines)
    BY <1>3 DEF Accepted, Normalizable
  <1>5. QED
    BY <1>1, <1>4 DEF some

LEMMA TracedType ==
    ASSUME detector \in Traces, NEW blank \in BOOLEAN, NEW ref \in Ctxs
    PROVE  Traced(blank, ref) \in Traces
  BY DEF Traced, Traces

\* Detecting without recording: what the failed call counted is in trouble.
LEMMA IntakeFailsCore ==
    ASSUME Core, NEW output \in Outputs, NEW n, NEW up, IntakeFails(output, n, up)
    PROVE  Core'
  <1> DEFINE all == Detected(FALSE, output)
             lines == SubSeq(all, 1, n)
             after == FirstPass(lines)
  <1> USE DEF Core
  <1>1. /\ pending.open /\ pending.surfaced = {} /\ n \in 0..Len(all)
        /\ up \subseteq Submitted(seeds, after)
        /\ detector' = Traced(FALSE, Ctx("turn", pending.turn, 0))
        /\ seeds' = Promote(after, up) /\ troubled' = troubled \cup Accepted(lines)
        /\ pending' = [pending EXCEPT !.tried = TRUE]
        /\ UNCHANGED <<runtime, turn, credited, ledger, history, reports>>
    BY DEF IntakeFails
  <1>2. /\ pending'.open = TRUE /\ pending'.turn = pending.turn
        /\ pending'.before = pending.before /\ pending'.was = pending.was
        /\ pending'.lost = pending.lost /\ pending'.tried = TRUE
        /\ pending'.surfaced = pending.surfaced
    BY <1>1 DEF TypeOK, Pendings
  <1>3. lines \in Seq(Lines) /\ Accepted(lines) \subseteq Questions
    BY <1>1, DetectedLines, SomeLines, AcceptedAsked
  <1> HIDE DEF all, lines
  <1>4. Provisional \in Ctxs /\ Ctx("turn", pending.turn, 0) \in Ctxs
    BY CtxType DEF Provisional, TypeOK, Pendings
  <1>5. after = Ingest(seeds, lines, Provisional)
    BY <1>1 DEF FirstPass, Admitted
  <1>6. /\ after \in SeedStates /\ CountsStart(after)
        /\ \A q \in Questions : q \notin Accepted(lines) => after[q] = seeds[q]
    BY <1>4, <1>5, IngestCounts DEF TypeOK, SeedsRight
  <1> HIDE DEF after
  <1>7. /\ seeds' \in SeedStates /\ CountsStart(seeds')
        /\ \A q \in Questions : seeds'[q].count = after[q].count /\ seeds'[q].origin = after[q].origin
    <2>1. \A q \in up \cap Questions : after[q].count >= Threshold
      BY <1>1 DEF Submitted
    <2>2. QED
      BY <1>1, <1>6, <2>1, PromoteCounts
  <1>8. TypeOK'
    <2>1. detector' \in Traces
      BY <1>1, <1>4, TracedType DEF TypeOK
    <2>2. pending' \in Pendings /\ pending'.before \in SeedStates
      BY <1>1, <1>2 DEF TypeOK, Pendings
    <2>3. troubled' \in SUBSET Questions
      BY <1>1, <1>3 DEF TypeOK
    <2>4. QED
      BY <1>1, <1>7, <2>1, <2>2, <2>3 DEF TypeOK
  <1>9. Held' = Held /\ Now' = Now
    BY <1>1, <1>2 DEF Held, Now
  <1>10. /\ \A q : Clean(q)' = Clean(q) /\ Refs(q)' = Refs(q)
         /\ \A x, q : RightAfter(x, q) = Right(x, q)
    BY <1>1, SameRecords
  <1>11. SeedsRight'
    <2>1. ASSUME NEW q \in Questions \ troubled' PROVE RightAfter(seeds'[q], q)
      <3>1. q \in Questions \ troubled /\ q \notin Accepted(lines)
        BY <1>1, <2>1
      <3>2. seeds'[q].count = seeds[q].count /\ seeds'[q].origin = seeds[q].origin
        BY <1>6, <1>7, <3>1
      <3>3. Right(seeds[q], q)
        BY <3>1 DEF SeedsRight
      <3>4. Right(seeds'[q], q)
        BY <3>2, <3>3 DEF Right
      <3>5. QED
        BY <1>10, <3>4
    <2>2. QED
      BY <1>7, <2>1 DEF SeedsRight, RightAfter, Right, CountsStart
  <1>12. PendingSound'
    BY <1>1, <1>2, <1>9, <1>10 DEF PendingSound, CountsStart, Right, RightAfter, Live
  <1>13. RefsPast'
    BY <1>1, <1>9, <1>10 DEF RefsPast
  <1>14. ContextsKnown'
    BY <1>1, <1>2 DEF ContextsKnown
  <1>15. QED
    BY <1>8, <1>11, <1>12, <1>13, <1>14

-----------------------------------------------------------------------------
(* Steps that record.                                                      *)

LEMMA KnownContexts ==
    ASSUME Core
    PROVE  \A o \in ToSet(ledger.obs) :
             /\ o \in Observations /\ o.ctx \in Ctxs /\ o.ctx.n \in Nat /\ o.exposed \in BOOLEAN
             /\ o.ctx.kind \in {"draft", "visible", "baseline", "chunk"}
  <1>1. \A o \in ToSet(ledger.obs) : o \in Observations
    BY DEF Core, TypeOK, ToSet
  <1>2. QED
    BY <1>1 DEF Core, ContextsKnown, Observations, Ctxs

LEMMA RefsTyped ==
    ASSUME Core, NEW q
    PROVE  \A r \in Refs(q) : r \in Ctxs /\ r.n \in Nat
  BY KnownContexts, RefType DEF Refs, Clean, Ctxs

\* What a batch does to a question it does not count for.
LEMMA RecordsKept ==
    ASSUME Core, NEW lines \in Seq(Lines), NEW ctx \in Ctxs, NEW exposed \in BOOLEAN,
           \A l \in ToSet(lines) : l.form # "stub",
           Alike(ctx, exposed), ledger' = RecordBatch(lines, ctx, exposed),
           NEW q, exposed \/ q \notin Accepted(lines)
    PROVE  Refs(q)' = Refs(q) /\ \A x : Right(x, q) => RightAfter(x, q)
  <1>1. Clean(q) \subseteq Clean(q)' /\ Refs(q)' = Refs(q)
    BY RefsGrow DEF Core, TypeOK
  <1>2. QED
    BY <1>1 DEF Right, RightAfter

LEMMA SettleSeeds ==
    ASSUME Core, pending.open, NEW lines \in Seq(Lines), NEW up, NEW revised \in BOOLEAN,
           \A l \in ToSet(lines) : l.form # "stub", Settle(lines, up, revised)
    PROVE  /\ AnswerCtx(revised) \in Ctxs /\ AnswerCtx(revised).n = pending.turn
           /\ AnswerCtx(revised).kind \in {"draft", "visible"}
           /\ Alike(AnswerCtx(revised), pending.surfaced # {})
           /\ seeds' \in SeedStates /\ CountsStart(seeds')
           /\ \A q \in Questions \ troubled : RightAfter(seeds'[q], q)
  <1> DEFINE ctx == AnswerCtx(revised)
             some == Admitted(lines)
             first == FirstPass(lines)
             mended == Repaired(first, Accepted(some), ctx)
  <1>1. pending.turn \in Nat /\ pending.turn <= turn /\ turn \in Nat
    BY DEF Core, PendingSound, TypeOK, Pendings
  <1>2. ctx \in Ctxs /\ ctx.n = pending.turn /\ ctx.kind \in {"draft", "visible"}
    <2>1. ctx = Ctx("draft", pending.turn, 0) \/ ctx = Ctx("visible", pending.turn, 0)
      BY DEF AnswerCtx
    <2>2. QED
      BY <1>1, <2>1, CtxType DEF Ctx
  <1>3. Ref(ctx).kind = "turn" /\ Ref(ctx).n = pending.turn
    BY <1>2 DEF Ref, Ctx
  <1>4. Provisional \in Ctxs /\ Provisional.kind = "first_pass"
    BY <1>1, CtxType DEF Provisional, Ctx
  <1>5. Alike(ctx, pending.surfaced # {})
    BY <1>2 DEF Alike, Core, ContextsKnown
  <1>6. some = IF pending.surfaced = {} THEN lines ELSE <<>>
    BY DEF Admitted
  <1>7. pending.surfaced # {} => Accepted(some) = {}
    BY <1>6 DEF Accepted, Normalizable, ToSet
  <1>8. /\ up \subseteq Submitted(seeds, first)
        /\ seeds' = Promote(mended, up)
        /\ ledger' = RecordBatch(lines, ctx, pending.surfaced # {})
    BY DEF Settle
  <1>9. first = Ingest(seeds, some, Provisional)
    BY DEF FirstPass
  <1>10. seeds \in SeedStates /\ CountsStart(seeds)
    BY DEF Core, TypeOK, SeedsRight
  <1> HIDE DEF ctx, some, first
  <1>11. /\ first \in SeedStates /\ CountsStart(first)
         /\ \A q \in Questions :
              IF q \in Accepted(some)
                THEN /\ first[q].count = seeds[q].count + 1
                     /\ first[q].origin = IF seeds[q].count = 0 THEN Provisional
                                                                ELSE seeds[q].origin
                ELSE first[q] = seeds[q]
    BY <1>4, <1>9, <1>10, IngestCounts
  <1>12. \A q \in Accepted(some) \cap Questions : first[q].count # 0
    <2>1. \A q \in Questions : seeds[q].count \in Nat
      BY <1>10 DEF SeedStates
    <2>2. QED
      BY <1>11, <2>1
  <1>13. /\ mended \in SeedStates /\ CountsStart(mended)
         /\ \A q \in Questions :
              /\ mended[q].count = first[q].count
              /\ mended[q].origin = IF q \in Accepted(some) /\ first[q].origin = Provisional
                                    THEN ctx ELSE first[q].origin
    BY <1>2, <1>11, <1>12, RepairedCounts
  <1> HIDE DEF mended
  <1>14. /\ seeds' \in SeedStates /\ CountsStart(seeds')
         /\ \A q \in Questions :
              seeds'[q].count = mended[q].count /\ seeds'[q].origin = mended[q].origin
    <2>1. \A q \in up \cap Questions : mended[q].count >= Threshold
      BY <1>8, <1>13 DEF Submitted
    <2>2. QED
      BY <1>8, <1>13, <2>1, PromoteCounts
  <1>15. ASSUME NEW q \in Questions \ troubled PROVE RightAfter(seeds'[q], q)
    <2>1. Right(seeds[q], q) /\ seeds[q].count \in Nat
      BY <1>10 DEF Core, SeedsRight, SeedStates
    <2>2. Ref(ctx) \notin Refs(q)
      <3>1. q \in Questions \ Held
        BY DEF Core, PendingSound
      <3>2. \A r \in Refs(q) : r.kind = "turn" => r.n < pending.turn
        BY <3>1 DEF Core, RefsPast, Now
      <3>3. QED
        BY <1>1, <1>3, <3>2
    <2>3. q \in Accepted(some) <=> ~(pending.surfaced # {}) /\ q \in Accepted(lines)
      BY <1>6, <1>7
    <2>4. seeds[q].count > 0 => seeds[q].origin # Provisional
      <3>1. seeds[q].count > 0 => \E o \in Clean(q) : o.ctx = seeds[q].origin
        BY <2>1 DEF Right
      <3>2. \A o \in Clean(q) : o.ctx.kind # "first_pass"
        BY KnownContexts DEF Clean
      <3>3. QED
        BY <1>4, <3>1, <3>2
    <2>5. IF ~(pending.surfaced # {}) /\ q \in Accepted(lines) /\ Ref(ctx) \notin Refs(q)
            THEN /\ seeds'[q].count = seeds[q].count + 1
                 /\ seeds'[q].origin = IF seeds[q].count = 0 THEN ctx ELSE seeds[q].origin
            ELSE seeds'[q].count = seeds[q].count /\ seeds'[q].origin = seeds[q].origin
      <3>1. CASE q \in Accepted(some)
        BY <1>11, <1>13, <1>14, <2>1, <2>2, <2>3, <2>4, <3>1
      <3>2. CASE q \notin Accepted(some)
        BY <1>11, <1>13, <1>14, <2>2, <2>3, <3>2
      <3>3. QED
        BY <3>1, <3>2
    <2>6. ledger.obs \in Seq(Observations)
      BY DEF Core, TypeOK
    <2>7. QED
      BY <1>2, <1>5, <1>8, <2>1, <2>5, <2>6, RightGrows
  <1>16. QED
    BY <1>2, <1>5, <1>14, <1>15 DEF ctx

LEMMA SettleContexts ==
    ASSUME Core, pending.open, NEW lines \in Seq(Lines), NEW up, NEW revised \in BOOLEAN,
           \A l \in ToSet(lines) : l.form # "stub", Settle(lines, up, revised)
    PROVE  /\ turn' = turn + 1 /\ ledger'.obs \in Seq(Observations)
           /\ \A o \in ToSet(ledger'.obs) :
                /\ o.ctx.kind \in {"draft", "visible", "baseline", "chunk"}
                /\ o.ctx.kind \in {"baseline", "chunk"} => ~o.exposed
                /\ o.ctx.kind \in {"draft", "visible"} =>
                     /\ o.ctx.n < turn'
                     /\ o.ctx.n = pending.turn => o.exposed = (pending.surfaced # {})
           /\ \A q \in Questions \ Held : \A r \in Refs(q)' :
                IF r \in Refs(q) THEN TRUE ELSE r.kind = "turn" /\ r.n = pending.turn
           /\ \A q : Refs(q) \subseteq Refs(q)'
           /\ history' \in Seq([tainted : BOOLEAN])
  <1> DEFINE ctx == AnswerCtx(revised)
  <1>1. /\ ctx \in Ctxs /\ ctx.n = pending.turn /\ ctx.kind \in {"draft", "visible"}
        /\ Alike(ctx, pending.surfaced # {})
    BY SettleSeeds
  <1>2. ledger' = RecordBatch(lines, ctx, pending.surfaced # {}) /\ turn' = turn + 1
    BY DEF Settle
  <1>3. /\ ledger'.obs \in Seq(Observations)
        /\ ToSet(ledger'.obs) = ToSet(ledger.obs) \cup Made(lines, ctx, pending.surfaced # {})
    BY <1>1, <1>2, RecordedSet DEF Core, TypeOK
  <1>4. pending.turn \in Nat /\ pending.turn <= turn /\ turn \in Nat
    BY DEF Core, PendingSound, TypeOK, Pendings
  <1>5. ASSUME NEW o \in ToSet(ledger'.obs)
        PROVE  /\ o.ctx.kind \in {"draft", "visible", "baseline", "chunk"}
               /\ o.ctx.kind \in {"baseline", "chunk"} => ~o.exposed
               /\ o.ctx.kind \in {"draft", "visible"} =>
                     /\ o.ctx.n < turn'
                     /\ o.ctx.n = pending.turn => o.exposed = (pending.surfaced # {})
    <2>1. CASE o \in ToSet(ledger.obs)
      <3>1. o.ctx.n \in Nat
        BY <2>1, KnownContexts
      <3>2. QED
        BY <1>2, <1>4, <2>1, <3>1 DEF Core, ContextsKnown
    <2>2. CASE o \in Made(lines, ctx, pending.surfaced # {})
      <3>1. o.ctx = ctx /\ o.exposed = (pending.surfaced # {})
        BY <2>2 DEF Made, Observation
      <3>2. QED
        BY <1>1, <1>2, <1>4, <3>1
    <2>3. QED
      BY <1>3, <2>1, <2>2
  <1>6. Ref(ctx).kind = "turn" /\ Ref(ctx).n = pending.turn
    BY <1>1 DEF Ref, Ctx
  <1> HIDE DEF ctx
  <1>7. \A q : /\ Refs(q)' \in {Refs(q), Refs(q) \cup {Ref(ctx)}}
    BY <1>1, <1>2, RefsGrow DEF Core, TypeOK
  <1>8. history' \in Seq([tainted : BOOLEAN])
    BY DEF Core, TypeOK, Settle, Influenced
  <1>9. \A q : Refs(q) \subseteq Refs(q)'
    BY <1>7
  <1>10. \A q \in Questions \ Held : \A r \in Refs(q)' :
                IF r \in Refs(q) THEN TRUE ELSE r.kind = "turn" /\ r.n = pending.turn
    BY <1>6, <1>7
  <1>11. QED
    BY <1>2, <1>3, <1>5, <1>8, <1>9, <1>10

LEMMA ReportType ==
    ASSUME NEW ref \in Ctxs, NEW tainted \in BOOLEAN, NEW blank \in BOOLEAN,
           NEW tried \in BOOLEAN, detector' \in Traces,
           NEW lines, NEW admitted, NEW ctx, NEW exposed
    PROVE  Report(ref, lines, admitted, ctx, exposed, tainted, blank, tried) \in Reports
  <1>1. Loose(lines, ctx, exposed) \in BOOLEAN
    BY DEF Loose
  <1>2. QED
    BY <1>1 DEF Report, Reports

LEMMA ObserveTurnCore ==
    ASSUME Core, NEW blank \in BOOLEAN, NEW output \in Outputs, NEW up, NEW revised \in BOOLEAN,
           ObserveTurn(blank, output, up, revised)
    PROVE  Core'
  <1> DEFINE lines == Detected(blank, output)
  <1>1. /\ pending.open /\ Settle(lines, up, revised)
        /\ detector' = Traced(blank, Ctx("turn", pending.turn, 0))
        /\ reports' = Append(reports,
             Report(Ctx("turn", pending.turn, 0), lines, Admitted(lines), AnswerCtx(revised),
                    pending.surfaced # {}, SurfacedInReport(revised), blank, pending.tried))
        /\ pending' = NoPending /\ UNCHANGED <<runtime, credited, troubled, spent>>
    BY DEF ObserveTurn
  <1>2. lines \in Seq(Lines) /\ \A l \in ToSet(lines) : l.form # "stub"
    BY DetectedLines
  <1> HIDE DEF lines
  <1>3. /\ seeds' \in SeedStates /\ CountsStart(seeds')
        /\ \A q \in Questions \ troubled : RightAfter(seeds'[q], q)
    BY <1>1, <1>2, SettleSeeds
  <1>4. /\ turn' = turn + 1 /\ ledger'.obs \in Seq(Observations)
        /\ \A o \in ToSet(ledger'.obs) :
                /\ o.ctx.kind \in {"draft", "visible", "baseline", "chunk"}
                /\ o.ctx.kind \in {"baseline", "chunk"} => ~o.exposed
                /\ o.ctx.kind \in {"draft", "visible"} => o.ctx.n < turn'
        /\ \A q \in Questions \ Held : \A r \in Refs(q)' :
                IF r \in Refs(q) THEN TRUE ELSE r.kind = "turn" /\ r.n = pending.turn
        /\ \A q : Refs(q) \subseteq Refs(q)'
        /\ history' \in Seq([tainted : BOOLEAN])
    BY <1>1, <1>2, SettleContexts
  <1>5. ~pending'.open /\ Held' = troubled /\ Now' = turn + 1 /\ Held \subseteq troubled
        /\ Now = pending.turn /\ pending.turn \in Nat /\ turn \in Nat /\ pending.turn <= turn
    BY <1>1, <1>4 DEF NoPending, Held, Now, Core, PendingSound, TypeOK, Pendings
  <1>6. TypeOK'
    <2>1. detector' \in Traces /\ Ctx("turn", pending.turn, 0) \in Ctxs
      BY <1>1, <1>5, CtxType, TracedType DEF Core, TypeOK
    <2>2. SurfacedInReport(revised) \in BOOLEAN /\ pending.tried \in BOOLEAN
      BY DEF SurfacedInReport, Influenced, Core, TypeOK, Pendings
    <2>3. reports' \in Seq(Reports)
      BY <1>1, <2>1, <2>2, ReportType DEF Core, TypeOK
    <2>4. NoPending \in Pendings
      BY DEF NoPending, Pendings
    <2>5. turn' \in Nat
      BY <1>4, <1>5
    <2>6. UNCHANGED <<runtime, credited, troubled>>
      BY <1>1
    <2>7. QED
      BY <1>1, <1>3, <1>4, <1>5, <2>1, <2>3, <2>4, <2>5, <2>6 DEF Core, TypeOK
  <1>7. SeedsRight'
    BY <1>1, <1>3 DEF SeedsRight, RightAfter, Right, CountsStart
  <1>8. PendingSound'
    BY <1>5 DEF PendingSound
  <1>9. RefsPast'
    <2> SUFFICES ASSUME NEW q \in Questions \ troubled
                 PROVE  /\ \A r \in Refs(q)' : r.kind = "turn" => r.n < Now'
                        /\ credited[q] = {r \in Refs(q)' : r.kind = "source"}
      BY <1>1, <1>5 DEF RefsPast
    <2>1. /\ \A r \in Refs(q) : r.n \in Nat /\ (r.kind = "turn" => r.n < pending.turn)
          /\ credited[q] = {r \in Refs(q) : r.kind = "source"}
      BY <1>5, RefsTyped DEF Core, RefsPast
    <2>2. \A r \in Refs(q)' : IF r \in Refs(q) THEN TRUE ELSE r.kind = "turn" /\ r.n = pending.turn
      BY <1>4, <1>5
    <2>3. QED
      BY <1>4, <1>5, <2>1, <2>2
  <1>10. ContextsKnown'
    BY <1>4, <1>5 DEF ContextsKnown
  <1>11. QED
    BY <1>6, <1>7, <1>8, <1>9, <1>10 DEF Core

LEMMA ReportFailsCore ==
    ASSUME Core, NEW output \in Outputs, NEW up, NEW revised \in BOOLEAN,
           ReportFails(output, up, revised)
    PROVE  Core'
  <1> DEFINE lines == Detected(FALSE, output)
             counted == Accepted(Admitted(lines))
  <1>1. /\ pending.open /\ Settle(lines, up, revised)
        /\ detector' = Traced(FALSE, Ctx("turn", pending.turn, 0))
        /\ troubled' = troubled \cup counted
        /\ pending' = [pending EXCEPT !.tried = TRUE, !.lost = @ \cup counted]
        /\ UNCHANGED <<runtime, credited, reports>>
    BY DEF ReportFails
  <1>2. /\ lines \in Seq(Lines) /\ \A l \in ToSet(lines) : l.form # "stub"
        /\ counted \subseteq Questions
    <2>1. lines \in Seq(Lines) /\ \A l \in ToSet(lines) : l.form # "stub"
      BY DetectedLines
    <2>2. Admitted(lines) \in Seq(Lines)
      <3>1. <<>> \in Seq(Lines) /\ Admitted(lines) \in {<<>>, lines}
        BY DEF Admitted
      <3>2. QED
        BY <2>1, <3>1
    <2>3. QED
      BY <2>1, <2>2, AcceptedAsked
  <1>3. pending.surfaced # {} \/ counted = Accepted(lines)
    BY DEF Admitted
  <1> HIDE DEF lines, counted
  <1>4. /\ seeds' \in SeedStates /\ CountsStart(seeds')
        /\ \A q \in Questions \ troubled : RightAfter(seeds'[q], q)
        /\ AnswerCtx(revised) \in Ctxs /\ Alike(AnswerCtx(revised), pending.surfaced # {})
    BY <1>1, <1>2, SettleSeeds
  <1>5. /\ turn' = turn + 1 /\ ledger'.obs \in Seq(Observations)
        /\ \A o \in ToSet(ledger'.obs) :
                /\ o.ctx.kind \in {"draft", "visible", "baseline", "chunk"}
                /\ o.ctx.kind \in {"baseline", "chunk"} => ~o.exposed
                /\ o.ctx.kind \in {"draft", "visible"} =>
                     /\ o.ctx.n < turn'
                     /\ o.ctx.n = pending.turn => o.exposed = (pending.surfaced # {})
        /\ history' \in Seq([tainted : BOOLEAN])
    BY <1>1, <1>2, SettleContexts
  <1>6. /\ pending'.open /\ pending'.turn = pending.turn /\ pending'.before = pending.before
        /\ pending'.was = pending.was /\ pending'.lost = pending.lost \cup counted
        /\ pending'.tried = TRUE /\ pending'.surfaced = pending.surfaced
    BY <1>1 DEF Core, TypeOK, Pendings
  <1>7. /\ Held' = Held \cup counted /\ Now' = Now
        /\ pending.turn \in Nat /\ turn \in Nat /\ pending.turn <= turn
    BY <1>1, <1>6 DEF Held, Now, Core, PendingSound, TypeOK, Pendings
  <1>8. \A q \in Questions \ Held' : Refs(q)' = Refs(q) /\ \A x : Right(x, q) => RightAfter(x, q)
    <2>1. ledger' = RecordBatch(lines, AnswerCtx(revised), pending.surfaced # {})
      BY <1>1 DEF Settle
    <2>2. QED
      BY <1>2, <1>3, <1>4, <1>7, <2>1, RecordsKept
  <1>9. TypeOK'
    <2>1. detector' \in Traces
      BY <1>1, <1>7, CtxType, TracedType DEF Core, TypeOK
    <2>2. pending' \in Pendings /\ pending'.before \in SeedStates
      BY <1>1, <1>2, <1>6 DEF Core, TypeOK, Pendings
    <2>3. turn' \in Nat /\ troubled' \in SUBSET Questions
      BY <1>1, <1>2, <1>5, <1>7 DEF Core, TypeOK
    <2>4. UNCHANGED <<runtime, credited, reports>>
      BY <1>1
    <2>5. QED
      BY <1>4, <1>5, <2>1, <2>2, <2>3, <2>4 DEF Core, TypeOK
  <1>10. SeedsRight'
    <2>1. \A q \in Questions \ troubled' : RightAfter(seeds'[q], q)
      BY <1>1, <1>4
    <2>2. QED
      BY <1>4, <2>1 DEF SeedsRight, RightAfter, Right, CountsStart
  <1>11. PendingSound'
    <2>1. /\ Live /\ Held \subseteq troubled /\ CountsStart(pending.before)
          /\ \A q \in Questions \ Held : Right(pending.before[q], q)
      BY <1>1 DEF Core, PendingSound
    <2>2. \A q \in Questions \ Held' : RightAfter(pending'.before[q], q)
      BY <1>6, <1>7, <1>8, <2>1
    <2>3. pending'.turn <= turn' /\ Live'
      BY <1>1, <1>5, <1>6, <1>7, <2>1 DEF Live
    <2>4. Held' \subseteq troubled'
      BY <1>1, <1>7, <2>1
    <2>5. QED
      BY <1>6, <2>1, <2>2, <2>3, <2>4 DEF PendingSound, RightAfter, Right, CountsStart
  <1>12. RefsPast'
    <2>1. UNCHANGED credited
      BY <1>1
    <2>2. QED
      BY <1>7, <1>8, <2>1 DEF Core, RefsPast
  <1>13. ContextsKnown'
    BY <1>5, <1>6 DEF ContextsKnown
  <1>14. QED
    BY <1>9, <1>10, <1>11, <1>12, <1>13 DEF Core

\* What a text that no seed had a part in adds.
LEMMA PlainRecords ==
    ASSUME Core, NEW lines \in Seq(Lines), NEW ctx \in Ctxs, ctx.kind \in {"baseline", "chunk"},
           \A l \in ToSet(lines) : l.form # "stub", ledger' = RecordBatch(lines, ctx, FALSE)
    PROVE  /\ Alike(ctx, FALSE) /\ ledger'.obs \in Seq(Observations)
           /\ \A o \in ToSet(ledger'.obs) :
                \/ o \in ToSet(ledger.obs)
                \/ o.ctx = ctx /\ ~o.exposed
           /\ \A q : Refs(q)' = IF q \in Accepted(lines) THEN Refs(q) \cup {Ref(ctx)} ELSE Refs(q)
  <1>1. Alike(ctx, FALSE)
    <2>1. \A o \in ToSet(ledger.obs) : o.ctx = ctx => o.exposed \in BOOLEAN /\ ~o.exposed
      BY KnownContexts DEF Core, ContextsKnown
    <2>2. QED
      BY <2>1 DEF Alike
  <1>2. /\ ledger'.obs \in Seq(Observations)
        /\ ToSet(ledger'.obs) = ToSet(ledger.obs) \cup Made(lines, ctx, FALSE)
    BY <1>1, RecordedSet DEF Core, TypeOK
  <1>3. \A o \in Made(lines, ctx, FALSE) : o.ctx = ctx /\ o.exposed = FALSE
    BY DEF Made, Observation
  <1>4. ASSUME NEW q
        PROVE  Refs(q)' = IF q \in Accepted(lines) THEN Refs(q) \cup {Ref(ctx)} ELSE Refs(q)
    <2>1. Refs(q)' = IF ~FALSE /\ q \in Accepted(lines) THEN Refs(q) \cup {Ref(ctx)} ELSE Refs(q)
      BY <1>1, RefsGrow DEF Core, TypeOK
    <2>2. QED
      BY <2>1
  <1>5. QED
    BY <1>1, <1>2, <1>3, <1>4

LEMMA BaselineCtx ==
    ASSUME turn \in Nat
    PROVE  LET ctx == Ctx("baseline", turn, 0)
           IN  ctx \in Ctxs /\ ctx.kind = "baseline" /\ Ref(ctx) = Ctx("turn", turn, 0)
  BY CtxType DEF Ctx, Ref

\* One evaluation turn, whether or not its report is made.
LEMMA BaselineCore ==
    ASSUME Core, NEW blank \in BOOLEAN, NEW output \in Outputs, NEW up,
           Baseline(blank, output, up), reports' \in Seq(Reports), troubled' = troubled
    PROVE  Core'
  <1> DEFINE lines == Detected(blank, output)
             ctx == Ctx("baseline", turn, 0)
             after == Ingest(seeds, lines, ctx)
  <1>1. /\ ~Live /\ detector' = Traced(blank, Ref(ctx))
        /\ ledger' = RecordBatch(lines, ctx, FALSE)
        /\ up \subseteq {q \in Questions : after[q].count >= Threshold /\ ~after[q].promoted}
        /\ seeds' = Promote(after, up)
        /\ history' = Append(history, [tainted |-> FALSE]) /\ turn' = turn + 1
        /\ UNCHANGED <<runtime, credited, pending>>
    BY DEF Baseline
  <1>2. lines \in Seq(Lines) /\ \A l \in ToSet(lines) : l.form # "stub"
    BY DetectedLines
  <1>3. turn \in Nat /\ ~pending.open /\ Held = troubled /\ Now = turn
    BY <1>1 DEF Core, TypeOK, PendingSound, Held, Now
  <1>4. ctx \in Ctxs /\ ctx.kind = "baseline" /\ Ref(ctx) = Ctx("turn", turn, 0)
    BY <1>3, BaselineCtx
  <1>5. Ref(ctx).kind = "turn" /\ Ref(ctx).n = turn /\ Ref(ctx) \in Ctxs
    BY <1>4, RefType DEF Ctx
  <1> HIDE DEF lines, ctx
  <1>6. /\ after \in SeedStates /\ CountsStart(after)
        /\ \A q \in Questions :
             IF q \in Accepted(lines)
               THEN /\ after[q].count = seeds[q].count + 1
                    /\ after[q].origin = IF seeds[q].count = 0 THEN ctx ELSE seeds[q].origin
               ELSE after[q] = seeds[q]
    BY <1>4, IngestCounts DEF Core, TypeOK, SeedsRight
  <1> HIDE DEF after
  <1>7. /\ seeds' \in SeedStates /\ CountsStart(seeds')
        /\ \A q \in Questions : seeds'[q].count = after[q].count /\ seeds'[q].origin = after[q].origin
    BY <1>1, <1>6, PromoteCounts
  <1>8. /\ Alike(ctx, FALSE) /\ ledger'.obs \in Seq(Observations)
        /\ \A o \in ToSet(ledger'.obs) :
                \/ o \in ToSet(ledger.obs)
                \/ o.ctx = ctx /\ ~o.exposed
        /\ \A q : Refs(q)' = IF q \in Accepted(lines) THEN Refs(q) \cup {Ref(ctx)} ELSE Refs(q)
    BY <1>1, <1>2, <1>4, PlainRecords
  <1>9. ~pending'.open /\ Held' = troubled /\ Now' = turn + 1
    BY <1>1, <1>3 DEF Held, Now
  <1>10. TypeOK'
    <2>1. detector' \in Traces
      BY <1>1, <1>5, TracedType DEF Core, TypeOK
    <2>2. history' \in Seq([tainted : BOOLEAN]) /\ turn' \in Nat
      BY <1>1, <1>3 DEF Core, TypeOK
    <2>3. UNCHANGED <<runtime, credited, pending>>
      BY <1>1
    <2>4. QED
      BY <1>3, <1>7, <1>8, <2>1, <2>2, <2>3 DEF Core, TypeOK
  <1>11. SeedsRight'
    <2>1. ASSUME NEW q \in Questions \ troubled PROVE RightAfter(seeds'[q], q)
      <3>1. Right(seeds[q], q) /\ seeds[q].count \in Nat
        BY DEF Core, SeedsRight, TypeOK, SeedStates
      <3>2. Ref(ctx) \notin Refs(q)
        BY <1>3, <1>5 DEF Core, RefsPast
      <3>3. IF ~FALSE /\ q \in Accepted(lines) /\ Ref(ctx) \notin Refs(q)
              THEN /\ seeds'[q].count = seeds[q].count + 1
                   /\ seeds'[q].origin = IF seeds[q].count = 0 THEN ctx ELSE seeds[q].origin
              ELSE seeds'[q].count = seeds[q].count /\ seeds'[q].origin = seeds[q].origin
        BY <1>6, <1>7, <3>2
      <3>4. QED
        BY <1>1, <1>2, <1>4, <1>8, <3>1, <3>3, RightGrows DEF Core, TypeOK
    <2>2. QED
      BY <1>7, <2>1 DEF SeedsRight, RightAfter, Right, CountsStart
  <1>12. PendingSound'
    BY <1>9 DEF PendingSound
  <1>13. RefsPast'
    <2> SUFFICES ASSUME NEW q \in Questions \ troubled
                 PROVE  /\ \A r \in Refs(q)' : r.kind = "turn" => r.n < Now'
                        /\ credited[q] = {r \in Refs(q)' : r.kind = "source"}
      BY <1>1, <1>9 DEF RefsPast
    <2>1. /\ \A r \in Refs(q) : r.n \in Nat /\ (r.kind = "turn" => r.n < turn)
          /\ credited[q] = {r \in Refs(q) : r.kind = "source"}
      BY <1>3, RefsTyped DEF Core, RefsPast
    <2>2. \A r \in Refs(q)' : r \in Refs(q) \/ r = Ref(ctx)
      BY <1>8
    <2>3. Refs(q) \subseteq Refs(q)'
      BY <1>8
    <2>4. QED
      BY <1>3, <1>5, <1>9, <2>1, <2>2, <2>3
  <1>14. ContextsKnown'
    <2>1. \A o \in ToSet(ledger.obs) : o.ctx.n \in Nat
      BY KnownContexts
    <2>2. ASSUME NEW o \in ToSet(ledger'.obs)
          PROVE  /\ o.ctx.kind \in {"draft", "visible", "baseline", "chunk"}
                 /\ o.ctx.kind \in {"baseline", "chunk"} => ~o.exposed
                 /\ o.ctx.kind \in {"draft", "visible"} => o.ctx.n < turn + 1
      BY <1>3, <1>4, <1>8, <2>1 DEF Core, ContextsKnown
    <2>3. QED
      BY <1>1, <1>9, <2>2 DEF ContextsKnown
  <1>15. QED
    BY <1>10, <1>11, <1>12, <1>13, <1>14 DEF Core

LEMMA EvaluationTurnCore ==
    ASSUME Core, NEW blank \in BOOLEAN, NEW output \in Outputs, NEW up,
           EvaluationTurn(blank, output, up)
    PROVE  Core'
  <1> DEFINE lines == Detected(blank, output)
             ctx == Ctx("baseline", turn, 0)
             tried == \E o \in ToSet(ledger.obs) : o.ctx = ctx
  <1>1. /\ Baseline(blank, output, up) /\ troubled' = troubled
        /\ reports' = Append(reports, Report(Ref(ctx), lines, lines, ctx, FALSE, FALSE, blank, tried))
    BY DEF EvaluationTurn
  <1>2. ctx \in Ctxs /\ Ref(ctx) \in Ctxs /\ tried \in BOOLEAN
    BY BaselineCtx, RefType DEF Core, TypeOK
  <1>3. detector' \in Traces
    <2>1. detector' = Traced(blank, Ref(ctx))
      BY <1>1 DEF Baseline
    <2> HIDE DEF ctx
    <2>2. QED
      BY <1>2, <2>1, TracedType DEF Core, TypeOK
  <1>4. reports' \in Seq(Reports)
    <2> HIDE DEF lines, ctx, tried
    <2> DEFINE made == Report(Ref(ctx), lines, lines, ctx, FALSE, FALSE, blank, tried)
    <2>1. made \in Reports
      BY <1>2, <1>3, ReportType
    <2>2. reports' = Append(reports, made) /\ reports \in Seq(Reports)
      BY <1>1 DEF Core, TypeOK
    <2> HIDE DEF made
    <2>3. QED
      BY <2>1, <2>2
  <1>5. QED
    BY <1>1, <1>4, BaselineCore

LEMMA EvaluationReportFailsCore ==
    ASSUME Core, NEW output \in Outputs, NEW up, EvaluationReportFails(output, up)
    PROVE  Core'
  <1>1. reports' \in Seq(Reports) /\ troubled' = troubled /\ Baseline(FALSE, output, up)
    BY DEF EvaluationReportFails, Core, TypeOK
  <1>2. QED
    BY <1>1, BaselineCore

LEMMA EvaluationIntakeFailsCore ==
    ASSUME Core, NEW output \in Outputs, NEW n, EvaluationIntakeFails(output, n)
    PROVE  Core'
  <1> DEFINE lines == Detected(FALSE, output)
             some == SubSeq(lines, 1, n)
             ctx == Ctx("baseline", turn, 0)
  <1>1. /\ ~Live /\ n \in 0..Len(lines) - 1 /\ detector' = Traced(FALSE, Ref(ctx))
        /\ ledger' = RecordBatch(lines, ctx, FALSE)
        /\ seeds' = Ingest(seeds, some, ctx)
        /\ troubled' = troubled \cup Accepted(lines)
        /\ UNCHANGED <<runtime, turn, credited, history, reports, pending>>
    BY DEF EvaluationIntakeFails
  <1>2. /\ lines \in Seq(Lines) /\ \A l \in ToSet(lines) : l.form # "stub"
        /\ Accepted(lines) \subseteq Questions
    BY DetectedLines, AcceptedAsked
  <1>3. turn \in Nat /\ ~pending.open /\ Held = troubled /\ Now = turn
    BY <1>1 DEF Core, TypeOK, PendingSound, Held, Now
  <1>4. ctx \in Ctxs /\ ctx.kind = "baseline" /\ Ref(ctx) \in Ctxs
    BY <1>3, BaselineCtx, RefType
  <1> HIDE DEF lines, ctx
  <1>5. Accepted(some) \subseteq Accepted(lines)
    <2>1. n \in 0..Len(lines)
      BY <1>1, <1>2
    <2>2. QED
      BY <1>2, <2>1, SomeLines
  <1> HIDE DEF some
  <1>6. /\ seeds' \in SeedStates /\ CountsStart(seeds')
        /\ \A q \in Questions : q \notin Accepted(some) => seeds'[q] = seeds[q]
    BY <1>1, <1>4, IngestCounts DEF Core, TypeOK, SeedsRight
  <1>7. /\ Alike(ctx, FALSE) /\ ledger'.obs \in Seq(Observations)
        /\ \A o \in ToSet(ledger'.obs) :
                \/ o \in ToSet(ledger.obs)
                \/ o.ctx = ctx /\ ~o.exposed
    BY <1>1, <1>2, <1>4, PlainRecords
  <1>8. ~pending'.open /\ Held' = troubled' /\ Now' = turn
    BY <1>1, <1>3 DEF Held, Now
  <1>9. \A q \in Questions \ troubled' :
           Refs(q)' = Refs(q) /\ \A x : Right(x, q) => RightAfter(x, q)
    BY <1>1, <1>2, <1>4, <1>7, RecordsKept
  <1>10. TypeOK'
    <2>1. detector' \in Traces
      BY <1>1, <1>4, TracedType DEF Core, TypeOK
    <2>2. troubled' \in SUBSET Questions
      BY <1>1, <1>2 DEF Core, TypeOK
    <2>3. UNCHANGED <<runtime, turn, credited, history, reports, pending>>
      BY <1>1
    <2>4. QED
      BY <1>3, <1>6, <1>7, <2>1, <2>2, <2>3 DEF Core, TypeOK
  <1>11. SeedsRight'
    <2>1. ASSUME NEW q \in Questions \ troubled' PROVE RightAfter(seeds'[q], q)
      <3>1. Right(seeds[q], q) /\ seeds'[q] = seeds[q]
        BY <1>1, <1>5, <1>6 DEF Core, SeedsRight
      <3>2. QED
        BY <1>9, <3>1
    <2>2. QED
      BY <1>6, <2>1 DEF SeedsRight, RightAfter, Right, CountsStart
  <1>12. PendingSound'
    BY <1>8 DEF PendingSound
  <1>13. RefsPast'
    <2>1. UNCHANGED credited /\ troubled \subseteq troubled'
      BY <1>1
    <2>2. QED
      BY <1>3, <1>8, <1>9, <2>1 DEF Core, RefsPast
  <1>14. ContextsKnown'
    <2>1. ASSUME NEW o \in ToSet(ledger'.obs)
          PROVE  /\ o.ctx.kind \in {"draft", "visible", "baseline", "chunk"}
                 /\ o.ctx.kind \in {"baseline", "chunk"} => ~o.exposed
                 /\ o.ctx.kind \in {"draft", "visible"} => o.ctx.n < turn
      BY <1>4, <1>7 DEF Core, ContextsKnown
    <2>2. QED
      BY <1>1, <1>8, <2>1 DEF ContextsKnown
  <1>15. QED
    BY <1>10, <1>11, <1>12, <1>13, <1>14 DEF Core

\* A chunk of a document: what is on record of the document is what was credited.
LEMMA ObserveSourceCore ==
    ASSUME Core, NEW chunk \in Chunks, NEW output \in Outputs, NEW up,
           ObserveSource(chunk, output, up)
    PROVE  Core'
  <1> DEFINE lines == Detected(FALSE, output)
             ctx == Ctx("chunk", chunk[1], chunk[2])
             ref == Ref(ctx)
             first == Ingest(seeds, lines, ctx)
             after == Scoped(first, ref)
  <1>1. /\ ~pending.open /\ detector' = Traced(FALSE, ref)
        /\ ledger' = RecordBatch(lines, ctx, FALSE)
        /\ up \subseteq Submitted(seeds, after)
        /\ seeds' = Promote(after, up)
        /\ credited' = [q \in Questions |-> IF q \in Accepted(lines)
                                            THEN credited[q] \cup {ref} ELSE credited[q]]
        /\ UNCHANGED <<runtime, turn, history, reports, pending, troubled>>
    BY DEF ObserveSource
  <1>2. lines \in Seq(Lines) /\ \A l \in ToSet(lines) : l.form # "stub"
    BY DetectedLines
  <1>3. /\ turn \in Nat /\ Held = troubled /\ Now = turn
        /\ seeds \in SeedStates /\ CountsStart(seeds) /\ credited \in [Questions -> SUBSET Ctxs]
    BY <1>1 DEF Core, TypeOK, Held, Now, SeedsRight
  <1>4. ctx \in Ctxs /\ ctx.kind = "chunk" /\ ref \in Ctxs /\ ref.kind = "source"
    <2>1. chunk[1] \in Nat /\ chunk[2] \in Nat
      BY IntakeAssumption
    <2>2. ctx \in Ctxs /\ ctx.kind = "chunk"
      BY <2>1, CtxType DEF Ctx
    <2>3. QED
      BY <2>2, RefType DEF Ref, Ctx
  <1> HIDE DEF lines, ctx, ref
  <1>5. /\ first \in SeedStates /\ CountsStart(first)
        /\ \A q \in Questions :
             IF q \in Accepted(lines)
               THEN /\ first[q].count = seeds[q].count + 1
                    /\ first[q].origin = IF seeds[q].count = 0 THEN ctx ELSE seeds[q].origin
               ELSE first[q] = seeds[q]
    BY <1>3, <1>4, IngestCounts
  <1> HIDE DEF first
  <1>6. /\ after \in SeedStates /\ CountsStart(after)
        /\ \A q \in Questions : after[q] = IF ref \in credited[q] THEN seeds[q] ELSE first[q]
    <2>1. \A q \in Questions : after[q] = IF ref \in credited[q] THEN seeds[q] ELSE first[q]
      BY DEF Scoped
    <2>2. after = [q \in Questions |-> after[q]]
      BY DEF Scoped
    <2> HIDE DEF after
    <2>3. \A q \in Questions : after[q] \in [count : Nat, origin : Ctxs, promoted : BOOLEAN]
      BY <1>3, <1>5, <2>1 DEF SeedStates
    <2>4. QED
      BY <1>3, <1>5, <2>1, <2>2, <2>3 DEF SeedStates, CountsStart
  <1> HIDE DEF after
  <1>7. /\ seeds' \in SeedStates /\ CountsStart(seeds')
        /\ \A q \in Questions : seeds'[q].count = after[q].count /\ seeds'[q].origin = after[q].origin
    <2>1. \A q \in up \cap Questions : after[q].count >= Threshold
      BY <1>1 DEF Submitted
    <2>2. QED
      BY <1>1, <1>6, <2>1, PromoteCounts
  <1>8. /\ Alike(ctx, FALSE) /\ ledger'.obs \in Seq(Observations)
        /\ \A o \in ToSet(ledger'.obs) :
                \/ o \in ToSet(ledger.obs)
                \/ o.ctx = ctx /\ ~o.exposed
        /\ \A q : Refs(q)' = IF q \in Accepted(lines) THEN Refs(q) \cup {ref} ELSE Refs(q)
    BY <1>1, <1>2, <1>4, PlainRecords DEF ref
  <1>9. ~pending'.open /\ Held' = troubled /\ Now' = turn
    BY <1>1, <1>3 DEF Held, Now
  <1>10. TypeOK'
    <2>1. detector' \in Traces
      BY <1>1, <1>4, TracedType DEF Core, TypeOK
    <2>2. credited' \in [Questions -> SUBSET Ctxs]
      BY <1>1, <1>3, <1>4
    <2>3. UNCHANGED <<runtime, turn, history, reports, pending, troubled>>
      BY <1>1
    <2>4. QED
      BY <1>7, <1>8, <2>1, <2>2, <2>3 DEF Core, TypeOK
  <1>11. SeedsRight'
    <2>1. ASSUME NEW q \in Questions \ troubled PROVE RightAfter(seeds'[q], q)
      <3>1. Right(seeds[q], q) /\ seeds[q].count \in Nat
        BY DEF Core, SeedsRight, TypeOK, SeedStates
      <3>2. ref \in credited[q] <=> ref \in Refs(q)
        BY <1>3, <1>4 DEF Core, RefsPast
      <3>3. IF ~FALSE /\ q \in Accepted(lines) /\ Ref(ctx) \notin Refs(q)
              THEN /\ seeds'[q].count = seeds[q].count + 1
                   /\ seeds'[q].origin = IF seeds[q].count = 0 THEN ctx ELSE seeds[q].origin
              ELSE seeds'[q].count = seeds[q].count /\ seeds'[q].origin = seeds[q].origin
        BY <1>5, <1>6, <1>7, <3>2 DEF ref
      <3>4. QED
        BY <1>1, <1>2, <1>4, <1>8, <3>1, <3>3, RightGrows DEF Core, TypeOK
    <2>2. troubled' = troubled
      BY <1>1
    <2>3. QED
      BY <1>7, <2>1, <2>2 DEF SeedsRight, RightAfter, Right, CountsStart
  <1>12. PendingSound'
    BY <1>9 DEF PendingSound
  <1>13. RefsPast'
    <2> SUFFICES ASSUME NEW q \in Questions \ troubled
                 PROVE  /\ \A r \in Refs(q)' : r.kind = "turn" => r.n < turn
                        /\ credited'[q] = {r \in Refs(q)' : r.kind = "source"}
      BY <1>1, <1>9 DEF RefsPast
    <2>1. /\ \A r \in Refs(q) : r.kind = "turn" => r.n < turn
          /\ credited[q] = {r \in Refs(q) : r.kind = "source"}
      BY <1>3 DEF Core, RefsPast
    <2>2. credited'[q] = IF q \in Accepted(lines) THEN credited[q] \cup {ref} ELSE credited[q]
      BY <1>1
    <2>3. Refs(q)' = IF q \in Accepted(lines) THEN Refs(q) \cup {ref} ELSE Refs(q)
      BY <1>8
    <2>4. QED
      BY <1>4, <2>1, <2>2, <2>3
  <1>14. ContextsKnown'
    <2>1. ASSUME NEW o \in ToSet(ledger'.obs)
          PROVE  /\ o.ctx.kind \in {"draft", "visible", "baseline", "chunk"}
                 /\ o.ctx.kind \in {"baseline", "chunk"} => ~o.exposed
                 /\ o.ctx.kind \in {"draft", "visible"} => o.ctx.n < turn
      BY <1>4, <1>8 DEF Core, ContextsKnown
    <2>2. QED
      BY <1>1, <1>9, <2>1 DEF ContextsKnown
  <1>15. QED
    BY <1>10, <1>11, <1>12, <1>13, <1>14 DEF Core

LEMMA CoreStep == Core /\ [Next]_vars => Core'
  <1> SUFFICES ASSUME Core, [Next]_vars PROVE Core'
    OBVIOUS
  <1>1. CASE UNCHANGED vars
    <2>1. Held' = Held /\ Now' = Now
      BY <1>1 DEF vars, Held, Now
    <2>2. /\ \A q : Clean(q)' = Clean(q) /\ Refs(q)' = Refs(q)
          /\ \A x, q : RightAfter(x, q) = Right(x, q)
      BY <1>1, SameRecords DEF vars
    <2>3. TypeOK' /\ ContextsKnown'
      BY <1>1 DEF Core, TypeOK, ContextsKnown, vars
    <2>4. SeedsRight' /\ PendingSound'
      BY <1>1, <2>1, <2>2
         DEF Core, SeedsRight, PendingSound, CountsStart, Right, RightAfter, Live, vars
    <2>5. RefsPast'
      BY <1>1, <2>1, <2>2 DEF Core, RefsPast, vars
    <2>6. QED
      BY <2>3, <2>4, <2>5 DEF Core
  <1>2. CASE \E surfaced \in SUBSET Questions : PrepareTurn(surfaced)
    BY <1>2, PrepareCore
  <1>3. CASE AbortTurn
    BY <1>3, AbortCore
  <1>4. CASE DetectFails
    BY <1>4, DetectFailsCore
  <1>5. CASE Reload
    BY <1>5, ReloadCore
  <1>6. CASE \E output \in Outputs, n \in 0..MaxPerTurn : EvaluationIntakeFails(output, n)
    BY <1>6, EvaluationIntakeFailsCore
  <1>7. CASE AnObservation
    <2>1. PICK output \in Outputs, up \in SUBSET Questions :
            \/ \E blank, revised \in BOOLEAN : ObserveTurn(blank, output, up, revised)
            \/ \E revised \in BOOLEAN : ReportFails(output, up, revised)
            \/ \E n \in 0..MaxPerTurn : IntakeFails(output, n, up)
            \/ \E blank \in BOOLEAN : EvaluationTurn(blank, output, up)
            \/ EvaluationReportFails(output, up)
            \/ \E chunk \in Chunks : ObserveSource(chunk, output, up)
      BY <1>7 DEF AnObservation
    <2>2. CASE \E blank, revised \in BOOLEAN : ObserveTurn(blank, output, up, revised)
      BY <2>2, ObserveTurnCore
    <2>3. CASE \E revised \in BOOLEAN : ReportFails(output, up, revised)
      BY <2>3, ReportFailsCore
    <2>4. CASE \E n \in 0..MaxPerTurn : IntakeFails(output, n, up)
      BY <2>4, IntakeFailsCore
    <2>5. CASE \E blank \in BOOLEAN : EvaluationTurn(blank, output, up)
      BY <2>5, EvaluationTurnCore
    <2>6. CASE EvaluationReportFails(output, up)
      BY <2>6, EvaluationReportFailsCore
    <2>7. CASE \E chunk \in Chunks : ObserveSource(chunk, output, up)
      BY <2>7, ObserveSourceCore
    <2>8. QED
      BY <2>1, <2>2, <2>3, <2>4, <2>5, <2>6, <2>7
  <1>8. QED
    BY <1>1, <1>2, <1>3, <1>4, <1>5, <1>6, <1>7 DEF Next

-----------------------------------------------------------------------------
(* The links of the ledger.                                                *)

\* What a step does to the ledger: nothing, or one batch.
LEMMA LedgerStep ==
    ASSUME Core, Next
    PROVE  \/ ledger' = ledger
           \/ \E blank \in BOOLEAN, output \in Outputs, exposed \in BOOLEAN :
                 \E ctx \in Ctxs : ledger' = RecordBatch(Detected(blank, output), ctx, exposed)
  <1>0. /\ \A revised \in BOOLEAN : AnswerCtx(revised) \in Ctxs
        /\ Ctx("baseline", turn, 0) \in Ctxs
        /\ \A chunk \in Chunks : Ctx("chunk", chunk[1], chunk[2]) \in Ctxs
    <2>1. pending.turn \in Nat /\ turn \in Nat
      BY DEF Core, TypeOK, Pendings
    <2>2. \A chunk \in Chunks : chunk[1] \in Nat /\ chunk[2] \in Nat
      BY IntakeAssumption
    <2>3. \A revised \in BOOLEAN : AnswerCtx(revised) \in Ctxs
      BY <2>1, CtxType DEF AnswerCtx
    <2>4. QED
      BY <2>1, <2>2, <2>3, CtxType
  <1>1. ASSUME NEW output \in Outputs, NEW n, EvaluationIntakeFails(output, n)
        PROVE  \E ctx \in Ctxs : ledger' = RecordBatch(Detected(FALSE, output), ctx, FALSE)
    BY <1>0, <1>1 DEF EvaluationIntakeFails
  <1>2. ASSUME NEW output \in Outputs, NEW up, NEW blank \in BOOLEAN, NEW revised \in BOOLEAN,
               ObserveTurn(blank, output, up, revised)
        PROVE  \E ctx \in Ctxs : ledger' = RecordBatch(Detected(blank, output), ctx, pending.surfaced # {})
    BY <1>0, <1>2 DEF ObserveTurn, Settle
  <1>3. ASSUME NEW output \in Outputs, NEW up, NEW revised \in BOOLEAN,
               ReportFails(output, up, revised)
        PROVE  \E ctx \in Ctxs : ledger' = RecordBatch(Detected(FALSE, output), ctx, pending.surfaced # {})
    BY <1>0, <1>3 DEF ReportFails, Settle
  <1>4. ASSUME NEW output \in Outputs, NEW up, NEW blank \in BOOLEAN, Baseline(blank, output, up)
        PROVE  \E ctx \in Ctxs : ledger' = RecordBatch(Detected(blank, output), ctx, FALSE)
    BY <1>0, <1>4 DEF Baseline
  <1>5. ASSUME NEW output \in Outputs, NEW up, NEW chunk \in Chunks, ObserveSource(chunk, output, up)
        PROVE  \E ctx \in Ctxs : ledger' = RecordBatch(Detected(FALSE, output), ctx, FALSE)
    BY <1>0, <1>5 DEF ObserveSource
  <1>6. CASE \E output \in Outputs, n \in 0..MaxPerTurn : EvaluationIntakeFails(output, n)
    BY <1>1, <1>6
  <1>7. CASE AnObservation
    <2>1. PICK output \in Outputs, up \in SUBSET Questions :
            \/ \E blank, revised \in BOOLEAN : ObserveTurn(blank, output, up, revised)
            \/ \E revised \in BOOLEAN : ReportFails(output, up, revised)
            \/ \E n \in 0..MaxPerTurn : IntakeFails(output, n, up)
            \/ \E blank \in BOOLEAN : EvaluationTurn(blank, output, up)
            \/ EvaluationReportFails(output, up)
            \/ \E chunk \in Chunks : ObserveSource(chunk, output, up)
      BY <1>7 DEF AnObservation
    <2>2. CASE \E n \in 0..MaxPerTurn : IntakeFails(output, n, up)
      BY <2>2 DEF IntakeFails
    <2>3. (pending.surfaced # {}) \in BOOLEAN
      OBVIOUS
    <2>4. CASE \E blank, revised \in BOOLEAN : ObserveTurn(blank, output, up, revised)
      <3>1. PICK blank \in BOOLEAN, revised \in BOOLEAN :
              ObserveTurn(blank, output, up, revised)
        BY <2>4
      <3>2. \E ctx \in Ctxs :
              ledger' = RecordBatch(Detected(blank, output), ctx, pending.surfaced # {})
        BY <1>2, <3>1
      <3>3. QED
        BY <2>3, <3>2
    <2>5. CASE \E revised \in BOOLEAN : ReportFails(output, up, revised)
      <3>1. PICK revised \in BOOLEAN : ReportFails(output, up, revised)
        BY <2>5
      <3>2. \E ctx \in Ctxs :
              ledger' = RecordBatch(Detected(FALSE, output), ctx, pending.surfaced # {})
        BY <1>3, <3>1
      <3>3. QED
        BY <2>3, <3>2
    <2>6. CASE (\E blank \in BOOLEAN : EvaluationTurn(blank, output, up))
               \/ EvaluationReportFails(output, up)
      <3>1. \E blank \in BOOLEAN : Baseline(blank, output, up)
        BY <2>6 DEF EvaluationTurn, EvaluationReportFails
      <3>2. QED
        BY <1>4, <3>1
    <2>7. CASE \E chunk \in Chunks : ObserveSource(chunk, output, up)
      BY <1>5, <2>7
    <2>8. QED
      BY <2>1, <2>2, <2>4, <2>5, <2>6, <2>7
  <1>8. CASE (\E surfaced \in SUBSET Questions : PrepareTurn(surfaced))
             \/ AbortTurn \/ DetectFails \/ Reload
    BY <1>8 DEF PrepareTurn, AbortTurn, DetectFails, Reload
  <1>9. QED
    BY <1>6, <1>7, <1>8 DEF Next

\* The links between earlier exposed and later clean records of the same words.
Linked(obs, i, j) ==
    i < j /\ obs[i].exposed /\ ~obs[j].exposed /\ Normalized(obs[i].line) = Normalized(obs[j].line)

LinksAre ==
    \A e : e \in ledger.links <=>
      \E i, j \in DOMAIN ledger.obs :
          Linked(ledger.obs, i, j) /\ e = <<Id(ledger.obs[i]), Id(ledger.obs[j])>>

LEMMA LinksMeaning == LinksOnRecord <=> LinksAre
  <1> DEFINE obs == ledger.obs
             pairs == {r \in (DOMAIN obs) \X (DOMAIN obs) :
                         /\ r[1] < r[2] /\ obs[r[1]].exposed /\ ~obs[r[2]].exposed
                         /\ Normalized(obs[r[1]].line) = Normalized(obs[r[2]].line)}
  <1>1. \A r \in pairs : \E i, j \in DOMAIN obs : r = <<i, j>> /\ Linked(obs, i, j)
    BY DEF Linked
  <1>5. \A i, j \in DOMAIN obs : Linked(obs, i, j) => <<i, j>> \in pairs
    BY DEF Linked
  <1>2. LinksOnRecord <=> ledger.links = {<<Id(obs[p[1]]), Id(obs[p[2]])>> : p \in pairs}
    BY DEF LinksOnRecord
  <1> HIDE DEF pairs
  <1>3. \A e : e \in {<<Id(obs[p[1]]), Id(obs[p[2]])>> : p \in pairs} <=>
               \E i, j \in DOMAIN obs : Linked(obs, i, j) /\ e = <<Id(obs[i]), Id(obs[j])>>
    <2> TAKE e
    <2>1. ASSUME NEW p \in pairs, e = <<Id(obs[p[1]]), Id(obs[p[2]])>>
          PROVE  \E i, j \in DOMAIN obs : Linked(obs, i, j) /\ e = <<Id(obs[i]), Id(obs[j])>>
      <3>1. PICK i \in DOMAIN obs, j \in DOMAIN obs : p = <<i, j>> /\ Linked(obs, i, j)
        BY <1>1
      <3>2. p[1] = i /\ p[2] = j
        BY <3>1
      <3>3. QED
        BY <2>1, <3>1, <3>2
    <2>2. ASSUME NEW i \in DOMAIN obs, NEW j \in DOMAIN obs, Linked(obs, i, j),
                 e = <<Id(obs[i]), Id(obs[j])>>
          PROVE  \E p \in pairs : e = <<Id(obs[p[1]]), Id(obs[p[2]])>>
      <3>1. <<i, j>> \in pairs /\ <<i, j>>[1] = i /\ <<i, j>>[2] = j
        BY <1>5, <2>2
      <3>2. QED
        BY <2>2, <3>1
    <2>3. QED
      BY <2>1, <2>2
  <1>4. QED
    BY <1>2, <1>3 DEF LinksAre

\* The same of the records after a step.
LEMMA LinksMeaningThen == LinksOnRecord' <=> LinksAre'
  BY LinksMeaning, PTL

LEMMA LinksStep ==
    ASSUME Core, LinksOnRecord, [Next]_vars
    PROVE  LinksOnRecord'
  <1>1. CASE ledger' = ledger
    BY <1>1 DEF LinksOnRecord
  <1>2. ASSUME NEW blank \in BOOLEAN, NEW output \in Outputs, NEW exposed \in BOOLEAN,
               NEW ctx \in Ctxs, ledger' = RecordBatch(Detected(blank, output), ctx, exposed)
        PROVE  LinksOnRecord'
    <2> DEFINE obs == ledger.obs
               batch == NewRecords(Detected(blank, output), ctx, exposed)
               new == obs \o batch
               n == Len(obs)
               m == Len(batch)
               crossed == {r \in ToSet(obs) \X ToSet(batch) :
                             r[1].exposed /\ ~r[2].exposed /\ SameWords(r[1].line, r[2].line)}
    <2>1. Detected(blank, output) \in Seq(Lines)
      BY DetectedLines
    <2>2. obs \in Seq(Observations)
      BY DEF Core, TypeOK
    <2>3. /\ batch \in Seq(Observations)
          /\ ToSet(batch) \subseteq Made(Detected(blank, output), ctx, exposed)
      BY <2>1, <2>2, NewRecordsHas
    <2>4. \A o \in ToSet(batch) : o.exposed = exposed
      BY <2>3 DEF Made, Observation
    <2>5. /\ ledger'.obs = new
          /\ ledger'.links = ledger.links \cup {<<Id(pc[1]), Id(pc[2])>> : pc \in crossed}
      BY <1>2 DEF RecordBatch
    <2> HIDE DEF batch
    <2>6. /\ n \in Nat /\ m \in Nat /\ Len(new) = n + m /\ new \in Seq(Observations)
          /\ DOMAIN obs = 1..n /\ DOMAIN batch = 1..m /\ DOMAIN new = 1..n + m
          /\ \A i \in 1..n + m : new[i] = IF i <= n THEN obs[i] ELSE batch[i - n]
      BY <2>2, <2>3, ConcatProperties
    <2> HIDE DEF n, m, new, obs
    <2>7. \A k \in 1..m : batch[k].exposed = exposed
      BY <2>4, <2>6 DEF ToSet
    <2>8. \A e : e \in ledger.links <=>
            \E i, j \in 1..n : Linked(obs, i, j) /\ e = <<Id(obs[i]), Id(obs[j])>>
      <3>1. LinksAre
        BY LinksMeaning
      <3>2. DOMAIN ledger.obs = 1..n
        BY <2>6 DEF obs
      <3>3. \A e : e \in ledger.links <=>
              \E i, j \in 1..n :
                 Linked(ledger.obs, i, j) /\ e = <<Id(ledger.obs[i]), Id(ledger.obs[j])>>
        BY <3>1, <3>2 DEF LinksAre
      <3>4. QED
        BY <3>3 DEF obs
    <2>9. \A e : e \in {<<Id(pc[1]), Id(pc[2])>> : pc \in crossed} <=>
            \E i \in 1..n, k \in 1..m :
               /\ obs[i].exposed /\ ~batch[k].exposed /\ SameWords(obs[i].line, batch[k].line)
               /\ e = <<Id(obs[i]), Id(batch[k])>>
      <3> TAKE e
      <3>1. ASSUME NEW pc \in crossed, e = <<Id(pc[1]), Id(pc[2])>>
            PROVE  \E i \in 1..n, k \in 1..m :
                      /\ obs[i].exposed /\ ~batch[k].exposed /\ SameWords(obs[i].line, batch[k].line)
                      /\ e = <<Id(obs[i]), Id(batch[k])>>
        <4>1. PICK i \in 1..n : pc[1] = obs[i]
          BY <2>6 DEF ToSet
        <4>2. PICK k \in 1..m : pc[2] = batch[k]
          BY <2>6 DEF ToSet
        <4>3. QED
          BY <3>1, <4>1, <4>2
      <3>2. ASSUME NEW i \in 1..n, NEW k \in 1..m, e = <<Id(obs[i]), Id(batch[k])>>,
                   obs[i].exposed, ~batch[k].exposed, SameWords(obs[i].line, batch[k].line)
            PROVE  \E pc \in crossed : e = <<Id(pc[1]), Id(pc[2])>>
        <4> DEFINE pc == <<obs[i], batch[k]>>
        <4>1. obs[i] \in ToSet(obs) /\ batch[k] \in ToSet(batch)
          BY <2>6 DEF ToSet
        <4>2. pc \in crossed /\ pc[1] = obs[i] /\ pc[2] = batch[k]
          BY <3>2, <4>1
        <4>3. QED
          BY <3>2, <4>2
      <3>3. QED
        BY <3>1, <3>2
    <2> HIDE DEF crossed
    <2>10. ASSUME NEW e, e \in ledger'.links
           PROVE  \E i, j \in 1..n + m : Linked(new, i, j) /\ e = <<Id(new[i]), Id(new[j])>>
      <3>1. CASE e \in ledger.links
        <4>1. PICK i \in 1..n, j \in 1..n : Linked(obs, i, j) /\ e = <<Id(obs[i]), Id(obs[j])>>
          BY <2>8, <3>1
        <4>2. i \in 1..n + m /\ j \in 1..n + m /\ new[i] = obs[i] /\ new[j] = obs[j]
          BY <2>6
        <4>3. QED
          BY <4>1, <4>2 DEF Linked
      <3>2. CASE e \in {<<Id(pc[1]), Id(pc[2])>> : pc \in crossed}
        <4>1. PICK i \in 1..n, k \in 1..m :
                 /\ obs[i].exposed /\ ~batch[k].exposed /\ SameWords(obs[i].line, batch[k].line)
                 /\ e = <<Id(obs[i]), Id(batch[k])>>
          BY <2>9, <3>2
        <4>2. /\ i \in 1..n + m /\ n + k \in 1..n + m /\ i < n + k
              /\ new[i] = obs[i] /\ new[n + k] = batch[k]
          BY <2>6
        <4>3. QED
          BY <4>1, <4>2 DEF Linked, SameWords
      <3>3. QED
        BY <2>5, <2>10, <3>1, <3>2
    <2>11. ASSUME NEW i \in 1..n + m, NEW j \in 1..n + m, Linked(new, i, j)
           PROVE  <<Id(new[i]), Id(new[j])>> \in ledger'.links
      <3>1. CASE j <= n
        <4>1. i \in 1..n /\ j \in 1..n /\ new[i] = obs[i] /\ new[j] = obs[j]
          BY <2>6, <2>11, <3>1 DEF Linked
        <4>2. <<Id(obs[i]), Id(obs[j])>> \in ledger.links
          BY <2>8, <2>11, <4>1 DEF Linked
        <4>3. QED
          BY <2>5, <4>1, <4>2
      <3>2. CASE i <= n /\ ~(j <= n)
        <4>1. i \in 1..n /\ j - n \in 1..m /\ new[i] = obs[i] /\ new[j] = batch[j - n]
          BY <2>6, <3>2
        <4>2. <<Id(obs[i]), Id(batch[j - n])>> \in {<<Id(pc[1]), Id(pc[2])>> : pc \in crossed}
          BY <2>9, <2>11, <4>1 DEF Linked, SameWords
        <4>3. QED
          BY <2>5, <4>1, <4>2
      <3>3. CASE ~(i <= n)
        <4>1. /\ i - n \in 1..m /\ j - n \in 1..m
              /\ new[i] = batch[i - n] /\ new[j] = batch[j - n]
          BY <2>6, <2>11, <3>3 DEF Linked
        <4>2. QED
          BY <2>7, <2>11, <4>1 DEF Linked
      <3>4. QED
        BY <2>6, <3>1, <3>2, <3>3
    <2>12. LinksAre'
      <3>1. \A e : e \in ledger'.links <=>
              \E i, j \in 1..n + m : Linked(new, i, j) /\ e = <<Id(new[i]), Id(new[j])>>
        BY <2>10, <2>11
      <3>2. DOMAIN ledger'.obs = 1..n + m
        BY <2>5, <2>6
      <3>3. \A e : e \in ledger'.links <=>
              \E i, j \in DOMAIN ledger'.obs :
                 Linked(ledger'.obs, i, j) /\ e = <<Id(ledger'.obs[i]), Id(ledger'.obs[j])>>
        BY <2>5, <3>1, <3>2
      <3>4. QED
        BY <3>3 DEF LinksAre
    <2>13. LinksOnRecord' <=> LinksAre'
      BY LinksMeaningThen
    <2>14. QED
      BY <2>12, <2>13
  <1>3. QED
    BY <1>1, <1>2, LedgerStep DEF vars

-----------------------------------------------------------------------------
(* The history and the reports.                                            *)

\* What a step does to the history and the reports.
LEMMA HistoryStep ==
    ASSUME Core, Next
    PROVE  /\ runtime' = runtime
           /\ \/ UNCHANGED <<history, reports>>
              \/ \E h \in [tainted : BOOLEAN] :
                    /\ history' = Append(history, h) /\ (~Live => ~h.tainted)
                    /\ \/ reports' = reports
                       \/ \E r \in Reports :
                             /\ reports' = Append(reports, r) /\ r.tainted = h.tainted
                             /\ ~(r.blank /\ runtime.backend = "model") =>
                                   r.audit = [prompt |-> r.ref, raw |-> r.ref]
                             /\ r.loose => r.tried
  <1> DEFINE Told(h) ==
               \/ reports' = reports
               \/ \E r \in Reports :
                     /\ reports' = Append(reports, r) /\ r.tainted = h.tainted
                     /\ ~(r.blank /\ runtime.backend = "model") =>
                           r.audit = [prompt |-> r.ref, raw |-> r.ref]
                     /\ r.loose => r.tried
             Entered == \E h \in [tainted : BOOLEAN] :
                           history' = Append(history, h) /\ (~Live => ~h.tainted) /\ Told(h)
  <1>1. ASSUME NEW blank \in BOOLEAN, NEW output \in Outputs, NEW up, NEW revised \in BOOLEAN,
               ObserveTurn(blank, output, up, revised)
        PROVE  runtime' = runtime /\ Entered
    <2> DEFINE lines == Detected(blank, output)
               ref == Ctx("turn", pending.turn, 0)
               exposed == pending.surfaced # {}
               h == [tainted |-> Influenced(revised)]
               r == Report(ref, lines, Admitted(lines), AnswerCtx(revised), exposed,
                           SurfacedInReport(revised), blank, pending.tried)
    <2>1. /\ pending.open /\ detector' = Traced(blank, ref) /\ Settle(lines, up, revised)
          /\ reports' = Append(reports, r) /\ runtime' = runtime
      BY <1>1 DEF ObserveTurn
    <2>2. history' = Append(history, h) /\ Live
      BY <2>1 DEF Settle, Core, PendingSound
    <2>3. h \in [tainted : BOOLEAN] /\ h.tainted = Influenced(revised)
      BY DEF Influenced
    <2>4. ref \in Ctxs /\ pending.tried \in BOOLEAN /\ detector' \in Traces
      BY <2>1, CtxType, TracedType DEF Core, TypeOK, Pendings
    <2>5. SurfacedInReport(revised) \in BOOLEAN /\ SurfacedInReport(revised) = Influenced(revised)
      BY DEF Influenced, SurfacedInReport
    <2>6. r \in Reports
      BY <2>4, <2>5, ReportType
    <2>7. /\ r.ref = ref /\ r.tainted = Influenced(revised) /\ r.blank = blank
          /\ r.tried = pending.tried /\ r.audit = detector'
          /\ r.loose => Loose(lines, AnswerCtx(revised), exposed)
      BY <2>5 DEF Report
    <2>8. ~(blank /\ runtime.backend = "model") => detector' = [prompt |-> ref, raw |-> ref]
      BY <2>1 DEF Traced
    <2>9. Loose(lines, AnswerCtx(revised), exposed) => pending.tried
      <3>1. lines \in Seq(Lines) /\ \A l \in ToSet(lines) : l.form # "stub"
        BY DetectedLines
      <3>2. /\ AnswerCtx(revised) \in Ctxs /\ AnswerCtx(revised).n = pending.turn
            /\ AnswerCtx(revised).kind \in {"draft", "visible"}
        BY <2>1, <3>1, SettleSeeds
      <3>3. Loose(lines, AnswerCtx(revised), exposed) =>
              \E o \in ToSet(ledger.obs) : o.ctx = AnswerCtx(revised)
        BY <3>1, <3>2, NewRecordsHas DEF Core, TypeOK
      <3>4. QED
        BY <2>1, <3>2, <3>3 DEF Core, ContextsKnown
    <2> HIDE DEF r, h, lines, ref, exposed
    <2>10. QED
      BY <2>1, <2>2, <2>3, <2>6, <2>7, <2>8, <2>9
  <1>2. ASSUME NEW output \in Outputs, NEW up, NEW revised \in BOOLEAN,
               ReportFails(output, up, revised)
        PROVE  runtime' = runtime /\ Entered
    <2> DEFINE h == [tainted |-> Influenced(revised)]
    <2>1. /\ pending.open /\ reports' = reports /\ runtime' = runtime
          /\ history' = Append(history, h)
      BY <1>2 DEF ReportFails, Settle
    <2>2. Live /\ h \in [tainted : BOOLEAN]
      BY <2>1 DEF Core, PendingSound, Influenced
    <2> HIDE DEF h
    <2>3. QED
      BY <2>1, <2>2
  <1>3. ASSUME NEW blank \in BOOLEAN, NEW output \in Outputs, NEW up,
               EvaluationTurn(blank, output, up)
        PROVE  runtime' = runtime /\ Entered
    <2> DEFINE lines == Detected(blank, output)
               ctx == Ctx("baseline", turn, 0)
               tried == \E o \in ToSet(ledger.obs) : o.ctx = ctx
               h == [tainted |-> FALSE]
               r == Report(Ref(ctx), lines, lines, ctx, FALSE, FALSE, blank, tried)
    <2>1. /\ detector' = Traced(blank, Ref(ctx)) /\ history' = Append(history, h)
          /\ reports' = Append(reports, r) /\ runtime' = runtime
      BY <1>3 DEF EvaluationTurn, Baseline
    <2>2. h \in [tainted : BOOLEAN] /\ h.tainted = FALSE
      OBVIOUS
    <2>3. ctx \in Ctxs /\ Ref(ctx) \in Ctxs /\ tried \in BOOLEAN
      BY BaselineCtx, RefType DEF Core, TypeOK
    <2>4. lines \in Seq(Lines)
      BY DetectedLines
    <2> HIDE DEF lines, ctx
    <2>5. detector' \in Traces
      BY <2>1, <2>3, TracedType DEF Core, TypeOK
    <2>6. Loose(lines, ctx, FALSE) => tried
      BY <2>3, <2>4, NewRecordsHas DEF Core, TypeOK
    <2> HIDE DEF tried
    <2>7. r \in Reports
      BY <2>3, <2>5, ReportType
    <2>8. /\ r.ref = Ref(ctx) /\ r.tainted = FALSE /\ r.blank = blank
          /\ r.tried = tried /\ r.audit = detector' /\ (r.loose => Loose(lines, ctx, FALSE))
      BY DEF Report
    <2>9. ~(blank /\ runtime.backend = "model") =>
            detector' = [prompt |-> Ref(ctx), raw |-> Ref(ctx)]
      BY <2>1 DEF Traced
    <2> HIDE DEF r, h
    <2>10. QED
      BY <2>1, <2>2, <2>6, <2>7, <2>8, <2>9
  <1>4. ASSUME NEW output \in Outputs, NEW up, EvaluationReportFails(output, up)
        PROVE  runtime' = runtime /\ Entered
    <2> DEFINE h == [tainted |-> FALSE]
    <2>1. runtime' = runtime /\ reports' = reports /\ history' = Append(history, h)
      BY <1>4 DEF EvaluationReportFails, Baseline
    <2>2. h \in [tainted : BOOLEAN] /\ ~h.tainted
      OBVIOUS
    <2> HIDE DEF h
    <2>3. QED
      BY <2>1, <2>2
  <1> HIDE DEF Entered
  <1>5. CASE AnObservation
    <2>1. PICK output \in Outputs, up \in SUBSET Questions :
            \/ \E blank, revised \in BOOLEAN : ObserveTurn(blank, output, up, revised)
            \/ \E revised \in BOOLEAN : ReportFails(output, up, revised)
            \/ \E n \in 0..MaxPerTurn : IntakeFails(output, n, up)
            \/ \E blank \in BOOLEAN : EvaluationTurn(blank, output, up)
            \/ EvaluationReportFails(output, up)
            \/ \E chunk \in Chunks : ObserveSource(chunk, output, up)
      BY <1>5 DEF AnObservation
    <2>2. CASE \E n \in 0..MaxPerTurn : IntakeFails(output, n, up)
      BY <2>2 DEF IntakeFails
    <2>3. CASE \E chunk \in Chunks : ObserveSource(chunk, output, up)
      BY <2>3 DEF ObserveSource
    <2>4. CASE \E blank, revised \in BOOLEAN : ObserveTurn(blank, output, up, revised)
      BY <1>1, <2>4 DEF Entered
    <2>5. CASE \E revised \in BOOLEAN : ReportFails(output, up, revised)
      BY <1>2, <2>5 DEF Entered
    <2>6. CASE \E blank \in BOOLEAN : EvaluationTurn(blank, output, up)
      BY <1>3, <2>6 DEF Entered
    <2>7. CASE EvaluationReportFails(output, up)
      BY <1>4, <2>7 DEF Entered
    <2>8. QED
      BY <2>1, <2>2, <2>3, <2>4, <2>5, <2>6, <2>7
  <1>6. CASE \/ \E surfaced \in SUBSET Questions : PrepareTurn(surfaced)
             \/ AbortTurn \/ DetectFails \/ Reload
             \/ \E output \in Outputs, n \in 0..MaxPerTurn : EvaluationIntakeFails(output, n)
    BY <1>6 DEF PrepareTurn, AbortTurn, DetectFails, Reload, EvaluationIntakeFails
  <1>7. QED
    BY <1>5, <1>6 DEF Next

\* Every answer enters the history with its report, or alone when its report fails.
LEMMA HistoryPairedStep ==
    ASSUME Core, HistoryPaired, [Next]_vars
    PROVE  HistoryPaired'
  <1> USE DEF Core, TypeOK
  <1>1. CASE UNCHANGED <<runtime, history, reports>>
    BY <1>1 DEF HistoryPaired, Live
  <1>2. ASSUME runtime' = runtime,
               NEW h \in [tainted : BOOLEAN], history' = Append(history, h), ~Live => ~h.tainted,
               \/ reports' = reports
               \/ \E r \in Reports : reports' = Append(reports, r) /\ r.tainted = h.tainted
        PROVE  HistoryPaired'
    <2> DEFINE n == Len(history)
               m == Len(reports)
    <2>1. n \in Nat /\ m \in Nat /\ m <= n
      BY DEF HistoryPaired
    <2>2. /\ Len(history') = n + 1 /\ history'[n + 1] = h
          /\ \A i \in 1..n : history'[i] = history[i]
      BY <1>2
    <2>3. CASE reports' = reports
      <3>1. Len(reports') = m /\ m # n + 1
        BY <2>1, <2>3
      <3>2. ~Live => \A i \in 1..n + 1 : ~history'[i].tainted
        BY <1>2, <2>1, <2>2 DEF HistoryPaired
      <3> HIDE DEF n, m
      <3>3. QED
        BY <1>2, <2>1, <2>2, <3>1, <3>2 DEF HistoryPaired, Live
    <2>4. ASSUME NEW r \in Reports, reports' = Append(reports, r), r.tainted = h.tainted
          PROVE  HistoryPaired'
      <3>1. /\ Len(reports') = m + 1 /\ reports'[m + 1] = r
            /\ \A i \in 1..m : reports'[i] = reports[i]
        BY <2>4
      <3>2. ~Live => \A i \in 1..n + 1 : ~history'[i].tainted
        BY <1>2, <2>1, <2>2 DEF HistoryPaired
      <3>3. m = n => \A i \in 1..n : history[i].tainted = reports[i].tainted
        BY DEF HistoryPaired
      <3> HIDE DEF n, m
      <3>4. m + 1 = n + 1 => \A i \in 1..n + 1 : history'[i].tainted = reports'[i].tainted
        BY <2>1, <2>2, <2>4, <3>1, <3>3
      <3>5. QED
        BY <1>2, <2>1, <2>2, <3>1, <3>2, <3>4 DEF HistoryPaired, Live
    <2>5. QED
      BY <1>2, <2>3, <2>4
  <1>3. CASE Next
    BY <1>1, <1>2, <1>3, HistoryStep
  <1>4. QED
    BY <1>1, <1>3 DEF vars

\* A report never changes, and a new one speaks of the turn it is of.
LEMMA ReportsStep ==
    ASSUME Core, ReportSpeaksOfItsTurn, [Next]_vars
    PROVE  ReportSpeaksOfItsTurn'
  <1> DEFINE Speaks(r, backend) ==
               /\ ~(r.blank /\ backend = "model") => r.audit = [prompt |-> r.ref, raw |-> r.ref]
               /\ r.loose => r.tried
  <1>1. /\ ReportSpeaksOfItsTurn <=> \A i \in DOMAIN reports : Speaks(reports[i], runtime.backend)
        /\ ReportSpeaksOfItsTurn' <=>
             \A i \in DOMAIN reports' : Speaks(reports'[i], runtime'.backend)
    BY DEF ReportSpeaksOfItsTurn
  <1>2. CASE UNCHANGED <<runtime, reports>>
    BY <1>1, <1>2
  <1>3. ASSUME runtime' = runtime, NEW r \in Reports, reports' = Append(reports, r),
               Speaks(r, runtime.backend)
        PROVE  ReportSpeaksOfItsTurn'
    <2> HIDE DEF Speaks
    <2>1. reports \in Seq(Reports) /\ DOMAIN reports = 1..Len(reports) /\ Len(reports) \in Nat
      BY DEF Core, TypeOK
    <2>2. /\ DOMAIN reports' = 1..Len(reports) + 1 /\ reports'[Len(reports) + 1] = r
          /\ \A i \in 1..Len(reports) : reports'[i] = reports[i]
      BY <1>3, <2>1
    <2>3. QED
      BY <1>1, <1>3, <2>1, <2>2
  <1>4. CASE Next
    BY <1>2, <1>3, <1>4, HistoryStep
  <1>5. QED
    BY <1>2, <1>4 DEF vars

-----------------------------------------------------------------------------
(* The theorems.                                                           *)

\* IInv is inductive: it holds initially and every step keeps it.
LEMMA Initially == Init => IInv
  <1> SUFFICES ASSUME Init PROVE IInv
    OBVIOUS
  <1>1. Core
    BY InitCore
  <1>2. ledger.obs = <<>> /\ ledger.links = {} /\ history = <<>> /\ reports = <<>>
    BY DEF Init
  <1>3. LinksAre
    BY <1>2 DEF LinksAre
  <1>4. LinksOnRecord
    BY <1>3, LinksMeaning
  <1>5. HistoryPaired /\ ReportSpeaksOfItsTurn
    BY <1>2 DEF HistoryPaired, ReportSpeaksOfItsTurn
  <1>6. QED
    BY <1>1, <1>4, <1>5 DEF IInv, Core

LEMMA Step == IInv /\ [Next]_vars => IInv'
  <1> SUFFICES ASSUME IInv, [Next]_vars PROVE IInv'
    OBVIOUS
  <1>1. Core /\ LinksOnRecord /\ HistoryPaired /\ ReportSpeaksOfItsTurn
    BY DEF IInv, Core
  <1>2. Core' /\ LinksOnRecord' /\ HistoryPaired' /\ ReportSpeaksOfItsTurn'
    BY <1>1, CoreStep, LinksStep, HistoryPairedStep, ReportsStep
  <1>3. QED
    BY <1>2 DEF IInv, Core

LEMMA IInvAlways == Spec => []IInv
  BY Initially, Step, PTL DEF Spec

\* The values every variable takes: what a conversation keeps of its candidates is well
\* formed after any sequence of turns, documents, failures, aborts and reloads.
THEOREM TypesAlwaysHold == Spec => []TypeOK
  <1>1. IInv => TypeOK
    BY DEF IInv
  <1>2. QED
    BY <1>1, IInvAlways, PTL

\* A seed has recurred exactly as often as there are turns and documents on record in which
\* its question was detected free of seeds, for every question no failed call left counted
\* or recorded only: intake's counter (activate_existing_seed) and the ledger (record_batch)
\* are written apart, restored apart by an abort, and still agree.
THEOREM RecurrenceIsAlwaysOnRecord == Spec => []RecurrenceIsOnRecord
  <1>1. IInv => RecurrenceIsOnRecord
    BY DEF IInv, SeedsRight, Right, Refs, RecurrenceIsOnRecord
  <1>2. QED
    BY <1>1, IInvAlways, PTL

\* Every created event names the context of an observation on record, so that no provisional
\* first pass survives observe_turn's repair, and the links are those of every earlier
\* exposed record to every later clean one of the same words.
THEOREM RecordsAlwaysAgree == Spec => []RecordsAgree
  <1>1. IInv => OriginsOnRecord
    BY DEF IInv, SeedsRight, Right, OriginsOnRecord
  <1>2. IInv => RecordsAgree
    BY <1>1 DEF IInv, RecordsAgree
  <1>3. QED
    BY <1>2, IInvAlways, PTL

\* No answer a seed had a part in is shown to the detector of a later turn, as long as every
\* answer has its report (_detector_conversation_context pairs them by position).
THEOREM ContextIsAlwaysClean == Spec => []ContextIsClean
  <1>1. ASSUME IInv PROVE ContextIsClean
    <2> SUFFICES ASSUME Len(history) = Len(reports), NEW i \in CleanTurns
                 PROVE  ~history[i].tainted
      BY DEF ContextIsClean
    <2>1. history \in Seq([tainted : BOOLEAN]) /\ DOMAIN history = 1..Len(history)
      BY <1>1 DEF IInv, TypeOK
    <2>2. i \in 1..Len(history) /\ (Live => ~reports[i].tainted)
      BY <2>1 DEF CleanTurns
    <2>3. QED
      BY <1>1, <2>2 DEF IInv, HistoryPaired
  <1>2. QED
    BY <1>1, IInvAlways, PTL

\* A report's detector trace is the one of its own turn, though the backend keeps only the
\* last, and a candidate it tells of was recorded by that turn unless the turn was retried.
THEOREM ReportsAlwaysSpeakOfTheirTurn == Spec => []ReportSpeaksOfItsTurn
  <1>1. IInv => ReportSpeaksOfItsTurn
    BY DEF IInv
  <1>2. QED
    BY <1>1, IInvAlways, PTL

=============================================================================

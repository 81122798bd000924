--------------------------- MODULE CandidateIntake ---------------------------
(***************************************************************************)
(* From a detector's output to recurrence: what one conversation keeps of  *)
(* the candidates that are detected in its answers and its documents.      *)
(* Every candidate becomes an observation (observations.py), an audit      *)
(* record without authority; a candidate of a turn that received no seed   *)
(* is also ingested (intake.py): it creates a seed or counts as a          *)
(* recurrence of one, in pairwise mode at most once for every document.    *)
(*                                                                         *)
(* The host drives a live turn in two calls and may retry or abort the     *)
(* second after it failed; in evaluation mode a turn is one call.          *)
(***************************************************************************)
EXTENDS Integers, Sequences, FiniteSets, SequencesExt

CONSTANTS
    Questions,     \* what candidates ask: texts of one question match one seed
    Outputs,       \* what the detector's model may answer
    Chunks,        \* the chunks of each document, <<document, number>>
    Runtimes,      \* kinds of runtime and of detector, with bounds on turns, on chunks
                   \* that are observed and on calls that fail; one is chosen in Init
    Threshold,     \* min_occurrences_for_gate
    MaxPerTurn     \* max_seeds_per_turn

\* A "stub" is a citation, a few-shot example or a single word; "marks" normalize to
\* nothing; a "broad" text is not atomic.  Words that differ in spelling only are equal
\* when case and spaces are ignored.
Forms == {"seed", "broad", "marks", "stub"}
Lines == [asks : Questions, form : Forms, words : Nat, spelt : Nat]

ASSUME IntakeAssumption ==
    /\ IsFiniteSet(Questions) /\ Chunks \subseteq Nat \X Nat
    /\ Runtimes \subseteq [mode : {"live", "evaluation"}, backend : {"fixture", "model"},
                           turns : Nat, chunks : Nat, failures : Nat]
    /\ Threshold \in Nat \ {0} /\ MaxPerTurn \in Nat \ {0}
    /\ \A o \in Outputs : o.none \in BOOLEAN /\ o.lines \in Seq(Lines)

VARIABLES
    runtime,      \* runtime_mode, the kind of the detector backend, and bounds
    turn,         \* _turn
    seeds,        \* the seed of each question, once there is one
    credited,     \* pairwise_seen_observation_refs
    ledger,       \* observation_ledger
    history,      \* the answers later turns are shown, tainted if a seed had a part in one
    reports,      \* turn_reports
    pending,      \* _pending_live_turn and its rollback
    detector,     \* where last_prompt_metadata and last_raw_output come from
    troubled,     \* history: questions a failed call left counted or recorded, not both
    spent         \* bounds used up

vars == <<runtime, turn, seeds, credited, ledger, history, reports, pending, detector,
          troubled, spent>>

-----------------------------------------------------------------------------
(* Contexts, detection and the two records of a candidate.                 *)

Ctx(kind, n, k) == [kind |-> kind, n |-> n, k |-> k]
NoCtx == Ctx("none", 0, 0)

\* What counts as one observation: a document, whatever the chunk, or a turn.
Ref(c) == IF c.kind = "chunk" THEN Ctx("source", c.n, 0) ELSE Ctx("turn", c.n, 0)

\* What a sequence has at some of its positions, in its order.
UpTo(ps, i) == Cardinality({j \in ps : j <= i})
At(seq, ps) == [k \in 1..Cardinality(ps) |-> seq[CHOOSE i \in ps : UpTo(ps, i) = k]]

\* Accepted in the order of the output; NONE first is none, whatever follows it.
ParseNumbered(output) ==
    LET lines == output.lines
        once == {i \in DOMAIN lines : /\ lines[i].form # "stub"
                                      /\ \A j \in 1..i - 1 : lines[j] # lines[i]}
    IN IF output.none THEN <<>> ELSE At(lines, {i \in once : UpTo(once, i) <= MaxPerTurn})

\* The fixture writes its own numbered list; a model writes what it likes.
Writes(output) ==
    runtime.backend = "fixture" =>
        /\ output.none => output.lines = <<>>
        /\ \A i \in DOMAIN output.lines : output.lines[i].form = "seed"

\* A model is not asked about a blank text, and its trace stays what it was.
Detected(blank, output) == IF blank THEN <<>> ELSE ParseNumbered(output)
TracedUnlessBlank(blank, ref) == IF blank THEN detector ELSE [prompt |-> ref, raw |-> ref]
Traced(blank, ref) ==
    IF blank /\ runtime.backend = "model" THEN detector ELSE [prompt |-> ref, raw |-> ref]

\* One candidate on record: schema v3 makes it eligible for recurrence exactly when no
\* seed was shown to the model that answered, and gives it no authority either way.
Observation(ctx, index, line, exposed) ==
    [ctx |-> ctx, index |-> index, line |-> line, exposed |-> exposed]

\* record_batch: ids hash context, position and text; a record there already is not made
\* again; every clean record is linked to the earlier exposed ones of the same words.
Id(o) == <<o.ctx, o.index, o.line>>
Normalized(l) == <<l.asks, l.words>>
SameWords(l, k) == Normalized(l) = Normalized(k)
NewRecords(lines, ctx, exposed) ==
    LET all == [i \in DOMAIN lines |-> Observation(ctx, i, lines[i], exposed)]
        known == {Id(o) : o \in ToSet(ledger.obs)}
    IN At(all, {i \in DOMAIN all : Id(all[i]) \notin known})
RecordBatch(lines, ctx, exposed) ==
    LET batch == NewRecords(lines, ctx, exposed)
    IN [obs |-> ledger.obs \o batch,
        links |-> ledger.links \cup
            {<<Id(pc[1]), Id(pc[2])>> :
                pc \in {r \in ToSet(ledger.obs) \X ToSet(batch) :
                    r[1].exposed /\ ~r[2].exposed /\ SameWords(r[1].line, r[2].line)}}]

\* What normalizes to nothing is dropped, before anything is ingested.
Normalizable(lines) == {l \in ToSet(lines) : l.form # "marks"}

\* The questions a batch is accepted for: broad texts are rejected, and a second text of
\* a question is a duplicate in its batch.
Accepted(lines) == {l.asks : l \in {k \in Normalizable(lines) : k.form # "broad"}}

NoSeed == [count |-> 0, origin |-> NoCtx, promoted |-> FALSE]
Matched(s, q, lines) == s[q].count + 1
Ingest(s, lines, ctx) ==
    [q \in Questions |->
        IF q \notin Accepted(lines) THEN s[q]
        ELSE IF s[q] = NoSeed THEN [count |-> 1, origin |-> ctx, promoted |-> FALSE]
        ELSE [s[q] EXCEPT !.count = Matched(s, q, lines)]]

\* The seeds whose count changed and suffices are submitted; the Gate decides.
Submitted(before, after) ==
    {q \in Questions : /\ after[q].count # before[q].count
                       /\ after[q].count >= Threshold /\ ~after[q].promoted}
Promote(s, up) == [q \in Questions |-> [s[q] EXCEPT !.promoted = @ \/ q \in up]]

-----------------------------------------------------------------------------
NoPending == [open |-> FALSE, turn |-> 0, surfaced |-> {}, before |-> <<>>,
              tried |-> FALSE, was |-> {}, lost |-> {}]
FreshDetector == [prompt |-> NoCtx, raw |-> NoCtx]

Init ==
    /\ runtime \in Runtimes
    /\ turn = 0
    /\ seeds = [q \in Questions |-> NoSeed]
    /\ credited = [q \in Questions |-> {}]
    /\ ledger = [obs |-> <<>>, links |-> {}]
    /\ history = <<>> /\ reports = <<>>
    /\ pending = NoPending
    /\ detector = FreshDetector
    /\ troubled = {} /\ spent = [chunks |-> 0, failures |-> 0]

Live == runtime.mode = "live"
Spend(what) ==
    spent[what] < runtime[what] /\ spent' = [spent EXCEPT ![what] = @ + 1]
MayFail == Spend("failures")

PrepareTurn(surfaced) ==
    /\ Live /\ ~pending.open /\ turn < runtime.turns
    /\ surfaced \subseteq {q \in Questions : seeds[q].promoted}
    /\ pending' = [open |-> TRUE, turn |-> turn, surfaced |-> surfaced, before |-> seeds,
                   tried |-> FALSE, was |-> troubled, lost |-> {}]
    /\ UNCHANGED <<runtime, turn, seeds, credited, ledger, history, reports, detector,
                   troubled, spent>>

\* Seeds are restored; the ledger, the history and the turn number are not.
AbortTurn ==
    /\ pending.open
    /\ seeds' = pending.before
    /\ troubled' = pending.was \cup pending.lost
    /\ pending' = NoPending
    /\ UNCHANGED <<runtime, turn, credited, ledger, history, reports, detector, spent>>

\* observe_turn, one operator for each stretch between two places it can fail at.
Admitted(lines) == IF pending.surfaced # {} THEN <<>> ELSE lines
Provisional == Ctx("first_pass", pending.turn, 0)
FirstPass(lines) == Ingest(seeds, Admitted(lines), Provisional)
AnswerCtx(revised) == Ctx(IF revised THEN "draft" ELSE "visible", pending.turn, 0)

RepairedOnce(s, born, ctx) ==
    LET fresh == {q \in born : s[q].origin = Provisional}
    IN [q \in Questions |-> IF q \in fresh /\ q = CHOOSE f \in fresh : TRUE
                            THEN [s[q] EXCEPT !.origin = ctx] ELSE s[q]]

\* The created events of all seeds the batch was accepted for name the final context.
Repaired(s, born, ctx) ==
    [q \in Questions |-> IF q \in born /\ s[q].origin = Provisional
                         THEN [s[q] EXCEPT !.origin = ctx] ELSE s[q]]

Influenced(revised) == pending.surfaced # {} \/ revised
SurfacedFirst(revised) == pending.surfaced # {}
SurfacedInReport(revised) == Influenced(revised)

Settle(lines, up, revised) ==
    /\ up \subseteq Submitted(seeds, FirstPass(lines))
    /\ revised => up # {}
    /\ seeds' = Promote(Repaired(FirstPass(lines), Accepted(Admitted(lines)),
                                 AnswerCtx(revised)), up)
    /\ ledger' = RecordBatch(lines, AnswerCtx(revised), pending.surfaced # {})
    /\ history' = Append(history, [tainted |-> Influenced(revised)])
    /\ turn' = turn + 1

\* A candidate whose lineage finds no observation made by this very batch.
Loose(lines, ctx, exposed) == Len(NewRecords(lines, ctx, exposed)) < Len(lines)

Report(ref, lines, admitted, ctx, exposed, tainted, blank, tried) ==
    [ref |-> ref, tainted |-> tainted, blank |-> blank, tried |-> tried,
     loose |-> admitted # <<>> /\ Loose(lines, ctx, exposed),
     audit |-> detector']

ObserveTurn(blank, output, up, revised) ==
    LET lines == Detected(blank, output)
        ref == Ctx("turn", pending.turn, 0)
    IN /\ pending.open /\ Writes(output)
       /\ detector' = Traced(blank, ref)
       /\ Settle(lines, up, revised)
       /\ reports' = Append(reports,
            Report(ref, lines, Admitted(lines), AnswerCtx(revised), pending.surfaced # {},
                   SurfacedInReport(revised), blank, pending.tried))
       /\ pending' = NoPending
       /\ UNCHANGED <<runtime, credited, troubled, spent>>

\* The model is not reached: its prompt is noted already.
DetectFails ==
    /\ pending.open /\ MayFail /\ runtime.backend = "model"
    /\ detector' = [detector EXCEPT !.prompt = Ctx("turn", pending.turn, 0)]
    /\ pending' = [pending EXCEPT !.tried = TRUE]
    /\ UNCHANGED <<runtime, turn, seeds, credited, ledger, history, reports, troubled>>

\* A text cannot be embedded, after some were ingested; or the question cannot, once a
\* seed was promoted and a revision is considered.
IntakeFails(output, n, up) ==
    LET lines == SubSeq(Detected(FALSE, output), 1, n)
    IN /\ pending.open /\ pending.surfaced = {} /\ MayFail /\ Writes(output)
       /\ n \in 0..Len(Detected(FALSE, output))
       /\ up \subseteq Submitted(seeds, FirstPass(lines))
       /\ (n = Len(Detected(FALSE, output))) <=> (up # {})
       /\ detector' = Traced(FALSE, Ctx("turn", pending.turn, 0))
       /\ seeds' = Promote(FirstPass(lines), up)
       /\ troubled' = troubled \cup Accepted(lines)
       /\ pending' = [pending EXCEPT !.tried = TRUE]
       /\ UNCHANGED <<runtime, turn, credited, ledger, history, reports>>

\* The retrieval probe fails: the turn is recorded and counted, and still pending.
ReportFails(output, up, revised) ==
    LET lines == Detected(FALSE, output)
    IN /\ pending.open /\ MayFail /\ Writes(output)
       /\ detector' = Traced(FALSE, Ctx("turn", pending.turn, 0))
       /\ Settle(lines, up, revised)
       /\ troubled' = troubled \cup Accepted(Admitted(lines))
       /\ pending' = [pending EXCEPT !.tried = TRUE, !.lost = @ \cup Accepted(Admitted(lines))]
       /\ UNCHANGED <<runtime, credited, reports>>

\* One evaluation turn; the baseline is all that is detected in, or remembered.
Baseline(blank, output, up) ==
    LET lines == Detected(blank, output)
        ctx == Ctx("baseline", turn, 0)
        after == Ingest(seeds, lines, ctx)
    IN /\ ~Live /\ turn < runtime.turns /\ Writes(output)
       /\ detector' = Traced(blank, Ref(ctx))
       /\ ledger' = RecordBatch(lines, ctx, FALSE)
       /\ up \subseteq {q \in Questions : after[q].count >= Threshold /\ ~after[q].promoted}
       /\ seeds' = Promote(after, up)
       /\ history' = Append(history, [tainted |-> FALSE])
       /\ turn' = turn + 1
       /\ UNCHANGED <<runtime, credited, pending>>

EvaluationTurn(blank, output, up) ==
    LET lines == Detected(blank, output)
        ctx == Ctx("baseline", turn, 0)
        tried == \E o \in ToSet(ledger.obs) : o.ctx = ctx
    IN /\ Baseline(blank, output, up)
       /\ reports' = Append(reports, Report(Ref(ctx), lines, lines, ctx, FALSE, FALSE, blank,
                                            tried))
       /\ UNCHANGED <<troubled, spent>>

EvaluationReportFails(output, up) ==
    Baseline(FALSE, output, up) /\ MayFail /\ UNCHANGED <<reports, troubled>>

EvaluationIntakeFails(output, n) ==
    LET lines == Detected(FALSE, output)
        ctx == Ctx("baseline", turn, 0)
    IN /\ ~Live /\ turn < runtime.turns /\ MayFail /\ Writes(output)
       /\ n \in 0..Len(lines) - 1
       /\ detector' = Traced(FALSE, Ref(ctx))
       /\ ledger' = RecordBatch(lines, ctx, FALSE)
       /\ seeds' = Ingest(seeds, SubSeq(lines, 1, n), ctx)
       /\ troubled' = troubled \cup Accepted(lines)
       /\ UNCHANGED <<runtime, turn, credited, history, reports, pending>>

ScopedByChunk(after, ref) == after

\* A document counts once for a seed, however many of its chunks recall it.
Scoped(after, ref) ==
    [q \in Questions |-> IF ref \in credited[q] THEN seeds[q] ELSE after[q]]

ObserveSource(chunk, output, up) ==
    LET lines == Detected(FALSE, output)
        ctx == Ctx("chunk", chunk[1], chunk[2])
        after == Scoped(Ingest(seeds, lines, ctx), Ref(ctx))
    IN /\ ~pending.open /\ Spend("chunks") /\ Writes(output)
       /\ detector' = Traced(FALSE, Ref(ctx))
       /\ ledger' = RecordBatch(lines, ctx, FALSE)
       /\ up \subseteq Submitted(seeds, after)
       /\ seeds' = Promote(after, up)
       /\ credited' = [q \in Questions |-> IF q \in Accepted(lines)
                                           THEN credited[q] \cup {Ref(ctx)} ELSE credited[q]]
       /\ UNCHANGED <<runtime, turn, history, reports, pending, troubled>>

\* Stored and loaded between turns: only the detector is another one.
Reload ==
    /\ ~pending.open
    /\ detector' = FreshDetector
    /\ UNCHANGED <<runtime, turn, seeds, credited, ledger, history, reports, pending,
                   troubled, spent>>

AnObservation ==
    \E output \in Outputs, up \in SUBSET Questions :
        \/ \E blank, revised \in BOOLEAN : ObserveTurn(blank, output, up, revised)
        \/ \E revised \in BOOLEAN : ReportFails(output, up, revised)
        \/ \E n \in 0..MaxPerTurn : IntakeFails(output, n, up)
        \/ \E blank \in BOOLEAN : EvaluationTurn(blank, output, up)
        \/ EvaluationReportFails(output, up)
        \/ \E chunk \in Chunks : ObserveSource(chunk, output, up)

Next ==
    \/ \E surfaced \in SUBSET Questions : PrepareTurn(surfaced)
    \/ AbortTurn
    \/ DetectFails
    \/ AnObservation
    \/ \E output \in Outputs, n \in 0..MaxPerTurn : EvaluationIntakeFails(output, n)
    \/ Reload

Spec == Init /\ [][Next]_vars

-----------------------------------------------------------------------------
(* Properties.                                                             *)

Clean(q) == {o \in ToSet(ledger.obs) : ~o.exposed /\ o.line.asks = q /\ o.line.form = "seed"}

\* A seed has recurred exactly as often as there are turns and documents on record, free of
\* seeds, in which its question was detected: the count is written by intake
\* (activate_existing_seed) and scoped for documents, the record is written before or after
\* it by record_batch, and neither reads the other.  A call that failed in between, and was
\* retried or aborted, is the one exception.
RecurrenceIsOnRecord ==
    \A q \in Questions \ troubled :
        seeds[q].count = Cardinality({Ref(o.ctx) : o \in Clean(q)})

\* A seed's created event names the context of an observation on record, not the provisional
\* one its turn began with (observe_turn's repair).
OriginsOnRecord ==
    \A q \in Questions \ troubled :
        seeds[q].count > 0 => \E o \in Clean(q) : o.ctx = seeds[q].origin

\* The links say of which exposed observations a later clean one recalls the words
\* (_link_prior_contaminated_exact_matches).
LinksOnRecord ==
    ledger.links =
        {<<Id(ledger.obs[p[1]]), Id(ledger.obs[p[2]])>> :
           p \in {r \in (DOMAIN ledger.obs) \X (DOMAIN ledger.obs) :
                    /\ r[1] < r[2]
                    /\ ledger.obs[r[1]].exposed /\ ~ledger.obs[r[2]].exposed
                    /\ Normalized(ledger.obs[r[1]].line) = Normalized(ledger.obs[r[2]].line)}}

\* The two records of a candidate, the seed's and the observation's, agree.
RecordsAgree == OriginsOnRecord /\ LinksOnRecord

\* The turns _detector_conversation_context shows the detector.
CleanTurns ==
    IF Live THEN {i \in DOMAIN history : i \in DOMAIN reports /\ ~reports[i].tainted}
            ELSE DOMAIN history

\* No answer a seed had a part in is shown to the detector of a later turn ("cannot carry
\* SSL-derived influence"), which pairs answers with reports by position; once a report
\* failed after its answer entered the history, the pairs are shifted and it is not so.
ContextIsClean ==
    Len(history) = Len(reports) => \A i \in CleanTurns : ~history[i].tainted

\* The detector trace in a report is the one of its own turn, although the backend object
\* keeps only the last; only the report of a blank answer repeats another's.  And a
\* candidate of a report has its observation made by that very turn, unless the turn was
\* tried before.
ReportSpeaksOfItsTurn ==
    \A i \in DOMAIN reports :
        LET r == reports[i]
        IN /\ ~(r.blank /\ runtime.backend = "model") =>
                  r.audit = [prompt |-> r.ref, raw |-> r.ref]
           /\ r.loose => r.tried
=============================================================================

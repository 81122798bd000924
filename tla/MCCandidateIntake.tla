-------------------------- MODULE MCCandidateIntake --------------------------
(* A few detector outputs: a list with a stub, a repeated line and more     *)
(* lines than are taken; the same words spelt otherwise; NONE with an       *)
(* explanation; a broad text and one that normalizes to nothing.            *)
EXTENDS CandidateIntake

Line(asks, words, spelt, form) ==
    [asks |-> asks, words |-> words, spelt |-> spelt, form |-> form]
Says(lines) == [none |-> FALSE, lines |-> lines]

SomeOutputs ==
    {[none |-> TRUE, lines |-> <<Line("cost", 1, 1, "seed")>>],
     Says(<<Line("risk", 1, 1, "stub"), Line("cost", 1, 1, "seed"),
            Line("cost", 1, 1, "seed"), Line("risk", 1, 1, "seed"),
            Line("risk", 2, 1, "broad")>>),
     Says(<<Line("cost", 1, 2, "seed"), Line("cost", 2, 1, "seed")>>),
     Says(<<Line("risk", 1, 1, "broad"), Line("cost", 2, 1, "marks")>>)}

Runtime(mode, backend, turns, chunks, failures) ==
    [mode |-> mode, backend |-> backend, turns |-> turns, chunks |-> chunks,
     failures |-> failures]
SomeRuntimes ==
    {Runtime("live", "model", 3, 0, 1), Runtime("live", "model", 2, 1, 1),
     Runtime("live", "fixture", 2, 2, 0), Runtime("live", "model", 1, 3, 0),
     Runtime("evaluation", "model", 2, 1, 1), Runtime("evaluation", "fixture", 3, 0, 0)}

TwoChunks == {<<1, 1>>, <<1, 2>>}
=============================================================================

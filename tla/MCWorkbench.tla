---------------------------- MODULE MCWorkbench ----------------------------
(* Two threads, a scenario of two questions, a third one that only the chat *)
(* asks, and edits a preset, the fine controls and the JSON editor can send. *)
EXTENDS Workbench, TLC

TwoQuestions == <<"first", "second">>
Start(host) == [host |-> host, level |-> 1, mode |-> "cluster", span |-> 1]
SomeStarts == {Start("here"), Start("away")}
SomeEdits ==
    {[level |-> 2], [slider |-> 2], [span |-> 2],
     [host |-> "here", level |-> 1, mode |-> "pairwise"],
     [host |-> "away", level |-> 2, mode |-> "cluster"]}

Threads == Permutations(Calls)
=============================================================================

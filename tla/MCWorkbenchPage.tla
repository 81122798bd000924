-------------------------- MODULE MCWorkbenchPage --------------------------
(***************************************************************************)
(* Small instance of WorkbenchPage: two conversations, of which one may    *)
(* not be there yet, and users who each work with one or two buttons.      *)
(***************************************************************************)
EXTENDS WorkbenchPage, TLC

CONSTANTS c1, c2

MCConversations == {c1, c2}
MCUses == {{"button", "enter"}, {"research", "save"}, {"create", "preset"},
           {"ingest", "contradict"}, {"support", "contradict"}, {"resolve", "button"}, {"resolve"}}
\* To act on a seed that is hidden by the answer to a resolution takes five.
MCMaxEvents == [u \in MCUses |-> IF u = {"resolve"} THEN 5 ELSE 4]
MCSeeds == {"none", "wanting", "blocked"}
Alike == Permutations(MCConversations)
=============================================================================

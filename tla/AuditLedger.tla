----------------------------- MODULE AuditLedger -----------------------------
(***************************************************************************)
(* The production workspace on disk: one SQLite file that holds the mutable*)
(* authority and the append-only ledger (storage/sqlite.py, production.py),*)
(* and the protected anchor beside it (storage/integrity.py).  Operations  *)
(* of several threads or processes verify, commit and restore it in steps  *)
(* no lock spans; an operation may die between any two of them, and the    *)
(* database file may be replaced by hand with an older copy.               *)
(*                                                                         *)
(* A ledger row is its number of issue: rows are hashed over fresh ids, so *)
(* two rows are equal only if they are the same row.                       *)
(***************************************************************************)
EXTENDS Integers, Sequences, FiniteSets, SequencesExt

CONSTANTS
    Operations,    \* the threads and processes at work
    MaxRows,       \* bound: ledger rows ever issued
    Budgets        \* who is at work, and how often what may happen

ASSUME LedgerAssumption ==
    /\ IsFiniteSet(Operations) /\ MaxRows \in Nat \ {0}
    /\ Budgets \subseteq [operations : SUBSET Operations, rows : 1..MaxRows,
                          restores : Nat, crashes : Nat, rollbacks : Nat]

VARIABLES
    db,       \* the database file: its ledger and its mutable authority
    anchor,   \* anchor.json
    tmp,      \* anchor.json.tmp
    op,       \* what every operation is doing
    backup,   \* a backup file taken earlier
    acked,    \* history: the ledgers of the commits reported as successful
    budget,   \* the bounds of this behaviour, chosen once
    spent     \* bounds used up, and rows issued

vars == <<db, anchor, tmp, op, backup, acked, budget, spent>>

Rows == 1..MaxRows

\* authority names the row whose commit the mutable tables reflect.
Row == [id : Rows, authority : Rows]
Database == [ledger : Seq(Row), authority : Rows]

\* What an anchor file may hold: nothing yet, or a sequence number and a head.
Empty == [seq |-> 0, head |-> 0]
Missing == [seq |-> -1, head |-> 0]
AnchorFile == [seq : 0..MaxRows, head : 0..MaxRows]

Steps == {"idle", "chain", "anchor", "row", "open", "write", "replace",
          "sessions", "rows", "commit", "stage", "swap"}

\* kind is the operation, id the row it will issue; late says that its own effect is
\* in the database, own is the chain up to it; seen is the ledger it read, held the
\* anchor it read, file where its descriptor points.
Operation == [kind : {"verify", "commit", "restore"}, step : Steps, late : BOOLEAN,
              id : 0..MaxRows, own : Seq(Rows), seen : Seq(Row), held : AnchorFile,
              read : 0..MaxRows, file : {"none", "tmp", "anchor", "orphan"},
              stage : Seq(Row)]

Idle == [kind |-> "verify", step |-> "idle", late |-> FALSE, id |-> 0, own |-> <<>>,
         seen |-> <<>>, held |-> Empty, read |-> 0, file |-> "none", stage |-> <<>>]

IdsOf(ledger) == [i \in 1..Len(ledger) |-> ledger[i].id]

AnchorOf(ledger) == [seq |-> Len(ledger), head |-> ledger[Len(ledger)].id]

\* expected_authority_snapshot_from_ledger
Expected(ledger) == ledger[Len(ledger)].authority

At(t, step) == op[t].step = step
Goto(t, step) == op' = [op EXCEPT ![t].step = step]

\* An operation that raises leaves nothing behind in memory.
Fail(t) == op' = [op EXCEPT ![t] = Idle]

-----------------------------------------------------------------------------
(* Starting, finishing, dying.                                             *)

\* initialize: every operation begins by verifying the bound workspace.
Start(t, kind) ==
    LET writes == kind # "verify" IN
    /\ t \in budget.operations /\ At(t, "idle")
    /\ writes => spent.rows < budget.rows
    /\ kind = "restore" => spent.restores < budget.restores
    /\ op' = [op EXCEPT ![t] =
                 [Idle EXCEPT !.kind = kind, !.step = "chain",
                              !.id = IF writes THEN spent.rows + 1 ELSE 0]]
    /\ spent' = [spent EXCEPT !.rows = @ + IF writes THEN 1 ELSE 0,
                              !.restores = @ + IF kind = "restore" THEN 1 ELSE 0]
    /\ UNCHANGED <<db, anchor, tmp, backup, acked, budget>>

\* The anchor is as it should be.  An operation whose effect is in the database now
\* reports success, any other goes on to check the mutable authority.
AnchorChecked(t, others) ==
    IF op[t].late
    THEN /\ acked' = acked \cup {op[t].own}
         /\ op' = [others EXCEPT ![t] = Idle]
    ELSE /\ op' = [others EXCEPT ![t].step = "sessions"]
         /\ UNCHANGED acked

Crash(t) ==
    /\ ~At(t, "idle") /\ spent.crashes < budget.crashes
    /\ op' = [op EXCEPT ![t] = Idle]
    /\ spent' = [spent EXCEPT !.crashes = @ + 1]
    /\ UNCHANGED <<db, anchor, tmp, backup, acked, budget>>

-----------------------------------------------------------------------------
(* _verify_bound_integrity                                                 *)

ReadChain(t) ==
    /\ At(t, "chain")
    /\ op' = [op EXCEPT ![t].seen = db.ledger, ![t].step = "anchor"]
    /\ UNCHANGED <<db, anchor, tmp, backup, acked, spent, budget>>

\* A verification that leaves an anchor behind the ledger alone.
ReadAnchorWithoutRecovery(t) ==
    /\ At(t, "anchor")
    /\ IF AnchorOf(op[t].seen) = anchor THEN AnchorChecked(t, op)
       ELSE Fail(t) /\ UNCHANGED acked
    /\ UNCHANGED <<db, anchor, tmp, backup, spent, budget>>

\* A verification that takes whatever the ledger says.
ReadAnchorTrustingLedger(t) ==
    /\ At(t, "anchor")
    /\ IF AnchorOf(op[t].seen) = anchor THEN AnchorChecked(t, op)
       ELSE Goto(t, "open") /\ UNCHANGED acked
    /\ UNCHANGED <<db, anchor, tmp, backup, spent, budget>>

\* An unreadable anchor, a ledger behind it and a conflicting head fail; a longer
\* ledger may be a continuation.
ReadAnchor(t) ==
    LET seen == op[t].seen IN
    /\ At(t, "anchor")
    /\ \/ /\ anchor # Empty /\ AnchorOf(seen) = anchor
          /\ AnchorChecked(t, op)
       \/ /\ anchor # Empty /\ Len(seen) > anchor.seq
          /\ op' = [op EXCEPT ![t].held = anchor, ![t].step = "row"]
          /\ UNCHANGED acked
       \/ /\ \/ anchor = Empty
             \/ Len(seen) < anchor.seq
             \/ Len(seen) = anchor.seq /\ AnchorOf(seen) # anchor
          /\ Fail(t) /\ UNCHANGED acked
    /\ UNCHANGED <<db, anchor, tmp, backup, spent, budget>>

\* The anchored row is looked up in the database as it is now.
CheckRow(t) ==
    /\ At(t, "row")
    /\ LET held == op[t].held IN
       IF Len(db.ledger) >= held.seq /\ db.ledger[held.seq].id = held.head
       THEN Goto(t, "open") ELSE Fail(t)
    /\ UNCHANGED <<db, anchor, tmp, backup, acked, spent, budget>>

\* write_anchor: one temporary name for all writers, opened with truncation.
OpenTmp(t) ==
    /\ At(t, "open")
    /\ tmp' = Empty
    /\ op' = [op EXCEPT ![t].file = "tmp", ![t].step = "write"]
    /\ UNCHANGED <<db, anchor, backup, acked, spent, budget>>

\* An anchor that claims one row more than was read.
AnchorOneAhead(t) == [AnchorOf(op[t].seen) EXCEPT !.seq = @ + 1]

AnchorToWrite(t) == AnchorOf(op[t].seen)

\* The bytes go to the file the descriptor points at, whatever its name is by now.
WriteTmp(t) ==
    /\ At(t, "write")
    /\ tmp' = IF op[t].file = "tmp" THEN AnchorToWrite(t) ELSE tmp
    /\ anchor' = IF op[t].file = "anchor" THEN AnchorToWrite(t) ELSE anchor
    /\ op' = [op EXCEPT ![t].file = "none", ![t].step = "replace"]
    /\ UNCHANGED <<db, backup, acked, spent, budget>>

\* os.replace: whoever still writes to the temporary file now writes to the anchor.
Renamed ==
    [u \in Operations |->
        CASE op[u].file = "tmp" -> [op[u] EXCEPT !.file = "anchor"]
          [] op[u].file = "anchor" -> [op[u] EXCEPT !.file = "orphan"]
          [] OTHER -> op[u]]

ReplaceAnchor(t) ==
    /\ At(t, "replace")
    /\ \/ /\ tmp # Missing
          /\ anchor' = tmp /\ tmp' = Missing
          /\ AnchorChecked(t, Renamed)
       \/ tmp = Missing /\ Fail(t) /\ UNCHANGED <<anchor, tmp, acked>>
    /\ UNCHANGED <<db, backup, spent, budget>>

-----------------------------------------------------------------------------
(* verify_authority_snapshot_connection: two SELECTs, no transaction.      *)

ReadSessions(t) ==
    /\ At(t, "sessions")
    /\ op' = [op EXCEPT ![t].read = db.authority, ![t].step = "rows"]
    /\ UNCHANGED <<db, anchor, tmp, backup, acked, spent, budget>>

\* What an operation does once the mutable authority matches the ledger.
Proceed(t) ==
    IF op[t].late THEN Goto(t, "chain")
    ELSE IF op[t].kind = "commit" THEN Goto(t, "commit")
    ELSE IF op[t].kind = "restore" THEN Goto(t, "stage")
    ELSE op' = [op EXCEPT ![t] = Idle]

ReadRows(t) ==
    /\ At(t, "rows")
    /\ IF op[t].read = Expected(db.ledger) THEN Proceed(t) ELSE Fail(t)
    /\ UNCHANGED <<db, anchor, tmp, backup, acked, spent, budget>>

-----------------------------------------------------------------------------
(* Commits and restores.                                                   *)

\* A save whose session update and ledger row are two transactions, cut in between.
StateOnly(id) == [db EXCEPT !.authority = id]

\* One transaction: session state and ledger row (create_session, save_session,
\* save_session_configuration, save_authorized_session, delete_session).
Committed(id) ==
    [ledger |-> Append(db.ledger, [id |-> id, authority |-> id]), authority |-> id]

Commit(t) ==
    /\ At(t, "commit")
    /\ db' = Committed(op[t].id)
    /\ op' = [op EXCEPT ![t].late = TRUE, ![t].own = IdsOf(db'.ledger),
                        ![t].step = "sessions"]
    /\ UNCHANGED <<anchor, tmp, backup, acked, spent, budget>>

\* backup_to outside a restore.
Backup ==
    /\ backup # db /\ backup' = db
    /\ UNCHANGED <<db, anchor, tmp, op, acked, spent, budget>>

\* _read_backup: the mutable tables are taken; the backup's own ledger only vouches
\* for them.
ReadBackup == backup.authority

\* restore_production_backup: the live ledger is kept and extended by a restore row,
\* in a private copy of the live database.
Stage(t) ==
    /\ At(t, "stage")
    /\ op' = [op EXCEPT ![t].stage =
                 Append(db.ledger, [id |-> op[t].id, authority |-> ReadBackup]),
                        ![t].step = "swap"]
    /\ UNCHANGED <<db, anchor, tmp, backup, acked, spent, budget>>

\* A restore that puts the backup itself in place.
SwappedForBackup(t) == backup

Swapped(t) == [ledger |-> op[t].stage, authority |-> Expected(op[t].stage)]

\* os.replace of the live database by the sealed stage.
Swap(t) ==
    /\ At(t, "swap")
    /\ db' = Swapped(t)
    /\ op' = [op EXCEPT ![t].late = TRUE, ![t].own = IdsOf(op[t].stage),
                        ![t].stage = <<>>, ![t].step = "sessions"]
    /\ UNCHANGED <<anchor, tmp, backup, acked, spent, budget>>

\* Somebody puts the older copy in the place of the database file while nothing runs.
Rollback ==
    /\ \A t \in Operations : At(t, "idle")
    /\ spent.rollbacks < budget.rollbacks /\ backup # db
    /\ db' = backup
    /\ spent' = [spent EXCEPT !.rollbacks = @ + 1]
    /\ UNCHANGED <<anchor, tmp, op, backup, acked, budget>>

-----------------------------------------------------------------------------

\* A bound workspace, right after bootstrap.
Init ==
    /\ budget \in Budgets
    /\ db = [ledger |-> <<[id |-> 1, authority |-> 1]>>, authority |-> 1]
    /\ anchor = [seq |-> 1, head |-> 1]
    /\ tmp = Missing
    /\ op = [t \in Operations |-> Idle]
    /\ backup = db
    /\ acked = {}
    /\ spent = [rows |-> 1, restores |-> 0, crashes |-> 0, rollbacks |-> 0]

Step(t) ==
    \/ ReadChain(t) \/ ReadAnchor(t) \/ CheckRow(t)
    \/ OpenTmp(t) \/ WriteTmp(t) \/ ReplaceAnchor(t)
    \/ ReadSessions(t) \/ ReadRows(t)
    \/ Commit(t) \/ Stage(t) \/ Swap(t)

Next ==
    \/ \E t \in Operations :
          \/ \E kind \in {"verify", "commit", "restore"} : Start(t, kind)
          \/ Step(t)
          \/ Crash(t)
    \/ Backup
    \/ Rollback

Spec == Init /\ [][Next]_vars

\* Operating system threads run, and a workspace somebody works with is opened again.
Fairness ==
    \A t \in Operations : WF_vars(Step(t)) /\ WF_vars(Start(t, "verify"))

FairSpec == Spec /\ Fairness

-----------------------------------------------------------------------------

TypeOK ==
    /\ db \in Database /\ backup \in Database
    /\ anchor \in AnchorFile /\ tmp \in AnchorFile \cup {Missing}
    /\ op \in [Operations -> Operation]
    /\ \A chain \in acked : chain \in Seq(Rows)

\* At every moment, inside and between operations and after every crash, the mutable
\* authority is the one the last ledger row commits to: whoever reads them together
\* finds them consistent.
AuthorityAccounted == db.authority = Expected(db.ledger)

\* One operation at a time.
Alone == Cardinality(budget.operations) = 1

\* The anchor is a prefix of the ledger, as long as nobody puts the database file back and
\* no restore is overtaken by another operation, whose commit it would drop: it never
\* names a row the database does not have at that place.
AnchorIsPrefix ==
    anchor # Empty /\ spent.rollbacks = 0 /\ (Alone \/ spent.restores = 0) =>
        /\ anchor.seq <= Len(db.ledger)
        /\ db.ledger[anchor.seq].id = anchor.head

\* What protects the ledger is well formed and never ahead of it: every file has its
\* type, and the anchor names a prefix, whichever writes were cut off or overlapped.
AnchorIsSound == TypeOK /\ AnchorIsPrefix

\* No commit is reported as successful on top of a ledger that has forgotten another
\* commit that was reported as successful: for one operation at a time, however often the
\* database file is replaced by an older copy between operations; for operations at once,
\* whose late anchor may take the place of a newer one, while nothing is put back.
AcknowledgedChainsNest ==
    Alone \/ (spent.rollbacks = 0 /\ spent.restores = 0) =>
        \A a, b \in acked : IsPrefix(a, b) \/ IsPrefix(b, a)

\* Whatever was interrupted, a workspace that one operation at a time works with can
\* be opened again when it rests, unless its database file was put back: the anchor is
\* readable and the ledger is a continuation of it.
RestsRecoverable ==
    Alone /\ spent.rollbacks = 0 /\ (\A t \in Operations : At(t, "idle")) =>
        anchor # Empty /\ AnchorIsPrefix /\ AuthorityAccounted

\* A ledger that is ahead of the anchor, because an operation died between its commit
\* and the anchor update, is anchored in the end (one operation at a time).
AnchorCatchesUp ==
    (Alone /\ anchor.seq < Len(db.ledger)) ~>
        (anchor = AnchorOf(db.ledger) \/ spent.rollbacks > 0)

\* A restore that fails leaves every acknowledged commit in the live workspace
\* (production-persistence-and-audit.md: "A failed restore leaves the existing live
\* workspace and protected anchor intact").
FailedRestoreKeepsLive ==
    [][\A t \in Operations :
         /\ op[t].kind = "restore" /\ op[t].late
         /\ op'[t] = Idle /\ acked' = acked /\ spent'.crashes = spent.crashes
         => \A chain \in acked : IsPrefix(chain, IdsOf(db'.ledger))]_vars
=============================================================================

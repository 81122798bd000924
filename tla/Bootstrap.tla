----------------------------- MODULE Bootstrap -----------------------------
(***************************************************************************)
(* How a workspace becomes a production workspace and is opened again:     *)
(* WorkspaceService.initialize and delete (application/workspace.py), the  *)
(* first bind with its protected marker, key, genesis, anchor and authority*)
(* checkpoint (storage/sqlite.py, production.py), and the import of a      *)
(* backup into an empty target (storage/recovery.py).  Every one of those  *)
(* files and rows is written by a step of its own and the program may die  *)
(* between any two of them.  A process binds again on almost every call,   *)
(* while other threads save through the repository it binds.               *)
(*                                                                         *)
(* The mutable authority of all sessions is one value; a ledger row holds  *)
(* the value it commits to.  A head hash stands for the chain below it, so *)
(* an anchor is the chain it authenticates.  The inside of a verification  *)
(* is the subject of AuditLedger, here it is one step.                     *)
(***************************************************************************)
EXTENDS Integers, Sequences, FiniteSets, SequencesExt

CONSTANTS
    Processes,   \* processes that open the workspace, each with one repository
    Authority,   \* values of the mutable authority
    Instances,   \* the circumstances to look at, one of them chosen in Init
    NoProcess

ASSUME BootstrapAssumption ==
    /\ IsFiniteSet(Processes) /\ NoProcess \notin Processes
    /\ Instances \subseteq
         [opens : SUBSET Processes,   \* who opens it
          past : {"none", "legacy", "backup"},  \* what there is to begin with
          serial : BOOLEAN,     \* a process saves and binds one after the other
          timeouts : BOOLEAN,   \* the bootstrap lock may time out
          crashes : Nat, edits : Nat, saves : Nat]   \* bounds

VARIABLES
    inst,                 \* the circumstances
    db, identity,         \* whether workspace.db and workspace.id exist
    ledger, authority,    \* what workspace.db holds
    marker, key, anchor,  \* bootstrap.pending, integrity.key, anchor.json
    lock,                 \* who holds bootstrap.lock
    step,                 \* where the bind or the import of a process is
    bound,                \* whether _workspace_id of its repository is set
    ready,                \* whether the process serves calls
    saver,                \* where a save by another thread of the process is
    spent                 \* bounds used up

disk == <<db, identity, ledger, authority, marker, key, anchor>>
vars == <<inst, db, identity, ledger, authority, marker, key, anchor,
          lock, step, bound, ready, saver, spent>>

Row == [type : {"genesis", "checkpoint", "import", "save"}, authority : Authority]
Nothing == [kind |-> "nothing"]
NoPlan == [kind |-> "no plan"]
Plan == [kind : {"plan"}, authority : Authority]
Marker == [kind : {"marker"}, baseline : Authority, plan : Plan \cup {NoPlan}]

Steps == {"idle", "wait", "prepare", "key", "genesis", "anchor", "resume", "open",
          "checkpoint", "insert", "advance", "verify", "clear",
          "import", "import key", "stage", "import anchor"}

NoSave == [at |-> "idle", authorized |-> FALSE]
Saver == [at : {"idle", "commit", "advance"}, authorized : BOOLEAN]

Goto(p, s) == step' = [step EXCEPT ![p] = s]
At(p, s) == step[p] = s

Rows(l, type) == {i \in DOMAIN l : l[i].type = type}

\* expected_authority_snapshot_from_ledger: the last commitment after a full snapshot.
Sealed(l) == Rows(l, "checkpoint") \cup Rows(l, "import") # {}

\* verify_authority_snapshot_connection
SnapshotHolds == Sealed(ledger) /\ Last(ledger).authority = authority

\* _verify_bound_integrity, apart from the bound identity.
ContinuesAnchor == key /\ anchor # Nothing /\ ledger # <<>>
                       /\ IsPrefix(anchor.chain, ledger)

AnchorAt(l) == [kind |-> "anchor", chain |-> l]

\* Variant: sessions that changed since the marker was written are not noticed.
BaselineIgnored == TRUE

\* _validate_pending_bootstrap_context: the live sessions are those committed to.
BaselineHolds == marker.baseline = authority

\* BEGIN IMMEDIATE keeps other writers out while a checkpoint plan is written.
DatabaseFree == \A p \in Processes : ~At(p, "insert")

CanSave(p) == inst.serial => At(p, "idle")

-----------------------------------------------------------------------------
(* Opening: initialize, then bind_production.                              *)

\* A repository that is still bound is verified first, its anchor catching up.
Start(p) ==
    /\ p \in inst.opens /\ At(p, "idle")
    /\ inst.serial => saver[p] = NoSave
    /\ inst.past = "backup" => identity
    /\ bound[p] => ContinuesAnchor /\ SnapshotHolds
    /\ anchor' = IF bound[p] THEN AnchorAt(ledger) ELSE anchor
    /\ db' = TRUE /\ identity' = TRUE
    /\ bound' = [bound EXCEPT ![p] = FALSE]
    /\ Goto(p, "wait")
    /\ UNCHANGED <<inst, ledger, authority, marker, key, lock, ready, saver, spent>>

\* The lock is an exclusive SQLite transaction with a timeout.
LockTimeout(p) ==
    /\ inst.timeouts /\ At(p, "wait") /\ lock # NoProcess
    /\ Goto(p, "idle")
    /\ UNCHANGED <<inst, disk, lock, bound, ready, saver, spent>>

\* _bind_production_locked up to its first branch.  The repository is bound from here
\* on, whatever comes out.
Enter(p) ==
    /\ At(p, "wait") /\ lock = NoProcess
    /\ lock' = p
    /\ bound' = [bound EXCEPT ![p] = TRUE]
    /\ \/ ledger = <<>> /\ anchor = Nothing /\ marker = Nothing /\ ~key /\ Goto(p, "prepare")
       \/ ledger = <<>> /\ anchor = Nothing /\ marker # Nothing /\ Goto(p, "key")
       \/ ledger # <<>> /\ marker # Nothing /\ Goto(p, "resume")
       \/ ledger # <<>> /\ marker = Nothing /\ Goto(p, "open")
    /\ UNCHANGED <<inst, disk, ready, saver, spent>>

\* Protected material without a history is refused.
EnterRefused(p) ==
    /\ At(p, "wait") /\ lock = NoProcess /\ ledger = <<>>
    /\ anchor # Nothing \/ (key /\ marker = Nothing)
    /\ bound' = [bound EXCEPT ![p] = TRUE]
    /\ Goto(p, "idle")
    /\ UNCHANGED <<inst, disk, lock, ready, saver, spent>>

\* Any step that raises: the lock is released, the repository stays bound.
Refuse(p) ==
    /\ Goto(p, "idle") /\ lock' = NoProcess
    /\ UNCHANGED <<inst, disk, bound, ready, saver, spent>>

Proceed(p, s) == Goto(p, s) /\ UNCHANGED <<inst, lock, bound, ready, saver, spent>>

PrepareMarker(p) ==
    /\ At(p, "prepare")
    /\ marker' = [kind |-> "marker", baseline |-> authority, plan |-> NoPlan]
    /\ Proceed(p, "key")
    /\ UNCHANGED <<db, identity, ledger, authority, key, anchor>>

CreateKey(p) ==
    /\ At(p, "key")
    /\ key' = TRUE
    /\ Proceed(p, "genesis")
    /\ UNCHANGED <<db, identity, ledger, authority, marker, anchor>>

\* _create_production_genesis, one transaction
CreateGenesis(p) ==
    /\ At(p, "genesis") /\ DatabaseFree
    /\ IF ledger = <<>> /\ BaselineHolds
       THEN /\ ledger' = <<[type |-> "genesis", authority |-> marker.baseline]>>
            /\ Proceed(p, "anchor")
            /\ UNCHANGED <<db, identity, authority, marker, key, anchor>>
       ELSE Refuse(p)

\* The chain must be the committed genesis, an anchor already there must agree.
WriteFirstAnchor(p) ==
    /\ At(p, "anchor")
    /\ IF /\ Len(ledger) = 1 /\ key
          /\ anchor # Nothing => anchor.chain = ledger
       THEN /\ anchor' = AnchorAt(ledger)
            /\ Proceed(p, "checkpoint")
            /\ UNCHANGED <<db, identity, ledger, authority, marker, key>>
       ELSE Refuse(p)

\* Variant: a bind that died after its checkpoint is not resumed.
ResumeGenesisOnly(p) ==
    /\ At(p, "resume") /\ DatabaseFree
    /\ IF Len(ledger) = 1 /\ BaselineHolds
       THEN Proceed(p, "anchor") /\ UNCHANGED disk
       ELSE Refuse(p)

\* A marker and one row: the bind died before the checkpoint.  Two rows are accepted
\* only if the second is the planned checkpoint.
Resume(p) ==
    LET died == Len(ledger) = 1 /\ BaselineHolds
        planned == /\ Len(ledger) = 2 /\ ledger[2].type = "checkpoint"
                   /\ marker.plan # NoPlan
                   /\ ledger[2].authority = marker.plan.authority
                   /\ BaselineHolds /\ SnapshotHolds
    IN /\ At(p, "resume") /\ DatabaseFree
       /\ \/ died /\ Proceed(p, "anchor") /\ UNCHANGED disk
          \/ planned /\ Proceed(p, "checkpoint") /\ UNCHANGED disk
          \/ ~died /\ ~planned /\ Refuse(p)

\* No marker: an existing production workspace, or a marker lost too early.
OpenExisting(p) ==
    /\ At(p, "open")
    /\ IF ContinuesAnchor
       THEN /\ anchor' = AnchorAt(ledger)
            /\ \/ Len(ledger) > 1 /\ Proceed(p, "checkpoint")
               \/ /\ Len(ledger) = 1
                  /\ Goto(p, "idle") /\ lock' = NoProcess
                  /\ UNCHANGED <<inst, bound, ready, saver, spent>>
            /\ UNCHANGED <<db, identity, ledger, authority, marker, key>>
       ELSE Refuse(p)

\* Variant: without a marker every bind seals the sessions once more.
EnsureCheckpointAgain(p) ==
    /\ At(p, "checkpoint") /\ DatabaseFree
    /\ ledger' = Append(ledger, [type |-> "checkpoint", authority |-> authority])
    /\ Proceed(p, "advance")
    /\ UNCHANGED <<db, identity, authority, marker, key, anchor>>

\* _ensure_authority_checkpoint up to the insertion of a planned checkpoint.
EnsureCheckpoint(p) ==
    LET present == Rows(ledger, "checkpoint") # {}
        matches == /\ marker.plan # NoPlan /\ SnapshotHolds
                   /\ \A i \in Rows(ledger, "checkpoint") :
                        ledger[i].authority = marker.plan.authority
        committed == marker # Nothing
    IN /\ At(p, "checkpoint") /\ DatabaseFree
       /\ \/ /\ ~committed /\ present
             /\ Proceed(p, "verify") /\ UNCHANGED disk
          \/ /\ ~committed /\ ~present
             /\ ledger' = Append(ledger, [type |-> "checkpoint", authority |-> authority])
             /\ Proceed(p, "advance")
             /\ UNCHANGED <<db, identity, authority, marker, key, anchor>>
          \/ /\ committed /\ BaselineHolds /\ present /\ matches
             /\ Proceed(p, "advance") /\ UNCHANGED disk
          \/ /\ committed /\ BaselineHolds /\ ~present
             /\ marker' = IF marker.plan = NoPlan
                          THEN [marker EXCEPT !.plan = [kind |-> "plan",
                                                        authority |-> authority]]
                          ELSE marker
             /\ Proceed(p, "insert")
             /\ UNCHANGED <<db, identity, ledger, authority, key, anchor>>
          \/ /\ committed /\ (BaselineHolds => present /\ ~matches)
             /\ Refuse(p)

InsertCheckpoint(p) ==
    /\ At(p, "insert")
    /\ IF marker.plan.authority = authority /\ Len(ledger) = 1
       THEN /\ ledger' = Append(ledger, [type |-> "checkpoint",
                                         authority |-> marker.plan.authority])
            /\ Proceed(p, "advance")
            /\ UNCHANGED <<db, identity, authority, marker, key, anchor>>
       ELSE Refuse(p)

\* _advance_anchor proves the mutable authority before it authenticates the new head.
AdvanceAnchor(p) ==
    /\ At(p, "advance")
    /\ IF SnapshotHolds /\ ContinuesAnchor
       THEN /\ anchor' = AnchorAt(ledger)
            /\ Proceed(p, "verify")
            /\ UNCHANGED <<db, identity, ledger, authority, marker, key>>
       ELSE Refuse(p)

\* verify_production_integrity: the anchor may catch up before the authority is found
\* to diverge.
VerifyWorkspace(p) ==
    /\ At(p, "verify")
    /\ anchor' = IF ContinuesAnchor THEN AnchorAt(ledger) ELSE anchor
    /\ IF ContinuesAnchor /\ SnapshotHolds
       THEN Proceed(p, "clear")
       ELSE /\ Goto(p, "idle") /\ lock' = NoProcess
            /\ UNCHANGED <<inst, bound, ready, saver, spent>>
    /\ UNCHANGED <<db, identity, ledger, authority, marker, key>>

\* The last thing a bind does: it drops the commitment and reports success.
ClearMarker(p) ==
    /\ At(p, "clear")
    /\ marker' = Nothing
    /\ ready' = [ready EXCEPT ![p] = TRUE]
    /\ Goto(p, "idle") /\ lock' = NoProcess
    /\ UNCHANGED <<inst, db, identity, ledger, authority, key, anchor, bound, saver, spent>>

Bind(p) ==
    \/ Enter(p) \/ EnterRefused(p) \/ LockTimeout(p)
    \/ PrepareMarker(p) \/ CreateKey(p) \/ CreateGenesis(p) \/ WriteFirstAnchor(p)
    \/ Resume(p) \/ OpenExisting(p)
    \/ EnsureCheckpoint(p) \/ InsertCheckpoint(p) \/ AdvanceAnchor(p)
    \/ VerifyWorkspace(p) \/ ClearMarker(p)

-----------------------------------------------------------------------------
(* Saving through the repository of a process that serves calls.           *)

\* initialize: a bound repository is verified, one that is not bound is not.
\* save_authorized_session refuses a repository that is not bound, save_session does
\* not.
BeginSave(p, authorized) ==
    /\ ready[p] /\ saver[p] = NoSave /\ CanSave(p)
    /\ spent.saves < inst.saves
    /\ bound[p] => ContinuesAnchor /\ SnapshotHolds
    /\ authorized => bound[p]
    /\ anchor' = IF bound[p] THEN AnchorAt(ledger) ELSE anchor
    /\ saver' = [saver EXCEPT ![p] = [at |-> "commit", authorized |-> authorized]]
    /\ spent' = [spent EXCEPT !.saves = @ + 1]
    /\ UNCHANGED <<inst, db, identity, ledger, authority, marker, key, lock, step, bound, ready>>

\* Variant: the sessions are written, the ledger row is left out.
CommitStateOnly(p) ==
    /\ saver[p].at = "commit" /\ DatabaseFree
    /\ \E a \in Authority : authority' = a
    /\ saver' = [saver EXCEPT ![p].at = "advance"]
    /\ UNCHANGED <<inst, db, identity, ledger, marker, key, anchor, lock, step, bound, ready,
                   spent>>

\* One transaction: the sessions, and a ledger row if the repository is bound by now.
CommitSave(p) ==
    /\ saver[p].at = "commit" /\ DatabaseFree
    /\ \/ /\ bound[p] \/ ~saver[p].authorized
          /\ \E a \in Authority :
               /\ authority' = a
               /\ ledger' = IF bound[p]
                            THEN Append(ledger, [type |-> "save", authority |-> a])
                            ELSE ledger
          /\ saver' = [saver EXCEPT ![p].at = "advance"]
       \/ /\ ~bound[p] /\ saver[p].authorized
          /\ saver' = [saver EXCEPT ![p] = NoSave]
          /\ UNCHANGED <<ledger, authority>>
    /\ UNCHANGED <<inst, db, identity, marker, key, anchor, lock, step, bound, ready, spent>>

AdvanceAfterSave(p) ==
    /\ saver[p].at = "advance"
    /\ anchor' = IF bound[p] /\ SnapshotHolds /\ ContinuesAnchor
                 THEN AnchorAt(ledger) ELSE anchor
    /\ saver' = [saver EXCEPT ![p] = NoSave]
    /\ UNCHANGED <<inst, db, identity, ledger, authority, marker, key, lock, step, bound, ready,
                   spent>>

-----------------------------------------------------------------------------
(* Importing a backup, erasing, dying, and changes the program did not make.*)

\* restore of a fresh target: nothing there but a backup file.
BeginImport(p) ==
    /\ inst.past = "backup" /\ p \in inst.opens /\ At(p, "idle")
    /\ ~db /\ ~identity
    /\ identity' = TRUE
    /\ Goto(p, "import")
    /\ UNCHANGED <<inst, db, ledger, authority, marker, key, anchor, lock, bound, ready,
                   saver, spent>>

\* An empty target, once more; nothing keeps another process from opening it after this.
ImportTarget(p) ==
    /\ At(p, "import") /\ ~db
    /\ Proceed(p, "import key")
    /\ UNCHANGED disk

ImportKey(p) ==
    /\ At(p, "import key")
    /\ key' = TRUE
    /\ Proceed(p, "stage")
    /\ UNCHANGED <<db, identity, ledger, authority, marker, anchor>>

\* The staged copy with its import row is verified and put in place in one rename.
PlaceImport(p) ==
    /\ At(p, "stage")
    /\ \E a \in Authority :
         /\ authority' = a
         /\ ledger' = <<[type |-> "genesis", authority |-> a],
                        [type |-> "checkpoint", authority |-> a],
                        [type |-> "import", authority |-> a]>>
    /\ db' = TRUE
    /\ bound' = [bound EXCEPT ![p] = TRUE]
    /\ Goto(p, "import anchor")
    /\ UNCHANGED <<inst, identity, marker, key, anchor, lock, ready, saver, spent>>

AnchorImport(p) ==
    /\ At(p, "import anchor")
    /\ anchor' = AnchorAt(ledger)
    /\ Goto(p, "idle")
    /\ UNCHANGED <<inst, db, identity, ledger, authority, marker, key, lock, bound, ready, saver,
                   spent>>

\* An import that raises takes its identity back, and its key if there is no database.
FailImport(p) ==
    /\ step[p] \in {"import", "import key", "stage", "import anchor"}
    /\ identity' = FALSE
    /\ key' = (key /\ db)
    /\ Goto(p, "idle")
    /\ UNCHANGED <<inst, db, ledger, authority, marker, anchor, lock, bound, ready, saver,
                   spent>>

Import(p) ==
    \/ ImportTarget(p) \/ ImportKey(p) \/ PlaceImport(p) \/ AnchorImport(p)
    \/ FailImport(p)

\* delete: root and integrity directory go, and with them the identity that names them.
Erase ==
    /\ db \/ identity
    /\ \A p \in Processes : At(p, "idle") /\ ~ready[p]
    /\ inst.past = "backup"
    /\ db' = FALSE /\ identity' = FALSE /\ ledger' = <<>> /\ marker' = Nothing
    /\ key' = FALSE /\ anchor' = Nothing
    /\ bound' = [p \in Processes |-> FALSE]
    /\ UNCHANGED <<inst, authority, lock, step, ready, saver, spent>>

\* The process ends, at any point; the lock goes with its connection.
Crash(p) ==
    /\ spent.crashes < inst.crashes
    /\ ~At(p, "idle") \/ ready[p]
    /\ spent' = [spent EXCEPT !.crashes = @ + 1]
    /\ Goto(p, "idle")
    /\ lock' = IF lock = p THEN NoProcess ELSE lock
    /\ bound' = [bound EXCEPT ![p] = FALSE]
    /\ ready' = [ready EXCEPT ![p] = FALSE]
    /\ saver' = [saver EXCEPT ![p] = NoSave]
    /\ UNCHANGED <<inst, disk>>

\* Another program writes to the sessions.
Edit ==
    /\ spent.edits < inst.edits /\ db /\ DatabaseFree
    /\ \E a \in Authority \ {authority} : authority' = a
    /\ spent' = [spent EXCEPT !.edits = @ + 1]
    /\ UNCHANGED <<inst, db, identity, ledger, marker, key, anchor, lock, step, bound, ready,
                   saver>>

-----------------------------------------------------------------------------
\* A legacy workspace was bound by a release that wrote no checkpoint.
Init ==
    /\ inst \in Instances
    /\ authority \in Authority
    /\ ledger = IF inst.past = "legacy"
                THEN <<[type |-> "genesis", authority |-> authority],
                       [type |-> "save", authority |-> authority]>>
                ELSE <<>>
    /\ db = (inst.past # "backup") /\ identity = (inst.past # "backup")
    /\ key = (inst.past = "legacy")
    /\ anchor = IF inst.past = "legacy" THEN AnchorAt(ledger) ELSE Nothing
    /\ marker = Nothing
    /\ lock = NoProcess
    /\ step = [p \in Processes |-> "idle"]
    /\ bound = [p \in Processes |-> FALSE]
    /\ ready = [p \in Processes |-> FALSE]
    /\ saver = [p \in Processes |-> NoSave]
    /\ spent = [crashes |-> 0, edits |-> 0, saves |-> 0]

Next ==
    \/ \E p \in Processes :
         \/ Start(p) \/ Bind(p)
         \/ \E authorized \in BOOLEAN : BeginSave(p, authorized)
         \/ CommitSave(p) \/ AdvanceAfterSave(p)
         \/ BeginImport(p) \/ Import(p)
         \/ Crash(p)
    \/ Edit \/ Erase

Spec == Init /\ [][Next]_vars

\* A bind and an import run to their end unless the process dies.  Whoever has not got
\* the workspace open tries again; nobody is obliged to save, edit, import or erase.
Fairness == \A p \in Processes :
    /\ WF_vars(Bind(p)) /\ WF_vars(Import(p))
    /\ WF_vars(~ready[p] /\ Start(p))

FairSpec == Spec /\ Fairness

-----------------------------------------------------------------------------
(* Properties                                                              *)

TypeOK ==
    /\ inst \in Instances
    /\ db \in BOOLEAN /\ identity \in BOOLEAN /\ key \in BOOLEAN
    /\ ledger \in Seq(Row) /\ authority \in Authority
    /\ marker \in Marker \cup {Nothing}
    /\ anchor # Nothing => anchor.chain \in Seq(Row)
    /\ lock \in Processes \cup {NoProcess}
    /\ step \in [Processes -> Steps]
    /\ bound \in [Processes -> BOOLEAN] /\ ready \in [Processes -> BOOLEAN]
    /\ saver \in [Processes -> Saver]

\* One process has the workspace to itself.
OneProcess == Cardinality(inst.opens) <= 1

\* The anchor never authenticates a chain the database does not hold, whoever wrote
\* it and wherever the program died (write_anchor in bind, import and save); unless
\* another process opens the empty target while a backup is imported into it, whose
\* rename then replaces the database that process has begun to found.
AnchorNeverAhead ==
    (inst.past = "backup" => OneProcess) =>
        (anchor # Nothing => IsPrefix(anchor.chain, ledger))

\* The commitment of a first bind is given up only when the anchor covers the authority
\* checkpoint (_hold_bootstrap_marker): without it a workspace is refused, or would be
\* sealed over whatever its sessions hold then.
SealedBeforeForgotten ==
    (marker = Nothing /\ Len(ledger) \in 1..2 /\ Rows(ledger, "save") = {})
        => anchor # Nothing /\ Sealed(anchor.chain)

\* The first checkpoint seals the very authority the marker committed to before the
\* genesis was written: no change in between, in however many attempts, is sealed.
CheckpointSealsCommitment ==
    (Len(ledger) > 1 /\ ledger[2].type = "checkpoint")
        => ledger[2].authority = ledger[1].authority

\* However many processes bind at once or die doing so, a workspace is founded once.
FoundedOnce ==
    /\ Cardinality(Rows(ledger, "genesis")) <= 1
    /\ Cardinality(Rows(ledger, "checkpoint")) <= 1

\* Before anybody else writes to the sessions they are what the ledger accounts for.
Accounted == (spent.edits = 0 /\ Sealed(ledger)) => SnapshotHolds

\* The same, for processes whose threads take turns and whose binds do not time out: a
\* bind that waited for the lock in vain leaves its repository unbound.
AccountedWhenSerial == inst.serial /\ (inst.timeouts => OneProcess) => Accounted

\* However binds, imports, saves and crashes interleave, the workspace stays of one piece:
\* every part has its type, the anchor is behind the ledger, the sessions are accounted for.
WorkspaceHangsTogether == TypeOK /\ AnchorNeverAhead /\ AccountedWhenSerial

\* docs/architecture/production-persistence-and-audit.md, line 136: an authority
\* mutation and its ledger row commit together.  A bind in another thread leaves the
\* repository unbound for a while, and save_session then commits without a row.
MutationHasItsRow == Accounted

\* A commitment once made is neither replaced nor revised, by a retry or by another
\* process: only its plan is added, once.
CommitmentStands ==
    [][(marker # Nothing /\ marker' # Nothing) =>
          /\ marker'.baseline = marker.baseline
          /\ marker.plan \in {NoPlan, marker'.plan}]_vars

\* The commitment of a first bind holds to the end: it stands unrevised, it is given up
\* only when it is sealed and anchored, and what is sealed is what was committed to.
CommitmentKept ==
    [](SealedBeforeForgotten /\ CheckpointSealsCommitment) /\ CommitmentStands

\* An import cut off once it had made a key: its key or its database stays behind
\* without an anchor, and only erasing the workspace helps.
ImportCut ==
    inst.past = "backup" /\ marker = Nothing /\ anchor = Nothing /\ (key \/ ledger # <<>>)

\* Wherever opening a workspace died, opening it again succeeds in the end, unless its
\* sessions were changed meanwhile, an import was cut off and nobody erased it, or it
\* replaced the database another process had begun to found.
OpensInTheEnd ==
    \/ inst.past = "backup" /\ ~OneProcess
    \/ <>(\E p \in Processes : ready[p])
    \/ <>(spent.edits > 0)
    \/ <>[]ImportCut
    \/ []<>~db

\* Every bind comes to an end: a lock left by another is released or given up on.
BindEnds ==
    \A p \in Processes :
        (inst.timeouts /\ step[p] = "wait") ~> step[p] = "idle"

\* A bind that waits ends, and one that died is made good by a later one.
BindsSucceedOrEnd == OpensInTheEnd /\ BindEnds
=============================================================================

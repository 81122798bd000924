-------------------------- MODULE AuditLedgerProofs --------------------------
(***************************************************************************)
(* For any number of operations, crashes, restores and rollbacks: the      *)
(* mutable authority is always the one the last ledger row commits to (the *)
(* invariant LInv); the anchor file is sound, a workspace at rest can be   *)
(* opened, and acknowledged ledgers never forget one another (AnchorInv).  *)
(***************************************************************************)
EXTENDS AuditLedger, TLAPS, SequenceTheorems, FiniteSetTheorems

NatRow == [id : Nat, authority : Nat]
Anchors == [seq : Int, head : Int]

\* Operation without the bounds.
Activity == [kind : {"verify", "commit", "restore"}, step : Steps, late : BOOLEAN,
             id : Nat, own : Seq(Nat), seen : Seq(NatRow), held : Anchors,
             read : Nat, file : {"none", "tmp", "anchor", "orphan"}, stage : Seq(NatRow)]

\* An operation that will write an anchor has read a ledger, one that will swap has
\* staged one.
Prepared(a) ==
    /\ a.step \in {"anchor", "row", "open", "write"} => a.seen # <<>>
    /\ a.step = "swap" => a.stage # <<>>

Typed(f) == f \in [Operations -> Activity] /\ \A t \in Operations : Prepared(f[t])

Accountable(d) ==
    /\ d \in [ledger : Seq(NatRow) \ {<<>>}, authority : Nat]
    /\ d.authority = Expected(d.ledger)

LInv ==
    /\ Accountable(db) /\ Accountable(backup)
    /\ anchor \in Anchors /\ tmp \in Anchors
    /\ Typed(op)
    /\ spent \in [rows : Nat, restores : Nat, crashes : Nat, rollbacks : Nat]

-----------------------------------------------------------------------------
(* Ledgers                                                                 *)

\* What a ledger expects after a row is what that row commits to.
LEMMA ExpectedOfAppend ==
    ASSUME NEW ledger \in Seq(NatRow), NEW row \in NatRow
    PROVE  /\ Append(ledger, row) \in Seq(NatRow) \ {<<>>}
           /\ Expected(Append(ledger, row)) = row.authority
  BY AppendProperties, LenProperties DEF Expected

\* A ledger that is not empty has an anchor, and an expectation.
LEMMA LastRow ==
    ASSUME NEW ledger \in Seq(NatRow), ledger # <<>>
    PROVE  /\ AnchorOf(ledger) \in Anchors
           /\ Expected(ledger) \in Nat
           /\ IdsOf(ledger) \in Seq(Nat)
  <1>1. Len(ledger) \in Nat /\ Len(ledger) \in 1..Len(ledger)
    BY EmptySeq, LenProperties
  <1>2. ledger[Len(ledger)] \in NatRow
    BY <1>1, ElementOfSeq
  <1>3. IdsOf(ledger) \in [1..Len(ledger) -> Nat]
    <2>1. \A i \in 1..Len(ledger) : ledger[i] \in NatRow
      BY ElementOfSeq
    <2> QED BY <2>1 DEF IdsOf, NatRow
  <1>4. IdsOf(ledger) \in Seq(Nat)
    BY <1>1, <1>3, SeqDef
  <1> QED BY <1>1, <1>2, <1>4 DEF AnchorOf, Expected, NatRow, Anchors

-----------------------------------------------------------------------------
(* What operations do to what they remember.                               *)

\* Doing nothing is an activity.
LEMMA IdleFits == Idle \in Activity /\ Prepared(Idle)
  BY DEF Idle, Activity, Prepared, Steps, Empty, Anchors

\* Dying, failing and finishing leave an idle operation.
LEMMA IdleKeeps ==
    ASSUME NEW f, Typed(f), NEW t \in Operations
    PROVE  Typed([f EXCEPT ![t] = Idle])
  <1> QED BY IdleFits DEF Typed

\* One operation may take on any activity that is prepared for its step.
LEMMA OneKeeps ==
    ASSUME NEW f, Typed(f), NEW t \in Operations, NEW a \in Activity, Prepared(a)
    PROVE  Typed([f EXCEPT ![t] = a])
  BY DEF Typed

\* Moving to a step that needs nothing new.
LEMMA GotoKeeps ==
    ASSUME NEW f, Typed(f), NEW t \in Operations, NEW step \in Steps,
           step \in {"row", "open", "write"} => f[t].seen # <<>>,
           step \notin {"anchor", "swap"}
    PROVE  Typed([f EXCEPT ![t].step = step])
  <1> DEFINE a == [f[t] EXCEPT !.step = step]
  <1>1. a \in Activity
    BY DEF Typed, Activity
  <1>2. Prepared(a)
    BY DEF Typed, Activity, Prepared
  <1>3. [f EXCEPT ![t].step = step] = [f EXCEPT ![t] = a]
    OBVIOUS
  <1> HIDE DEF a
  <1> QED BY <1>1, <1>2, <1>3, OneKeeps

\* Renaming the temporary file only moves descriptors.
LEMMA RenamedKeeps ==
    ASSUME Typed(op) PROVE Typed(Renamed)
  <1> SUFFICES ASSUME NEW u \in Operations
               PROVE  Renamed[u] \in Activity /\ Prepared(Renamed[u])
    BY DEF Typed, Renamed
  <1>1. op[u] \in Activity /\ Prepared(op[u])
    BY DEF Typed
  <1>2. \/ Renamed[u] = [op[u] EXCEPT !.file = "anchor"]
        \/ Renamed[u] = [op[u] EXCEPT !.file = "orphan"]
        \/ Renamed[u] = op[u]
    BY DEF Renamed
  <1> QED BY <1>1, <1>2 DEF Activity, Prepared

\* After the anchor was found in place or written.
LEMMA CheckedKeeps ==
    ASSUME NEW f, Typed(f), NEW t \in Operations, AnchorChecked(t, f)
    PROVE  Typed(op')
  <1>1. CASE op[t].late
    BY <1>1, IdleKeeps DEF AnchorChecked
  <1>2. CASE ~op[t].late
    <2>1. op' = [f EXCEPT ![t].step = "sessions"]
      BY <1>2 DEF AnchorChecked
    <2>2. "sessions" \in Steps /\ "sessions" \notin {"row", "open", "write", "anchor", "swap"}
      BY DEF Steps
    <2>3. Typed([f EXCEPT ![t].step = "sessions"])
      BY <2>2, GotoKeeps, Zenon
    <2> QED BY <2>1, <2>3
  <1> QED BY <1>1, <1>2

-----------------------------------------------------------------------------
(* Steps that leave the files alone.                                       *)

\* What no step of verification changes.
Kept == UNCHANGED <<db, backup, spent>>

\* Files that stay and operations that stay typed keep the invariant.
LEMMA QuietKeeps ==
    ASSUME LInv, Kept, Typed(op'), anchor' \in Anchors, tmp' \in Anchors
    PROVE  LInv'
  BY DEF LInv, Kept, Accountable, Typed, Prepared, Expected

LEMMA FilesKeep ==
    ASSUME LInv, UNCHANGED <<db, anchor, tmp, backup>>, Typed(op'),
           spent' \in [rows : Nat, restores : Nat, crashes : Nat, rollbacks : Nat]
    PROVE  LInv'
  BY DEF LInv, Accountable, Typed, Prepared, Expected

\* A step to idle.
LEMMA FailKeeps ==
    ASSUME LInv, NEW t \in Operations, Fail(t)
    PROVE  Typed(op')
  BY IdleKeeps DEF LInv, Fail

\* A step that only moves the program counter.
LEMMA MoveKeeps ==
    ASSUME LInv, NEW t \in Operations, NEW step \in Steps, Goto(t, step),
           step \in {"row", "open", "write"} => op[t].seen # <<>>,
           step \notin {"anchor", "swap"}
    PROVE  Typed(op')
  <1>1. op' = [op EXCEPT ![t].step = step]
    BY DEF Goto
  <1>2. Typed(op)
    BY DEF LInv
  <1>3. Typed([op EXCEPT ![t].step = step])
    BY <1>2, GotoKeeps, Zenon
  <1> QED BY <1>1, <1>3

\* An operation starts with a row of its own and nothing read.
LEMMA StartKeeps ==
    ASSUME LInv, NEW t \in Operations, NEW kind \in {"verify", "commit", "restore"},
           Start(t, kind)
    PROVE  LInv'
  <1> DEFINE id == IF kind # "verify" THEN spent.rows + 1 ELSE 0
             a == [Idle EXCEPT !.kind = kind, !.step = "chain", !.id = id]
  <1>1. id \in Nat
    BY DEF LInv
  <1>2. op' = [op EXCEPT ![t] = a]
    BY DEF Start
  <1> HIDE DEF id
  <1>a. "chain" \in Steps
    BY DEF Steps
  <1>b. a \in Activity
    BY <1>1, <1>a, IdleFits DEF Activity
  <1>c. a.step = "chain"
    BY IdleFits DEF Activity
  <1>3. a \in Activity /\ Prepared(a)
    BY <1>b, <1>c DEF Prepared
  <1> HIDE DEF a
  <1>4. Typed(op')
    BY <1>2, <1>3, OneKeeps DEF LInv
  <1>5. spent' \in [rows : Nat, restores : Nat, crashes : Nat, rollbacks : Nat]
    <2> DEFINE rows == spent.rows + IF kind # "verify" THEN 1 ELSE 0
               restores == spent.restores + IF kind = "restore" THEN 1 ELSE 0
    <2>1. spent.rows \in Nat /\ spent.restores \in Nat
      BY DEF LInv
    <2>2. rows \in Nat /\ restores \in Nat
      BY <2>1
    <2>3. spent' = [spent EXCEPT !.rows = rows, !.restores = restores]
      BY DEF Start
    <2> HIDE DEF rows, restores
    <2> QED BY <2>2, <2>3 DEF LInv
  <1> QED BY <1>4, <1>5, FilesKeep DEF Start

\* A crash only forgets.
LEMMA CrashKeeps ==
    ASSUME LInv, NEW t \in Operations, Crash(t)
    PROVE  LInv'
  <1>1. Typed(op')
    BY IdleKeeps DEF LInv, Crash
  <1>2. spent' \in [rows : Nat, restores : Nat, crashes : Nat, rollbacks : Nat]
    BY DEF Crash, LInv
  <1> QED BY <1>1, <1>2, FilesKeep DEF Crash

\* The chain is read whole, and it is never empty.
LEMMA ReadChainKeeps ==
    ASSUME LInv, NEW t \in Operations, ReadChain(t)
    PROVE  LInv'
  <1> DEFINE a == [op[t] EXCEPT !.seen = db.ledger, !.step = "anchor"]
  <1>1. op' = [op EXCEPT ![t] = a]
    BY DEF ReadChain, LInv, Typed
  <1>a. db.ledger \in Seq(NatRow) /\ db.ledger # <<>> /\ op[t] \in Activity
    BY DEF LInv, Typed, Accountable
  <1>2. a \in Activity
    BY <1>a DEF Activity, Steps
  <1>3. Prepared(a)
    BY <1>a DEF Activity, Prepared
  <1> HIDE DEF a
  <1>4. Typed(op')
    BY <1>1, <1>2, <1>3, OneKeeps DEF LInv
  <1> QED BY <1>4, QuietKeeps DEF ReadChain, Kept, LInv

\* Comparing with the anchor: done, a look at the anchored row, or a failure.
LEMMA ReadAnchorKeeps ==
    ASSUME LInv, NEW t \in Operations, ReadAnchor(t)
    PROVE  LInv'
  <1>1. Typed(op)
    BY DEF LInv
  <1>2. CASE AnchorChecked(t, op)
    <2>1. Typed(op')
      BY <1>1, <1>2, CheckedKeeps
    <2> QED BY <2>1, QuietKeeps DEF ReadAnchor, Kept, LInv
  <1>3. CASE op' = [op EXCEPT ![t].held = anchor, ![t].step = "row"]
    <2> DEFINE a == [op[t] EXCEPT !.held = anchor, !.step = "row"]
    <2>1. op' = [op EXCEPT ![t] = a]
      BY <1>1, <1>3 DEF Typed
    <2>2. a \in Activity
      BY ZenonT(30) DEF LInv, Typed, Activity, Steps
    <2>3. Prepared(a)
      BY DEF LInv, Typed, Activity, Prepared, ReadAnchor, At
    <2> HIDE DEF a
    <2>4. Typed(op')
      BY <1>1, <2>1, <2>2, <2>3, OneKeeps
    <2> QED BY <2>4, QuietKeeps DEF ReadAnchor, Kept, LInv
  <1>4. CASE Fail(t)
    <2>1. Typed(op')
      BY <1>4, FailKeeps
    <2> QED BY <2>1, QuietKeeps DEF ReadAnchor, Kept, LInv
  <1> QED BY <1>2, <1>3, <1>4 DEF ReadAnchor

\* Looking up the anchored row: on to the writing, or a failure.
LEMMA CheckRowKeeps ==
    ASSUME LInv, NEW t \in Operations, CheckRow(t)
    PROVE  LInv'
  <1>1. CASE Goto(t, "open")
    <2>1. op[t].seen # <<>>
      BY DEF LInv, Typed, Prepared, CheckRow, At
    <2>2. "open" \in Steps /\ "open" \notin {"anchor", "swap"}
      BY DEF Steps
    <2>3. Typed(op')
      BY <1>1, <2>1, <2>2, MoveKeeps, Zenon
    <2> QED BY <2>3, QuietKeeps DEF CheckRow, Kept, LInv
  <1>2. CASE Fail(t)
    <2>1. Typed(op')
      BY <1>2, FailKeeps
    <2> QED BY <2>1, QuietKeeps DEF CheckRow, Kept, LInv
  <1> QED BY <1>1, <1>2 DEF CheckRow

-----------------------------------------------------------------------------
(* Steps that write files.                                                 *)

\* Opening the temporary file truncates it.
LEMMA OpenTmpKeeps ==
    ASSUME LInv, NEW t \in Operations, OpenTmp(t)
    PROVE  LInv'
  <1> DEFINE a == [op[t] EXCEPT !.file = "tmp", !.step = "write"]
  <1>1. op[t] \in Activity /\ op[t].seen # <<>>
    BY DEF LInv, Typed, Prepared, OpenTmp, At
  <1>2. op' = [op EXCEPT ![t] = a]
    BY DEF OpenTmp, LInv, Typed
  <1>3. a \in Activity
    BY <1>1 DEF Activity, Steps
  <1>4. Prepared(a)
    BY <1>1 DEF Activity, Prepared
  <1> HIDE DEF a
  <1>5. Typed(op')
    BY <1>2, <1>3, <1>4, OneKeeps DEF LInv
  <1>6. Empty \in Anchors
    BY DEF Empty, Anchors
  <1> QED BY <1>5, <1>6, QuietKeeps DEF OpenTmp, Kept, LInv

\* What is written is the anchor of the ledger that was read.
LEMMA WriteTmpKeeps ==
    ASSUME LInv, NEW t \in Operations, WriteTmp(t)
    PROVE  LInv'
  <1> DEFINE a == [op[t] EXCEPT !.file = "none", !.step = "replace"]
  <1>1. op[t] \in Activity /\ op[t].seen # <<>>
    BY DEF LInv, Typed, Prepared, WriteTmp, At
  <1>2. op' = [op EXCEPT ![t] = a]
    BY DEF WriteTmp, LInv, Typed
  <1>3. a \in Activity
    BY <1>1 DEF Activity, Steps
  <1>4. Prepared(a)
    BY <1>1 DEF Activity, Prepared
  <1> HIDE DEF a
  <1>5. Typed(op')
    BY <1>2, <1>3, <1>4, OneKeeps DEF LInv
  <1>6. op[t].seen \in Seq(NatRow)
    BY <1>1 DEF Activity
  <1>7. AnchorToWrite(t) \in Anchors
    BY <1>1, <1>6, LastRow DEF AnchorToWrite
  <1>8. tmp' \in Anchors /\ anchor' \in Anchors
    BY <1>7 DEF WriteTmp, LInv
  <1> QED BY <1>5, <1>8, QuietKeeps DEF WriteTmp, Kept

\* The rename makes the temporary file the anchor, or fails for want of one.
LEMMA ReplaceAnchorKeeps ==
    ASSUME LInv, NEW t \in Operations, ReplaceAnchor(t)
    PROVE  LInv'
  <1>1. CASE anchor' = tmp /\ tmp' = Missing /\ AnchorChecked(t, Renamed)
    <2>1. Typed(Renamed)
      BY RenamedKeeps DEF LInv
    <2>2. Typed(op')
      BY <1>1, <2>1, CheckedKeeps
    <2>3. Missing \in Anchors
      BY DEF Missing, Anchors
    <2> QED BY <1>1, <2>2, <2>3, QuietKeeps DEF ReplaceAnchor, Kept, LInv
  <1>2. CASE Fail(t) /\ UNCHANGED <<anchor, tmp>>
    <2>1. Typed(op')
      BY <1>2, FailKeeps
    <2> QED BY <1>2, <2>1, QuietKeeps DEF ReplaceAnchor, Kept, LInv
  <1> QED BY <1>1, <1>2 DEF ReplaceAnchor

-----------------------------------------------------------------------------
(* The mutable authority.                                                  *)

\* The mutable authority is read on its own.
LEMMA ReadSessionsKeeps ==
    ASSUME LInv, NEW t \in Operations, ReadSessions(t)
    PROVE  LInv'
  <1> DEFINE a == [op[t] EXCEPT !.read = db.authority, !.step = "rows"]
  <1>1. op[t] \in Activity /\ db.authority \in Nat
    BY DEF LInv, Typed, Accountable
  <1>2. op' = [op EXCEPT ![t] = a]
    BY DEF ReadSessions, LInv, Typed
  <1>3. a \in Activity
    BY <1>1 DEF Activity, Steps
  <1>4. Prepared(a)
    BY <1>1 DEF Activity, Prepared
  <1> HIDE DEF a
  <1>5. Typed(op')
    BY <1>2, <1>3, <1>4, OneKeeps DEF LInv
  <1> QED BY <1>5, QuietKeeps DEF ReadSessions, Kept, LInv

\* After both reads an operation goes on, starts over, finishes or fails.
LEMMA ReadRowsKeeps ==
    ASSUME LInv, NEW t \in Operations, ReadRows(t)
    PROVE  LInv'
  <1>1. \/ \E step \in {"chain", "commit", "stage"} : Goto(t, step)
        \/ Fail(t)
    BY DEF ReadRows, Proceed, Fail
  <1>2. Typed(op')
    <2>1. CASE Fail(t)
      BY <2>1, FailKeeps
    <2>2. ASSUME NEW step \in {"chain", "commit", "stage"}, Goto(t, step)
          PROVE  Typed(op')
      <3>1. /\ step \in Steps
            /\ step \notin {"anchor", "swap"} /\ step \notin {"row", "open", "write"}
        BY DEF Steps
      <3> QED BY <2>2, <3>1, MoveKeeps, Zenon
    <2> QED BY <1>1, <2>1, <2>2
  <1> QED BY <1>2, QuietKeeps DEF ReadRows, Kept, LInv

\* A transaction writes the state and the row that commits to it.
LEMMA CommitKeeps ==
    ASSUME LInv, NEW t \in Operations, Commit(t)
    PROVE  LInv'
  <1> DEFINE row == [id |-> op[t].id, authority |-> op[t].id]
             longer == Append(db.ledger, row)
             a == [op[t] EXCEPT !.late = TRUE, !.own = IdsOf(longer), !.step = "sessions"]
  <1>1. op[t] \in Activity /\ db.ledger \in Seq(NatRow)
    BY DEF LInv, Typed, Accountable
  <1>2. row \in NatRow
    BY <1>1 DEF Activity, NatRow
  <1>3. db' = [ledger |-> longer, authority |-> row.authority]
    BY DEF Commit, Committed
  <1>4. op' = [op EXCEPT ![t] = a]
    <2>1. db'.ledger = longer
      BY <1>3
    <2> HIDE DEF longer
    <2> QED BY <2>1 DEF Commit, LInv, Typed
  <1> HIDE DEF row
  <1>5. longer \in Seq(NatRow) \ {<<>>} /\ Expected(longer) = row.authority
    BY <1>1, <1>2, ExpectedOfAppend
  <1> HIDE DEF longer
  <1>6. Accountable(db')
    BY <1>2, <1>3, <1>5 DEF Accountable, NatRow
  <1>7. IdsOf(longer) \in Seq(Nat)
    BY <1>5, LastRow
  <1>8. a \in Activity
    BY <1>1, <1>7 DEF Activity, Steps
  <1>9. Prepared(a)
    BY <1>1 DEF Activity, Prepared
  <1> HIDE DEF a
  <1>10. Typed(op')
    BY <1>4, <1>8, <1>9, OneKeeps DEF LInv
  <1>11. Accountable(backup')
    BY DEF Commit, LInv, Accountable, Expected
  <1> QED BY <1>6, <1>10, <1>11 DEF Commit, LInv

\* A restore extends a copy of the live ledger.
LEMMA StageKeeps ==
    ASSUME LInv, NEW t \in Operations, Stage(t)
    PROVE  LInv'
  <1> DEFINE row == [id |-> op[t].id, authority |-> backup.authority]
             longer == Append(db.ledger, row)
             a == [op[t] EXCEPT !.stage = longer, !.step = "swap"]
  <1>1. op[t] \in Activity /\ db.ledger \in Seq(NatRow) /\ backup.authority \in Nat
    BY DEF LInv, Typed, Accountable
  <1>2. row \in NatRow
    BY <1>1 DEF Activity, NatRow
  <1>3. op' = [op EXCEPT ![t] = a]
    BY DEF Stage, ReadBackup, LInv, Typed
  <1> HIDE DEF row
  <1>4. longer \in Seq(NatRow) /\ longer # <<>>
    BY <1>1, <1>2, ExpectedOfAppend
  <1> HIDE DEF longer
  <1>5. a \in Activity
    BY <1>1, <1>4 DEF Activity, Steps
  <1>6. Prepared(a)
    BY <1>1, <1>4 DEF Activity, Prepared
  <1> HIDE DEF a
  <1>7. Typed(op')
    BY <1>3, <1>5, <1>6, OneKeeps DEF LInv
  <1> QED BY <1>7, QuietKeeps DEF Stage, ReadBackup, Kept, LInv

\* What is swapped in carries the authority its last row commits to.
LEMMA SwapKeeps ==
    ASSUME LInv, NEW t \in Operations, Swap(t)
    PROVE  LInv'
  <1> DEFINE stage == op[t].stage
             a == [op[t] EXCEPT !.late = TRUE, !.own = IdsOf(stage),
                                !.stage = <<>>, !.step = "sessions"]
  <1>1. op[t] \in Activity /\ stage # <<>>
    BY DEF LInv, Typed, Prepared, Swap, At
  <1>2. stage \in Seq(NatRow)
    BY <1>1 DEF Activity
  <1>3. op' = [op EXCEPT ![t] = a]
    BY DEF Swap, LInv, Typed
  <1>4. db' = [ledger |-> stage, authority |-> Expected(stage)]
    BY DEF Swap, Swapped
  <1> HIDE DEF stage
  <1>5. Expected(stage) \in Nat /\ IdsOf(stage) \in Seq(Nat)
    BY <1>1, <1>2, LastRow
  <1>6. Accountable(db')
    BY <1>1, <1>2, <1>4, <1>5 DEF Accountable
  <1>7. <<>> \in Seq(NatRow)
    BY EmptySeq
  <1>8. a \in Activity
    BY <1>1, <1>5, <1>7 DEF Activity, Steps
  <1>9. Prepared(a)
    BY <1>1 DEF Activity, Prepared
  <1> HIDE DEF a
  <1>10. Typed(op')
    BY <1>3, <1>8, <1>9, OneKeeps DEF LInv
  <1>11. Accountable(backup')
    BY DEF Swap, LInv, Accountable, Expected
  <1> QED BY <1>6, <1>10, <1>11 DEF Swap, LInv

\* A backup is a copy of the database.
LEMMA BackupKeeps ==
    ASSUME LInv, Backup
    PROVE  LInv'
  BY DEF Backup, LInv, Accountable, Expected, Typed, Prepared

\* A rollback puts back a copy that was consistent when it was taken.
LEMMA RollbackKeeps ==
    ASSUME LInv, Rollback
    PROVE  LInv'
  <1>1. spent' \in [rows : Nat, restores : Nat, crashes : Nat, rollbacks : Nat]
    BY DEF Rollback, LInv
  <1> QED BY <1>1 DEF Rollback, LInv, Accountable, Expected, Typed, Prepared

-----------------------------------------------------------------------------

\* A workspace right after bootstrap.
LEMMA InitHolds == Init => LInv
  <1> SUFFICES ASSUME Init PROVE LInv
    OBVIOUS
  <1> DEFINE row == [id |-> 1, authority |-> 1]
  <1>1. <<row>> \in Seq(NatRow) /\ <<row>> # <<>> /\ Len(<<row>>) = 1 /\ <<row>>[1] = row
    BY DEF NatRow
  <1>2. Accountable(db)
    BY <1>1 DEF Init, Accountable, Expected
  <1>3. Accountable(backup)
    BY <1>2 DEF Init
  <1>4. anchor \in Anchors /\ tmp \in Anchors
    BY DEF Init, Anchors, Missing
  <1>5. Typed(op)
    BY IdleFits DEF Init, Typed
  <1>6. spent \in [rows : Nat, restores : Nat, crashes : Nat, rollbacks : Nat]
    BY DEF Init
  <1> QED BY <1>2, <1>3, <1>4, <1>5, <1>6 DEF LInv

\* Every step keeps the invariant.
LEMMA NextKeeps == LInv /\ [Next]_vars => LInv'
  <1> SUFFICES ASSUME LInv, [Next]_vars PROVE LInv'
    OBVIOUS
  <1>1. ASSUME NEW t \in Operations, NEW kind \in {"verify", "commit", "restore"},
               Start(t, kind)
        PROVE  LInv'
    BY <1>1, StartKeeps
  <1>2. ASSUME NEW t \in Operations, Step(t) PROVE LInv'
    BY <1>2, ReadChainKeeps, ReadAnchorKeeps, CheckRowKeeps, OpenTmpKeeps,
       WriteTmpKeeps, ReplaceAnchorKeeps, ReadSessionsKeeps, ReadRowsKeeps,
       CommitKeeps, StageKeeps, SwapKeeps DEF Step
  <1>3. ASSUME NEW t \in Operations, Crash(t) PROVE LInv'
    BY <1>3, CrashKeeps
  <1>4. CASE Backup
    BY <1>4, BackupKeeps
  <1>5. CASE Rollback
    BY <1>5, RollbackKeeps
  <1>6. CASE UNCHANGED vars
    BY <1>6, FilesKeep DEF vars, LInv, Typed, Prepared
  <1> QED BY <1>1, <1>2, <1>3, <1>4, <1>5, <1>6 DEF Next

\* The inductive invariant holds of every behaviour.
LEMMA Invariance == Spec => []LInv
  BY InitHolds, NextKeeps, PTL DEF Spec

\* The mutable tables are always the ones the last ledger row commits to: no
\* interleaving of verifications, commits and restores, no crash between two of their
\* steps and no older copy put back leaves state and row apart (the single transactions
\* of storage/production.py, the sealed stage of storage/recovery.py).
THEOREM AuthorityAccountedHolds == Spec => []AuthorityAccounted
  <1>1. LInv => AuthorityAccounted
    BY DEF LInv, Accountable, AuthorityAccounted
  <1> QED BY <1>1, Invariance, PTL

-----------------------------------------------------------------------------
(* What the bounds say: a row is issued once, whatever is interrupted.     *)

\* A ledger on disk or in memory.
Chain(ledger) ==
    /\ ledger \in Seq(Row) /\ Len(ledger) >= 1
    /\ \A i, j \in 1..Len(ledger) : ledger[i].id = ledger[j].id => i = j

Ids(ledger) == {ledger[i].id : i \in 1..Len(ledger)}

\* What an operation is doing, with the bounds.
Active(a) ==
    /\ a \in Operation
    /\ a.seen = <<>> \/ Chain(a.seen)
    /\ a.stage = <<>> \/ Chain(a.stage)
    /\ a.step \in {"anchor", "row", "open", "write", "replace"} => a.seen # <<>>
    /\ a.step = "swap" => a.stage # <<>>
    /\ a.step = "commit" => a.kind = "commit" /\ ~a.late
    /\ a.step \in {"stage", "swap"} => a.kind = "restore" /\ ~a.late

\* It holds the number of a row that is not in the database yet.
Holding(a) == a.kind # "verify" /\ a.step # "idle" /\ ~a.late

FilesTyped ==
    /\ db \in Database /\ Chain(db.ledger) /\ backup \in Database /\ Chain(backup.ledger)
    /\ anchor \in AnchorFile /\ tmp \in AnchorFile \cup {Missing}
    /\ \A c \in acked : c \in Seq(Rows)

BoundsKept ==
    /\ budget \in Budgets
    /\ spent \in [rows : 1..budget.rows, restores : Nat, crashes : Nat, rollbacks : Nat]

OpsActive == op \in [Operations -> Operation] /\ \A t \in Operations : Active(op[t])

Issued ==
    /\ Ids(db.ledger) \subseteq 1..spent.rows /\ Ids(backup.ledger) \subseteq 1..spent.rows
    /\ \A t \in Operations : Ids(op[t].stage) \subseteq 1..spent.rows

Unissued ==
    \A t \in Operations : Holding(op[t]) =>
        /\ op[t].id \in 1..spent.rows
        /\ op[t].id \notin Ids(db.ledger) /\ op[t].id \notin Ids(backup.ledger)
        /\ \A u \in Operations \ {t} :
              /\ op[t].id \notin Ids(op[u].stage)
              /\ Holding(op[u]) => op[u].id # op[t].id

OthersIdle == \A t \in Operations \ budget.operations : op[t] = Idle

BaseInv == FilesTyped /\ BoundsKept /\ OpsActive /\ Issued /\ Unissued /\ OthersIdle

-----------------------------------------------------------------------------
(* What anchors and chains say of a ledger.                                *)

Fits(file, ledger) == file.seq \in 1..Len(ledger) /\ ledger[file.seq].id = file.head

Begins(chain, ledger) ==
    Len(chain) <= Len(ledger) /\ \A i \in 1..Len(chain) : chain[i] = ledger[i].id

Extends(ledger, older) ==
    Len(older) <= Len(ledger) /\ \A i \in 1..Len(older) : older[i] = ledger[i]

\* Nothing was put back so far.
Growing == spent.rollbacks = 0 /\ spent.restores = 0

Grown(a) ==
    /\ a.kind # "restore" /\ Extends(db.ledger, a.seen)
    /\ a.late => Begins(a.own, db.ledger)

GrowingInv ==
    Growing =>
        /\ \A t \in Operations : Grown(op[t])
        /\ anchor = Empty \/ Fits(anchor, db.ledger)
        /\ tmp \in {Empty, Missing} \/ Fits(tmp, db.ledger)
        /\ \A c \in acked : Begins(c, db.ledger)

\* What a single operation knows: between its steps nobody else moves anything.
Solo(a) ==
    /\ a.step \in {"anchor", "row", "open", "write", "replace"} => a.seen = db.ledger
    /\ a.step = "row" => a.held = anchor
    /\ a.step \notin {"idle", "chain", "anchor", "row"} => Fits(anchor, db.ledger)
    /\ a.file = IF a.step = "write" THEN "tmp" ELSE "none"
    /\ a.step = "replace" => tmp = AnchorOf(a.seen)
    /\ a.step = "swap" => \E row \in Row : row.id = a.id /\ a.stage = Append(db.ledger, row)
    /\ a.step # "idle" /\ a.late => a.own = IdsOf(db.ledger)

\* Two ledgers with the same row at a place are the same up to it.
Branches(one, other) ==
    \A i \in 1..Len(one) : i <= Len(other) /\ one[i].id = other[i].id =>
        \A j \in 1..i : one[j].id = other[j].id

\* A ledger the anchor fits has not forgotten what was acknowledged.
Guards(ledger) == Fits(anchor, ledger) => \A c \in acked : Begins(c, ledger)

AloneInv ==
    Alone =>
        /\ \A t \in Operations : Solo(op[t])
        /\ anchor.seq >= 1
        /\ spent.rollbacks = 0 => Fits(anchor, db.ledger)
        /\ Branches(db.ledger, backup.ledger)
        /\ Guards(db.ledger) /\ Guards(backup.ledger)
        /\ \A c \in acked : Len(c) <= anchor.seq
        /\ \A c, d \in acked : IsPrefix(c, d) \/ IsPrefix(d, c)

AnchorInv == BaseInv /\ GrowingInv /\ AloneInv

-----------------------------------------------------------------------------
(* Lemmas about ledgers and chains.                                        *)

\* The numbers of a ledger are different, so there is room for them within the bound.
LEMMA ChainIsBounded ==
    ASSUME NEW ledger, Chain(ledger)
    PROVE  Len(ledger) \in 1..MaxRows
  <1> DEFINE n == Len(ledger)
             f == [i \in 1..n |-> ledger[i].id]
  <1>1. ledger \in Seq(Row) /\ n \in Nat /\ n >= 1 /\ MaxRows \in Nat
    BY LedgerAssumption DEF Chain
  <1>2. \A i \in 1..n : ledger[i].id \in 1..MaxRows
    <2>1. \A i \in 1..n : ledger[i] \in Row
      BY <1>1
    <2>2. QED
      BY <2>1 DEF Row, Rows
  <1>3. f \in Injection(1..n, 1..MaxRows)
    <2>1. f \in [1..n -> 1..MaxRows]
      BY <1>2
    <2>2. \A i, j \in 1..n : f[i] = f[j] => i = j
      BY DEF Chain
    <2>3. QED
      BY <2>1, <2>2 DEF Injection, IsInjective
  <1>4. IsFiniteSet(1..MaxRows) /\ IsFiniteSet(1..n)
        /\ Cardinality(1..n) = n /\ Cardinality(1..MaxRows) = MaxRows
    <2>1. Cardinality(1..n) = IF 1 > n THEN 0 ELSE n - 1 + 1
      BY <1>1, FS_Interval
    <2>2. Cardinality(1..MaxRows) = IF 1 > MaxRows THEN 0 ELSE MaxRows - 1 + 1
      BY <1>1, FS_Interval
    <2>3. IsFiniteSet(1..MaxRows) /\ IsFiniteSet(1..n)
      BY <1>1, FS_Interval
    <2>4. QED
      BY <1>1, <2>1, <2>2, <2>3
  <1>5. Cardinality(1..n) <= Cardinality(1..MaxRows)
    BY <1>3, <1>4, FS_Injection
  <1>6. QED
    BY <1>1, <1>4, <1>5

LEMMA ChainHasAnchor ==
    ASSUME NEW ledger, Chain(ledger)
    PROVE  /\ ledger \in Seq(Row) /\ ledger # <<>> /\ Len(ledger) \in Nat /\ Len(ledger) >= 1
           /\ AnchorOf(ledger) \in AnchorFile /\ AnchorOf(ledger) # Empty
           /\ AnchorOf(ledger) # Missing
           /\ AnchorOf(ledger).seq = Len(ledger) /\ Fits(AnchorOf(ledger), ledger)
           /\ IdsOf(ledger) \in Seq(Rows) /\ Len(IdsOf(ledger)) = Len(ledger)
           /\ Begins(IdsOf(ledger), ledger)
           /\ Expected(ledger) \in Rows
  <1>1. ledger \in Seq(Row) /\ Len(ledger) \in 1..MaxRows /\ Len(ledger) \in Nat
        /\ Len(ledger) >= 1 /\ Len(ledger) \in 1..Len(ledger)
    BY ChainIsBounded DEF Chain
  <1>2. ledger[Len(ledger)] \in Row /\ \A i \in 1..Len(ledger) : ledger[i] \in Row
    BY <1>1
  <1>3. AnchorOf(ledger).seq = Len(ledger) /\ AnchorOf(ledger).head = ledger[Len(ledger)].id
    BY DEF AnchorOf
  <1>4. ledger[Len(ledger)].id \in 0..MaxRows /\ Len(ledger) \in 0..MaxRows
    BY <1>1, <1>2, LedgerAssumption DEF Row, Rows
  <1>5. AnchorOf(ledger) \in AnchorFile
    BY <1>4 DEF AnchorOf, AnchorFile
  <1>6. AnchorOf(ledger) # Empty /\ AnchorOf(ledger) # Missing
    BY <1>1, <1>3 DEF Empty, Missing
  <1>7. IdsOf(ledger) \in Seq(Rows) /\ Len(IdsOf(ledger)) = Len(ledger)
    <2>1. IdsOf(ledger) \in [1..Len(ledger) -> Rows]
      BY <1>2 DEF IdsOf, Row
    <2>2. QED
      BY <1>1, <2>1
  <1>8. Begins(IdsOf(ledger), ledger)
    BY <1>1, <1>7 DEF Begins, IdsOf
  <1>9. Fits(AnchorOf(ledger), ledger)
    BY <1>1, <1>3 DEF Fits
  <1>10. Expected(ledger) \in Rows
    BY <1>2 DEF Expected, Row
  <1>11. ledger # <<>>
    BY <1>1
  <1>12. QED
    BY <1>1, <1>3, <1>5, <1>6, <1>7, <1>8, <1>9, <1>10, <1>11

LEMMA ChainGrows ==
    ASSUME NEW ledger, Chain(ledger), NEW row \in Row, row.id \notin Ids(ledger)
    PROVE  /\ Chain(Append(ledger, row)) /\ Extends(Append(ledger, row), ledger)
           /\ Ids(Append(ledger, row)) = Ids(ledger) \cup {row.id}
           /\ Len(Append(ledger, row)) = Len(ledger) + 1
           /\ Append(ledger, row)[Len(ledger) + 1] = row
  <1> DEFINE n == Len(ledger)
             more == Append(ledger, row)
  <1>1. /\ n \in Nat /\ n >= 1 /\ more \in Seq(Row) /\ Len(more) = n + 1 /\ more[n + 1] = row
        /\ \A i \in 1..n : more[i] = ledger[i]
    BY DEF Chain
  <1>2. 1..(n + 1) = (1..n) \cup {n + 1}
    BY <1>1
  <1> HIDE DEF more
  <1>3. \A i \in 1..n : more[i].id # row.id
    BY <1>1 DEF Ids
  <1>4. Chain(more)
    <2> SUFFICES ASSUME NEW i \in 1..(n + 1), NEW j \in 1..(n + 1), more[i].id = more[j].id
                 PROVE  i = j
      BY <1>1 DEF Chain
    <2>1. i \in 1..n \/ i = n + 1
      BY <1>2
    <2>2. j \in 1..n \/ j = n + 1
      BY <1>2
    <2>3. QED
      BY <1>1, <1>3, <2>1, <2>2 DEF Chain
  <1>5. Extends(more, ledger)
    BY <1>1 DEF Extends
  <1>6. Ids(more) = Ids(ledger) \cup {row.id}
    <2>1. \A x \in Ids(more) : x \in Ids(ledger) \cup {row.id}
      BY <1>1, <1>2 DEF Ids
    <2>2. \A x \in Ids(ledger) \cup {row.id} : x \in Ids(more)
      BY <1>1, <1>2 DEF Ids
    <2>3. QED
      BY <2>1, <2>2
  <1>7. QED
    BY <1>1, <1>4, <1>5, <1>6 DEF more

LEMMA LongerKeeps ==
    ASSUME NEW ledger, Chain(ledger), NEW more, Chain(more), Extends(more, ledger)
    PROVE  /\ \A file : Fits(file, ledger) => Fits(file, more)
           /\ \A c \in Seq(Rows) : Begins(c, ledger) => Begins(c, more)
           /\ \A older \in Seq(Row) : Extends(ledger, older) => Extends(more, older)
  <1>1. Len(ledger) \in Nat /\ Len(more) \in Nat /\ Len(ledger) <= Len(more)
        /\ \A i \in 1..Len(ledger) : ledger[i] = more[i] /\ i \in 1..Len(more)
    BY DEF Chain, Extends
  <1>2. \A file : Fits(file, ledger) => Fits(file, more)
    BY <1>1 DEF Fits
  <1>3. ASSUME NEW c \in Seq(Rows), Begins(c, ledger)
        PROVE  Begins(c, more)
    <2>1. Len(c) \in Nat /\ \A i \in 1..Len(c) : i \in 1..Len(ledger)
      BY <1>1, <1>3 DEF Begins
    <2>2. QED
      BY <1>1, <1>3, <2>1 DEF Begins
  <1>4. ASSUME NEW older \in Seq(Row), Extends(ledger, older)
        PROVE  Extends(more, older)
    <2>1. Len(older) \in Nat /\ \A i \in 1..Len(older) : i \in 1..Len(ledger)
      BY <1>1, <1>4 DEF Extends
    <2>2. QED
      BY <1>1, <1>4, <2>1 DEF Extends
  <1>5. QED
    BY <1>2, <1>3, <1>4

\* Two beginnings of one ledger are nested.
LEMMA BeginningsNest ==
    ASSUME NEW ledger, Chain(ledger), NEW c \in Seq(Rows), NEW d \in Seq(Rows),
           Begins(c, ledger), Begins(d, ledger)
    PROVE  IsPrefix(c, d) \/ IsPrefix(d, c)
  <1>1. Len(c) \in Nat /\ Len(d) \in Nat
    OBVIOUS
  <1>2. ASSUME NEW x \in Seq(Rows), NEW y \in Seq(Rows), Begins(x, ledger), Begins(y, ledger),
               Len(x) <= Len(y)
        PROVE  IsPrefix(x, y)
    <2>1. \A i \in 1..Len(x) : i \in 1..Len(y) /\ x[i] = y[i]
      BY <1>2 DEF Begins
    <2>2. SubSeq(x, 1, Len(x)) = SubSeq(y, 1, Len(x))
      <3>1. /\ SubSeq(x, 1, Len(x)) = [i \in 1..Len(x) |-> x[i]]
            /\ SubSeq(y, 1, Len(x)) = [i \in 1..Len(x) |-> y[i]]
        BY <1>2
      <3>2. QED
        BY <2>1, <3>1
    <2>3. QED
      BY <1>2, <2>2 DEF IsPrefix
  <1>3. QED
    BY <1>1, <1>2

LEMMA BranchesGrow ==
    ASSUME NEW one, Chain(one), NEW other, Chain(other), Branches(one, other),
           NEW row \in Row, row.id \notin Ids(one), row.id \notin Ids(other)
    PROVE  Branches(Append(one, row), other)
  <1> DEFINE n == Len(one)
             more == Append(one, row)
  <1>1. /\ n \in Nat /\ Len(more) = n + 1 /\ more[n + 1] = row
        /\ \A i \in 1..n : more[i] = one[i]
    BY DEF Chain
  <1> HIDE DEF more
  <1>2. SUFFICES ASSUME NEW i \in 1..(n + 1), i <= Len(other), more[i].id = other[i].id
                 PROVE  \A j \in 1..i : more[j].id = other[j].id
    BY <1>1 DEF Branches, more
  <1>3. Len(other) \in Nat
    BY DEF Chain
  <1>4. i # n + 1
    BY <1>1, <1>2, <1>3 DEF Ids
  <1>5. i \in 1..n /\ \A j \in 1..i : j \in 1..n
    BY <1>1, <1>4
  <1>6. QED
    BY <1>1, <1>2, <1>5 DEF Branches

\* A ledger the anchor of another fits begins with that one.
LEMMA AnchoredAgree ==
    ASSUME NEW one, Chain(one), NEW other, Chain(other), Branches(one, other),
           Fits(AnchorOf(one), other), NEW c \in Seq(Rows), Begins(c, one)
    PROVE  Begins(c, other)
  <1>1. /\ Len(one) \in Nat /\ Len(other) \in Nat /\ Len(c) \in Nat /\ Len(c) <= Len(one)
        /\ Len(one) \in 1..Len(one) /\ Len(one) <= Len(other)
        /\ other[Len(one)].id = one[Len(one)].id
    BY DEF Chain, Fits, AnchorOf, Begins
  <1>2. \A j \in 1..Len(one) : one[j].id = other[j].id
    BY <1>1 DEF Branches
  <1>3. \A i \in 1..Len(c) : i \in 1..Len(one)
    BY <1>1
  <1>4. QED
    BY <1>1, <1>2, <1>3 DEF Begins

-----------------------------------------------------------------------------
(* Steps that leave database and backup alone.                             *)

Tallies == [rows : 1..budget.rows, restores : Nat, crashes : Nat, rollbacks : Nat]

\* An operation goes on without a new row.
Steady(a, b) ==
    /\ Active(a) /\ a.stage \in {b.stage, <<>>}
    /\ Holding(a) => Holding(b) /\ a.id = b.id

SameTallies ==
    /\ spent' \in Tallies
    /\ spent'.rows = spent.rows /\ spent'.restores = spent.restores
    /\ spent'.rollbacks = spent.rollbacks

LEMMA ActiveIsTyped == \A a : Active(a) => a \in Operation
  BY DEF Active

LEMMA BaseSteady ==
    ASSUME BaseInv, UNCHANGED <<db, backup, budget>>, SameTallies,
           op' \in [Operations -> Operation],
           \A u \in Operations : Steady(op'[u], op[u]),
           \A u \in Operations \ budget.operations : op'[u] = Idle,
           anchor' \in AnchorFile, tmp' \in AnchorFile \cup {Missing},
           \A c \in acked' : c \in Seq(Rows)
    PROVE  BaseInv'
  <1>1. FilesTyped'
    BY DEF BaseInv, FilesTyped
  <1>2. BoundsKept'
    BY DEF BaseInv, BoundsKept, SameTallies, Tallies
  <1>3. OpsActive'
    BY DEF OpsActive, Steady
  <1>4. Issued'
    <2>1. Ids(<<>>) = {}
      BY DEF Ids
    <2>2. \A u \in Operations : Ids(op'[u].stage) \subseteq 1..spent.rows
      BY <2>1 DEF Steady, BaseInv, Issued
    <2>3. QED
      BY <2>2 DEF BaseInv, Issued, SameTallies
  <1>5. Unissued'
    <2>1. Ids(<<>>) = {}
      BY DEF Ids
    <2>2. \A u \in Operations :
             /\ Holding(op'[u]) => Holding(op[u]) /\ op'[u].id = op[u].id
             /\ \A x : x \notin Ids(op[u].stage) => x \notin Ids(op'[u].stage)
      BY <2>1 DEF Steady
    <2>3. QED
      BY <2>2 DEF BaseInv, Unissued, SameTallies
  <1>6. OthersIdle'
    BY DEF OthersIdle
  <1>7. QED
    BY <1>1, <1>2, <1>3, <1>4, <1>5, <1>6 DEF BaseInv

LEMMA OnlyOneMoves ==
    ASSUME BaseInv, NEW t \in Operations, NEW a, op' = [op EXCEPT ![t] = a],
           Steady(a, op[t]), a = Idle \/ t \in budget.operations
    PROVE  /\ op' \in [Operations -> Operation] /\ op'[t] = a
           /\ \A u \in Operations : u # t => op'[u] = op[u]
           /\ \A u \in Operations : Steady(op'[u], op[u])
           /\ \A u \in Operations \ budget.operations : op'[u] = Idle
  <1>1. op \in [Operations -> Operation] /\ \A u \in Operations : Active(op[u])
    BY DEF BaseInv, OpsActive
  <1>2. a \in Operation
    BY ActiveIsTyped DEF Steady
  <1>3. op' \in [Operations -> Operation]
    BY <1>1, <1>2
  <1>4. \A u \in Operations : op'[u] = IF u = t THEN a ELSE op[u]
    BY <1>1
  <1>5. \A u \in Operations : Steady(op'[u], op[u])
    BY <1>1, <1>4 DEF Steady
  <1>6. \A u \in Operations \ budget.operations : op'[u] = Idle
    BY <1>4 DEF BaseInv, OthersIdle
  <1>7. QED
    BY <1>3, <1>4, <1>5, <1>6

LEMMA OneMoves ==
    ASSUME AnchorInv, NEW t \in Operations, NEW a, op' = [op EXCEPT ![t] = a],
           Steady(a, op[t]), a = Idle \/ t \in budget.operations,
           UNCHANGED <<db, anchor, tmp, backup, acked, budget>>, SameTallies,
           Growing => Grown(a), Alone => Solo(a)
    PROVE  AnchorInv'
  <1>1. /\ op' \in [Operations -> Operation] /\ op'[t] = a
        /\ \A u \in Operations : u # t => op'[u] = op[u]
        /\ \A u \in Operations : Steady(op'[u], op[u])
        /\ \A u \in Operations \ budget.operations : op'[u] = Idle
    BY OnlyOneMoves DEF AnchorInv
  <1>2. BaseInv'
    BY <1>1, BaseSteady DEF AnchorInv, BaseInv, FilesTyped
  <1>3. GrowingInv'
    <2>1. Growing' = Growing
      BY DEF Growing, SameTallies
    <2>2. \A u \in Operations : Growing => Grown(op'[u])
      BY <1>1 DEF AnchorInv, GrowingInv
    <2>3. Growing => \A u \in Operations : Grown(op[u])'
      BY <2>2 DEF Grown
    <2>4. QED
      BY <2>1, <2>3 DEF AnchorInv, GrowingInv
  <1>4. AloneInv'
    <2>1. Alone' = Alone
      BY DEF Alone
    <2>2. \A u \in Operations : Alone => Solo(op'[u])
      BY <1>1 DEF AnchorInv, AloneInv
    <2>3. Alone => \A u \in Operations : Solo(op[u])'
      BY <2>2 DEF Solo
    <2>4. QED
      BY <2>1, <2>3 DEF AnchorInv, AloneInv, SameTallies, Guards
  <1>5. QED
    BY <1>2, <1>3, <1>4 DEF AnchorInv

LEMMA IdleIsFine ==
    /\ Idle \in Operation /\ Active(Idle) /\ ~Holding(Idle) /\ Idle.stage = <<>>
    /\ Idle.step = "idle" /\ Idle.kind = "verify"
    /\ \A b : Steady(Idle, b)
    /\ Grown(Idle) /\ Solo(Idle)
  <1>1. MaxRows \in Nat /\ MaxRows >= 1
    BY LedgerAssumption
  <1>2. /\ 0 \in 0..MaxRows /\ <<>> \in Seq(Rows) /\ <<>> \in Seq(Row) /\ Empty \in AnchorFile
        /\ "idle" \in Steps
    BY <1>1 DEF Empty, AnchorFile, Steps
  <1>3. Idle \in Operation
    BY <1>2 DEF Idle, Operation
  <1>4. /\ Idle.kind = "verify" /\ Idle.step = "idle" /\ Idle.late = FALSE /\ Idle.seen = <<>>
        /\ Idle.stage = <<>> /\ Idle.file = "none"
    BY DEF Idle
  <1>5. Active(Idle) /\ ~Holding(Idle) /\ Solo(Idle)
    BY <1>3, <1>4 DEF Active, Holding, Solo
  <1>6. Grown(Idle)
    <2>1. Extends(db.ledger, <<>>)
      BY DEF Extends
    <2>2. QED
      BY <1>4, <2>1 DEF Grown
  <1>7. QED
    BY <1>3, <1>4, <1>5, <1>6 DEF Steady

\* What is known of an operation under way.
LEMMA UnderWay ==
    ASSUME AnchorInv, NEW t \in Operations, op[t].step # "idle"
    PROVE  /\ t \in budget.operations /\ Active(op[t]) /\ op[t] \in Operation
           /\ op \in [Operations -> Operation]
           /\ Growing => Grown(op[t])
           /\ Alone => Solo(op[t]) /\ anchor.seq >= 1
           /\ Chain(db.ledger) /\ db.authority \in Rows /\ Chain(backup.ledger)
           /\ spent \in Tallies /\ anchor \in AnchorFile
  <1>1. t \in budget.operations
    BY IdleIsFine DEF AnchorInv, BaseInv, OthersIdle
  <1>2. Active(op[t]) /\ op[t] \in Operation /\ op \in [Operations -> Operation]
    BY DEF AnchorInv, BaseInv, OpsActive, Active
  <1>3. QED
    BY <1>1, <1>2 DEF AnchorInv, BaseInv, FilesTyped, Database, BoundsKept, Tallies,
                      GrowingInv, AloneInv

LEMMA FailMoves ==
    ASSUME AnchorInv, NEW t \in Operations, Fail(t),
           UNCHANGED <<db, anchor, tmp, backup, acked, spent, budget>>
    PROVE  AnchorInv'
  <1>1. SameTallies
    BY DEF AnchorInv, BaseInv, BoundsKept, Tallies, SameTallies
  <1>2. QED
    BY <1>1, IdleIsFine, OneMoves DEF Fail

LEMMA CrashMoves ==
    ASSUME AnchorInv, NEW t \in Operations, Crash(t)
    PROVE  AnchorInv'
  <1>1. SameTallies
    BY DEF AnchorInv, BaseInv, BoundsKept, Tallies, SameTallies, Crash
  <1>2. QED
    BY <1>1, IdleIsFine, OneMoves DEF Crash

LEMMA ReadChainMoves ==
    ASSUME AnchorInv, NEW t \in Operations, ReadChain(t)
    PROVE  AnchorInv'
  <1> DEFINE b == op[t]
             a == [b EXCEPT !.seen = db.ledger, !.step = "anchor"]
  <1>1. b.step = "chain" /\ UNCHANGED <<db, anchor, tmp, backup, acked, spent, budget>>
    BY DEF ReadChain, At
  <1>2. /\ t \in budget.operations /\ Active(b) /\ b \in Operation /\ op \in [Operations -> Operation]
        /\ Growing => Grown(b)
        /\ Alone => Solo(b)
        /\ Chain(db.ledger) /\ spent \in Tallies
    BY <1>1, UnderWay
  <1>3. op' = [op EXCEPT ![t] = a]
    BY <1>2 DEF ReadChain
  <1>4. "anchor" \in Steps /\ db.ledger \in Seq(Row) /\ db.ledger # <<>>
    BY <1>2, ChainHasAnchor DEF Steps
  <1>5. /\ a \in Operation /\ a.kind = b.kind /\ a.step = "anchor" /\ a.late = b.late
        /\ a.id = b.id /\ a.own = b.own /\ a.seen = db.ledger /\ a.file = b.file
        /\ a.stage = b.stage
    BY <1>2, <1>4 DEF Operation
  <1> HIDE DEF a
  <1>6. Steady(a, b)
    BY <1>1, <1>2, <1>4, <1>5 DEF Steady, Active, Holding
  <1>7. Growing => Grown(a)
    BY <1>2, <1>5 DEF Grown, Extends, Chain
  <1>8. Alone => Solo(a)
    BY <1>1, <1>2, <1>5 DEF Solo
  <1>9. SameTallies
    BY <1>1, <1>2 DEF SameTallies, Tallies
  <1>10. QED
    BY <1>1, <1>2, <1>3, <1>6, <1>7, <1>8, <1>9, OneMoves

\* An operation that only moves its program counter.
LEMMA GotoMoves ==
    ASSUME AnchorInv, NEW t \in Operations, op[t].step # "idle",
           NEW step \in {"chain", "open", "sessions", "commit", "stage"}, Goto(t, step),
           UNCHANGED <<db, anchor, tmp, backup, acked, spent, budget>>,
           step = "open" => op[t].seen # <<>>,
           step = "commit" => op[t].kind = "commit" /\ ~op[t].late,
           step = "stage" => op[t].kind = "restore" /\ ~op[t].late,
           Alone => /\ step # "chain" => Fits(anchor, db.ledger)
                    /\ step = "open" => op[t].seen = db.ledger
                    /\ op[t].file = "none"
    PROVE  AnchorInv'
  <1> DEFINE b == op[t]
             a == [b EXCEPT !.step = step]
  <1>1. /\ t \in budget.operations /\ Active(b) /\ b \in Operation /\ op \in [Operations -> Operation]
        /\ Growing => Grown(b)
        /\ Alone => Solo(b)
        /\ spent \in Tallies
    BY UnderWay
  <1>2. op' = [op EXCEPT ![t] = a]
    BY DEF Goto
  <1>3. /\ a \in Operation /\ a.kind = b.kind /\ a.step = step /\ a.late = b.late
        /\ a.id = b.id /\ a.own = b.own /\ a.seen = b.seen /\ a.file = b.file
        /\ a.stage = b.stage
    BY <1>1 DEF Operation, Steps
  <1> HIDE DEF a
  <1>4. Steady(a, b)
    BY <1>1, <1>3 DEF Steady, Active, Holding
  <1>5. Growing => Grown(a)
    BY <1>1, <1>3 DEF Grown
  <1>6. Alone => Solo(a)
    BY <1>1, <1>3 DEF Solo
  <1>7. SameTallies
    BY <1>1 DEF SameTallies, Tallies
  <1>8. QED
    BY <1>1, <1>2, <1>4, <1>5, <1>6, <1>7, OneMoves

LEMMA CheckRowMoves ==
    ASSUME AnchorInv, NEW t \in Operations, CheckRow(t)
    PROVE  AnchorInv'
  <1>1. op[t].step = "row" /\ UNCHANGED <<db, anchor, tmp, backup, acked, spent, budget>>
    BY DEF CheckRow, At
  <1>2. /\ Active(op[t]) /\ Chain(db.ledger) /\ anchor \in AnchorFile
        /\ Alone => Solo(op[t]) /\ anchor.seq >= 1
    BY <1>1, UnderWay
  <1>3. CASE Fail(t)
    BY <1>1, <1>3, FailMoves
  <1>4. CASE /\ Len(db.ledger) >= op[t].held.seq
             /\ db.ledger[op[t].held.seq].id = op[t].held.head
             /\ Goto(t, "open")
    <2>1. op[t].seen # <<>>
      BY <1>1, <1>2 DEF Active
    <2>2. ASSUME Alone
          PROVE  Fits(anchor, db.ledger) /\ op[t].seen = db.ledger /\ op[t].file = "none"
      <3>1. op[t].held = anchor /\ op[t].seen = db.ledger /\ op[t].file = "none"
        BY <1>1, <1>2, <2>2 DEF Solo
      <3>2. anchor.seq \in Int /\ Len(db.ledger) \in Nat /\ anchor.seq >= 1
        BY <1>2, <2>2, LedgerAssumption DEF AnchorFile, Chain
      <3>3. QED
        BY <1>4, <3>1, <3>2 DEF Fits
    <2>3. QED
      BY <1>1, <1>4, <2>1, <2>2, GotoMoves
  <1>5. QED
    BY <1>3, <1>4 DEF CheckRow

LEMMA ReadSessionsMoves ==
    ASSUME AnchorInv, NEW t \in Operations, ReadSessions(t)
    PROVE  AnchorInv'
  <1> DEFINE b == op[t]
             a == [b EXCEPT !.read = db.authority, !.step = "rows"]
  <1>1. b.step = "sessions" /\ UNCHANGED <<db, anchor, tmp, backup, acked, spent, budget>>
    BY DEF ReadSessions, At
  <1>2. /\ t \in budget.operations /\ Active(b) /\ b \in Operation /\ op \in [Operations -> Operation]
        /\ Growing => Grown(b)
        /\ Alone => Solo(b)
        /\ db.authority \in Rows /\ spent \in Tallies
    BY <1>1, UnderWay
  <1>3. op' = [op EXCEPT ![t] = a]
    BY <1>2 DEF ReadSessions
  <1>4. "rows" \in Steps /\ db.authority \in 0..MaxRows
    BY <1>2, LedgerAssumption DEF Steps, Rows
  <1>5. /\ a \in Operation /\ a.kind = b.kind /\ a.step = "rows" /\ a.late = b.late
        /\ a.id = b.id /\ a.own = b.own /\ a.seen = b.seen /\ a.file = b.file
        /\ a.stage = b.stage
    BY <1>2, <1>4 DEF Operation
  <1> HIDE DEF a
  <1>6. Steady(a, b)
    BY <1>1, <1>2, <1>5 DEF Steady, Active, Holding
  <1>7. Growing => Grown(a)
    BY <1>2, <1>5 DEF Grown
  <1>8. Alone => Solo(a)
    BY <1>1, <1>2, <1>5 DEF Solo
  <1>9. SameTallies
    BY <1>1, <1>2 DEF SameTallies, Tallies
  <1>10. QED
    BY <1>1, <1>2, <1>3, <1>6, <1>7, <1>8, <1>9, OneMoves

LEMMA ReadRowsMoves ==
    ASSUME AnchorInv, NEW t \in Operations, ReadRows(t)
    PROVE  AnchorInv'
  <1>1. op[t].step = "rows" /\ UNCHANGED <<db, anchor, tmp, backup, acked, spent, budget>>
    BY DEF ReadRows, At
  <1>2. Alone => Fits(anchor, db.ledger) /\ op[t].file = "none"
    BY <1>1, UnderWay DEF Solo
  <1>3. CASE Fail(t)
    BY <1>1, <1>3, FailMoves
  <1>4. CASE op[t].late /\ Goto(t, "chain")
    BY <1>1, <1>2, <1>4, GotoMoves
  <1>5. CASE ~op[t].late /\ op[t].kind = "commit" /\ Goto(t, "commit")
    BY <1>1, <1>2, <1>5, GotoMoves
  <1>6. CASE ~op[t].late /\ op[t].kind = "restore" /\ Goto(t, "stage")
    BY <1>1, <1>2, <1>6, GotoMoves
  <1>7. QED
    BY <1>3, <1>4, <1>5, <1>6 DEF ReadRows, Proceed, Fail

-----------------------------------------------------------------------------
(* Steps that check and write the anchor.                                  *)

LEMMA AloneWithOthersIdle ==
    ASSUME AnchorInv, Alone, NEW t \in budget.operations
    PROVE  \A u \in Operations : u # t => op[u] = Idle
  <1>1. budget.operations \subseteq Operations
    BY LedgerAssumption DEF AnchorInv, BaseInv, BoundsKept
  <1>2. IsFiniteSet(budget.operations)
    BY <1>1, LedgerAssumption, FS_Subset
  <1>3. \E x : budget.operations = {x}
    BY <1>2, FS_Singleton DEF Alone
  <1>4. \A u \in Operations : u # t => u \notin budget.operations
    BY <1>3
  <1>5. QED
    BY <1>4 DEF AnchorInv, BaseInv, OthersIdle

\* The same operation, but for where its descriptor points.
Aside(a, b) ==
    /\ a \in Operation /\ a.kind = b.kind /\ a.step = b.step /\ a.late = b.late
    /\ a.id = b.id /\ a.own = b.own /\ a.seen = b.seen /\ a.held = b.held
    /\ a.stage = b.stage

LEMMA RenamedAside ==
    ASSUME op \in [Operations -> Operation], NEW u \in Operations
    PROVE  /\ Aside(Renamed[u], op[u])
           /\ op[u].file = "none" => Renamed[u] = op[u]
  <1>1. op[u] \in Operation
    OBVIOUS
  <1>2. \/ op[u].file = "tmp" /\ Renamed[u] = [op[u] EXCEPT !.file = "anchor"]
        \/ op[u].file = "anchor" /\ Renamed[u] = [op[u] EXCEPT !.file = "orphan"]
        \/ op[u].file \notin {"tmp", "anchor"} /\ Renamed[u] = op[u]
    BY DEF Renamed
  <1>3. CASE op[u].file = "tmp" /\ Renamed[u] = [op[u] EXCEPT !.file = "anchor"]
    BY <1>1, <1>3 DEF Aside, Operation
  <1>4. CASE op[u].file = "anchor" /\ Renamed[u] = [op[u] EXCEPT !.file = "orphan"]
    BY <1>1, <1>4 DEF Aside, Operation
  <1>5. CASE op[u].file \notin {"tmp", "anchor"} /\ Renamed[u] = op[u]
    BY <1>1, <1>5 DEF Aside
  <1>6. QED
    BY <1>2, <1>3, <1>4, <1>5

LEMMA AsideIsSteady ==
    ASSUME NEW a, NEW b, Aside(a, b), Active(b)
    PROVE  Steady(a, b) /\ (Grown(b) => Grown(a))
  BY DEF Aside, Active, Steady, Holding, Grown

\* The anchor is found in place or put there, and the operation finishes or goes on.
LEMMA CheckedMoves ==
    ASSUME AnchorInv, NEW t \in Operations, op[t].step \in {"anchor", "replace"},
           NEW others, others \in [Operations -> Operation],
           \A u \in Operations : Aside(others[u], op[u]),
           \A u \in Operations : op[u].file = "none" => others[u] = op[u],
           AnchorChecked(t, others), UNCHANGED <<db, backup, spent, budget>>,
           anchor' \in AnchorFile, tmp' \in AnchorFile \cup {Missing},
           Growing => /\ anchor' = Empty \/ Fits(anchor', db.ledger)
                      /\ tmp' \in {Empty, Missing} \/ Fits(tmp', db.ledger),
           Alone => Fits(anchor, db.ledger) /\ anchor' = AnchorOf(db.ledger)
    PROVE  AnchorInv'
  <1> DEFINE b == op[t]
             on == [others[t] EXCEPT !.step = "sessions"]
  <1>0. /\ t \in budget.operations /\ Active(b) /\ b \in Operation /\ op \in [Operations -> Operation]
        /\ Growing => Grown(b)
        /\ Alone => Solo(b)
        /\ Chain(db.ledger) /\ Chain(backup.ledger) /\ spent \in Tallies
        /\ \A u \in Operations : Active(op[u])
        /\ Aside(others[t], b) /\ b.step # "idle"
    BY UnderWay DEF AnchorInv, BaseInv, OpsActive
  <1>1. SameTallies
    BY <1>0 DEF SameTallies, Tallies
  <1>2. PICK a : /\ op' = [others EXCEPT ![t] = a]
                 /\ Steady(a, b) /\ (a.file = others[t].file \/ a = Idle)
                 /\ a = Idle \/ (a.step = "sessions" /\ a.late = FALSE)
                 /\ Growing => Grown(a)
    <2>1. CASE b.late
      BY <2>1, IdleIsFine DEF AnchorChecked
    <2>2. CASE ~b.late
      <3>1. op' = [others EXCEPT ![t] = on]
        BY <2>2 DEF AnchorChecked
      <3>2. /\ on \in Operation /\ on.kind = b.kind /\ on.step = "sessions" /\ on.late = FALSE
            /\ on.id = b.id /\ on.own = b.own /\ on.seen = b.seen /\ on.stage = b.stage
            /\ on.file = others[t].file
        BY <1>0, <2>2 DEF Aside, Operation, Steps
      <3> HIDE DEF on
      <3>3. Active(on)
        BY <1>0, <3>2 DEF Active
      <3>6. Steady(on, b)
        BY <1>0, <2>2, <3>2, <3>3 DEF Steady, Holding
      <3>4. Growing => Grown(on)
        BY <1>0, <3>2 DEF Grown
      <3>5. QED
        BY <3>1, <3>2, <3>3, <3>4, <3>6
    <2>3. QED
      BY <2>1, <2>2
  <1>3. acked' = acked \/ (b.late /\ acked' = acked \cup {b.own})
    BY DEF AnchorChecked
  <1>4. /\ op' \in [Operations -> Operation] /\ op'[t] = a
        /\ \A u \in Operations : u # t => op'[u] = others[u]
    BY <1>2 DEF Steady, Active
  <1>5. \A u \in Operations : Steady(op'[u], op[u]) /\ (Growing => Grown(op'[u]))
    <2>1. ASSUME NEW u \in Operations, u # t
          PROVE  Steady(op'[u], op[u]) /\ (Growing => Grown(op'[u]))
      <3>1. Growing => Grown(op[u])
        BY DEF AnchorInv, GrowingInv
      <3>2. Aside(op'[u], op[u]) /\ Active(op[u])
        BY <1>0, <1>4, <2>1
      <3>3. QED
        BY <3>1, <3>2, AsideIsSteady
    <2>2. QED
      BY <1>2, <1>4, <2>1
  <1>6. \A u \in Operations \ budget.operations : op'[u] = Idle
    <2>1. ASSUME NEW u \in Operations \ budget.operations
          PROVE  op'[u] = Idle
      <3>1. op[u] = Idle /\ u # t
        BY <1>0, <2>1 DEF AnchorInv, BaseInv, OthersIdle
      <3>2. op[u].file = "none"
        BY <3>1 DEF Idle
      <3>3. QED
        BY <1>4, <2>1, <3>1, <3>2
    <2>2. QED
      BY <2>1
  <1>7. b.own \in Seq(Rows)
    BY <1>0 DEF Operation
  <1>8. \A c \in acked' : c \in Seq(Rows)
    BY <1>3, <1>7 DEF AnchorInv, BaseInv, FilesTyped
  <1>9. BaseInv'
    BY <1>1, <1>4, <1>5, <1>6, <1>8, BaseSteady DEF AnchorInv
  <1>10. GrowingInv'
    <2>1. Growing' = Growing
      BY <1>1 DEF Growing, SameTallies
    <2>2. Growing => \A u \in Operations : Grown(op[u])'
      BY <1>5 DEF Grown
    <2>3. Growing => \A c \in acked' : Begins(c, db.ledger)
      BY <1>0, <1>3 DEF AnchorInv, GrowingInv, Grown
    <2>4. QED
      BY <2>1, <2>2, <2>3 DEF GrowingInv
  <1>11. AloneInv'
    <2>1. Alone' = Alone
      BY DEF Alone
    <2> SUFFICES ASSUME Alone
                 PROVE  AloneInv'
      BY <2>1 DEF AloneInv
    <2>2. /\ anchor' = AnchorOf(db.ledger) /\ Fits(anchor, db.ledger) /\ Fits(anchor', db.ledger)
          /\ anchor'.seq = Len(db.ledger) /\ anchor'.seq >= 1
      BY <1>0, ChainHasAnchor
    <2>3. \A c \in acked' : Begins(c, db.ledger)
      <3>1. \A c \in acked : Begins(c, db.ledger)
        BY <2>2 DEF AnchorInv, AloneInv, Guards
      <3>2. b.late => Begins(b.own, db.ledger)
        BY <1>0, ChainHasAnchor DEF Solo
      <3>3. QED
        BY <1>3, <3>1, <3>2
    <2>4. Branches(db.ledger, backup.ledger)
      BY DEF AnchorInv, AloneInv
    <2>5. Fits(anchor', backup.ledger) => \A c \in acked' : Begins(c, backup.ledger)
      BY <1>0, <1>8, <2>2, <2>3, <2>4, AnchoredAgree
    <2>6. \A c \in acked' : Len(c) <= anchor'.seq
      BY <2>2, <2>3 DEF Begins
    <2>7. \A c, d \in acked' : IsPrefix(c, d) \/ IsPrefix(d, c)
      BY <1>0, <1>8, <2>3, BeginningsNest
    <2>8. \A u \in Operations : Solo(op[u])'
      <3>1. ASSUME NEW u \in Operations, u # t
            PROVE  op'[u] = Idle
        <4>1. op[u] = Idle
          BY <1>0, <3>1, AloneWithOthersIdle
        <4>2. op[u].file = "none"
          BY <4>1 DEF Idle
        <4>3. QED
          BY <1>4, <3>1, <4>1, <4>2
      <3>2. b.file = "none" /\ others[t] = b
        BY <1>0 DEF Solo
      <3>3. a = Idle \/ (a.step = "sessions" /\ a.late = FALSE /\ a.file = "none")
        BY <1>2, <3>2 DEF Idle
      <3>4. Solo(a)'
        <4>1. CASE a = Idle
          BY <4>1, IdleIsFine DEF Solo, Idle
        <4>2. CASE a.step = "sessions" /\ a.late = FALSE /\ a.file = "none"
          BY <2>2, <4>2 DEF Solo
        <4>3. QED
          BY <3>3, <4>1, <4>2
      <3>5. ASSUME NEW u \in Operations, u # t PROVE Solo(op[u])'
        BY <3>1, <3>5 DEF Solo, Idle
      <3>6. ASSUME NEW u \in Operations, u = t PROVE Solo(op[u])'
        BY <1>4, <3>4, <3>6
      <3>7. QED
        BY <3>5, <3>6
    <2>9. QED
      BY <2>1, <2>2, <2>3, <2>4, <2>5, <2>6, <2>7, <2>8 DEF AloneInv, Guards
  <1>12. QED
    BY <1>9, <1>10, <1>11 DEF AnchorInv

LEMMA ReadAnchorMoves ==
    ASSUME AnchorInv, NEW t \in Operations, ReadAnchor(t)
    PROVE  AnchorInv'
  <1> DEFINE b == op[t]
             a == [b EXCEPT !.held = anchor, !.step = "row"]
  <1>1. b.step = "anchor" /\ UNCHANGED <<db, anchor, tmp, backup, spent, budget>>
    BY DEF ReadAnchor, At
  <1>2. /\ t \in budget.operations /\ Active(b) /\ b \in Operation /\ op \in [Operations -> Operation]
        /\ Growing => Grown(b)
        /\ Alone => Solo(b)
        /\ Chain(db.ledger) /\ spent \in Tallies /\ anchor \in AnchorFile
        /\ tmp \in AnchorFile \cup {Missing}
    BY <1>1, UnderWay DEF AnchorInv, BaseInv, FilesTyped
  <1>3. CASE anchor # Empty /\ AnchorOf(b.seen) = anchor /\ AnchorChecked(t, op)
    <2>1. Growing => /\ anchor' = Empty \/ Fits(anchor', db.ledger)
                     /\ tmp' \in {Empty, Missing} \/ Fits(tmp', db.ledger)
      BY <1>1 DEF AnchorInv, GrowingInv
    <2>2. Alone => Fits(anchor, db.ledger) /\ anchor' = AnchorOf(db.ledger)
      <3>1. Alone => b.seen = db.ledger
        BY <1>1, <1>2 DEF Solo
      <3>2. QED
        BY <1>1, <1>2, <1>3, <3>1, ChainHasAnchor
    <2>3. \A u \in Operations : Aside(op[u], op[u])
      BY <1>2 DEF Aside
    <2>4. anchor' \in AnchorFile /\ tmp' \in AnchorFile \cup {Missing}
      BY <1>1, <1>2
    <2>5. QED
      BY <1>1, <1>2, <1>3, <2>1, <2>2, <2>3, <2>4, CheckedMoves
  <1>4. CASE op' = [op EXCEPT ![t].held = anchor, ![t].step = "row"] /\ UNCHANGED acked
    <2>1. op' = [op EXCEPT ![t] = a]
      BY <1>2, <1>4
    <2>2. /\ a \in Operation /\ a.kind = b.kind /\ a.step = "row" /\ a.late = b.late
          /\ a.id = b.id /\ a.own = b.own /\ a.seen = b.seen /\ a.file = b.file
          /\ a.stage = b.stage /\ a.held = anchor
      BY <1>2 DEF Operation, Steps
    <2> HIDE DEF a
    <2>3. Active(a)
      BY <1>1, <1>2, <2>2 DEF Active
    <2>4. Steady(a, b)
      BY <1>1, <2>2, <2>3 DEF Steady, Holding
    <2>5. Growing => Grown(a)
      BY <1>2, <2>2 DEF Grown
    <2>6. Alone => Solo(a)
      BY <1>1, <1>2, <2>2 DEF Solo
    <2>7. SameTallies
      BY <1>1, <1>2 DEF SameTallies, Tallies
    <2>8. QED
      BY <1>1, <1>2, <1>4, <2>1, <2>4, <2>5, <2>6, <2>7, OneMoves
  <1>5. CASE Fail(t) /\ UNCHANGED acked
    BY <1>1, <1>5, FailMoves
  <1>6. QED
    BY <1>3, <1>4, <1>5 DEF ReadAnchor

\* A step of one operation that touches the anchor's files.
LEMMA FilesMove ==
    ASSUME AnchorInv, NEW t \in Operations, t \in budget.operations, NEW a,
           op' = [op EXCEPT ![t] = a], Steady(a, op[t]),
           UNCHANGED <<db, backup, acked, budget>>, SameTallies,
           anchor' \in AnchorFile, tmp' \in AnchorFile \cup {Missing},
           Growing => /\ Grown(a)
                      /\ anchor' = Empty \/ Fits(anchor', db.ledger)
                      /\ tmp' \in {Empty, Missing} \/ Fits(tmp', db.ledger),
           Alone => anchor' = anchor /\ Solo(a)'
    PROVE  AnchorInv'
  <1>1. /\ op' \in [Operations -> Operation] /\ op'[t] = a
        /\ \A u \in Operations : u # t => op'[u] = op[u]
        /\ \A u \in Operations : Steady(op'[u], op[u])
        /\ \A u \in Operations \ budget.operations : op'[u] = Idle
    BY OnlyOneMoves DEF AnchorInv
  <1>2. BaseInv'
    BY <1>1, BaseSteady DEF AnchorInv, BaseInv, FilesTyped
  <1>3. GrowingInv'
    <2>1. Growing' = Growing
      BY DEF Growing, SameTallies
    <2>2. \A u \in Operations : Growing => Grown(op'[u])
      BY <1>1 DEF AnchorInv, GrowingInv
    <2>3. Growing => \A u \in Operations : Grown(op[u])'
      BY <2>2 DEF Grown
    <2>4. QED
      BY <2>1, <2>3 DEF AnchorInv, GrowingInv
  <1>4. AloneInv'
    <2>1. Alone' = Alone
      BY DEF Alone
    <2> SUFFICES ASSUME Alone
                 PROVE  AloneInv'
      BY <2>1 DEF AloneInv
    <2>2. ASSUME NEW u \in Operations
          PROVE  Solo(op[u])'
      <3>1. CASE u = t
        BY <1>1, <3>1
      <3>2. CASE u # t
        <4>1. op'[u] = Idle
          BY <1>1, <3>2, AloneWithOthersIdle
        <4>2. QED
          BY <4>1 DEF Solo, Idle
      <3>3. QED
        BY <3>1, <3>2
    <2>3. QED
      BY <2>1, <2>2 DEF AnchorInv, AloneInv, SameTallies, Guards
  <1>5. QED
    BY <1>2, <1>3, <1>4 DEF AnchorInv

LEMMA OpenTmpMoves ==
    ASSUME AnchorInv, NEW t \in Operations, OpenTmp(t)
    PROVE  AnchorInv'
  <1> DEFINE b == op[t]
  <1>1. /\ b.step = "open" /\ tmp' = Empty
        /\ UNCHANGED <<db, anchor, backup, acked, spent, budget>>
    BY DEF OpenTmp, At
  <1>2. /\ t \in budget.operations /\ Active(b) /\ b \in Operation /\ op \in [Operations -> Operation]
        /\ Growing => Grown(b)
        /\ Alone => Solo(b)
        /\ spent \in Tallies /\ anchor \in AnchorFile /\ Empty \in AnchorFile
    BY <1>1, UnderWay, LedgerAssumption DEF Empty, AnchorFile
  <1>3. PICK a : a = [b EXCEPT !.file = "tmp", !.step = "write"]
    OBVIOUS
  <1>4. op' = [op EXCEPT ![t] = a]
    BY <1>2, <1>3 DEF OpenTmp
  <1>5. /\ a \in Operation /\ a.kind = b.kind /\ a.step = "write" /\ a.late = b.late
        /\ a.id = b.id /\ a.own = b.own /\ a.seen = b.seen /\ a.file = "tmp"
        /\ a.stage = b.stage
    BY <1>2, <1>3 DEF Operation, Steps
  <1>6. Active(a)
    BY <1>1, <1>2, <1>5 DEF Active
  <1>7. Steady(a, b)
    BY <1>1, <1>5, <1>6 DEF Steady, Holding
  <1>8. Growing => Grown(a) /\ (anchor' = Empty \/ Fits(anchor', db.ledger))
    BY <1>1, <1>2, <1>5 DEF Grown, AnchorInv, GrowingInv
  <1>9. Alone => Solo(a)'
    BY <1>1, <1>2, <1>5 DEF Solo
  <1>10. SameTallies
    BY <1>1, <1>2 DEF SameTallies, Tallies
  <1>11. QED
    BY <1>1, <1>2, <1>4, <1>7, <1>8, <1>9, <1>10, FilesMove

LEMMA WriteTmpMoves ==
    ASSUME AnchorInv, NEW t \in Operations, WriteTmp(t)
    PROVE  AnchorInv'
  <1> DEFINE b == op[t]
             new == AnchorOf(b.seen)
  <1>1. /\ b.step = "write"
        /\ tmp' = IF b.file = "tmp" THEN new ELSE tmp
        /\ anchor' = IF b.file = "anchor" THEN new ELSE anchor
        /\ UNCHANGED <<db, backup, acked, spent, budget>>
    BY DEF WriteTmp, At, AnchorToWrite
  <1>2. /\ t \in budget.operations /\ Active(b) /\ b \in Operation /\ op \in [Operations -> Operation]
        /\ Growing => Grown(b)
        /\ Alone => Solo(b)
        /\ spent \in Tallies /\ anchor \in AnchorFile /\ tmp \in AnchorFile \cup {Missing}
        /\ Chain(db.ledger)
    BY <1>1, UnderWay DEF AnchorInv, BaseInv, FilesTyped
  <1>3. Chain(b.seen)
    BY <1>1, <1>2 DEF Active
  <1>4. new \in AnchorFile /\ Fits(new, b.seen)
    BY <1>3, ChainHasAnchor
  <1>5. Growing => Fits(new, db.ledger)
    BY <1>2, <1>3, <1>4, LongerKeeps DEF Grown
  <1>6. Alone => b.file = "tmp"
    BY <1>1, <1>2 DEF Solo
  <1>7. PICK a : a = [b EXCEPT !.file = "none", !.step = "replace"]
    OBVIOUS
  <1>8. op' = [op EXCEPT ![t] = a]
    BY <1>2, <1>7 DEF WriteTmp
  <1>9. /\ a \in Operation /\ a.kind = b.kind /\ a.step = "replace" /\ a.late = b.late
        /\ a.id = b.id /\ a.own = b.own /\ a.seen = b.seen /\ a.file = "none"
        /\ a.stage = b.stage
    BY <1>2, <1>7 DEF Operation, Steps
  <1> HIDE DEF new
  <1>10. Active(a)
    BY <1>1, <1>2, <1>9 DEF Active
  <1>11. Steady(a, b)
    BY <1>1, <1>9, <1>10 DEF Steady, Holding
  <1>12. anchor' \in AnchorFile /\ tmp' \in AnchorFile \cup {Missing}
    BY <1>1, <1>2, <1>4
  <1>13. Growing => /\ Grown(a)
                    /\ anchor' = Empty \/ Fits(anchor', db.ledger)
                    /\ tmp' \in {Empty, Missing} \/ Fits(tmp', db.ledger)
    BY <1>1, <1>2, <1>5, <1>9 DEF Grown, AnchorInv, GrowingInv
  <1>14. Alone => anchor' = anchor /\ Solo(a)'
    <2>1. Alone => anchor' = anchor /\ tmp' = AnchorOf(a.seen)
      BY <1>1, <1>6, <1>9 DEF new
    <2>2. Alone => b.seen = db.ledger /\ Fits(anchor, db.ledger)
                   /\ (b.late => b.own = IdsOf(db.ledger))
      BY <1>1, <1>2 DEF Solo
    <2>3. QED
      BY <1>1, <1>9, <2>1, <2>2 DEF Solo
  <1>15. SameTallies
    BY <1>1, <1>2 DEF SameTallies, Tallies
  <1>16. QED
    BY <1>1, <1>2, <1>8, <1>11, <1>12, <1>13, <1>14, <1>15, FilesMove

LEMMA ReplaceAnchorMoves ==
    ASSUME AnchorInv, NEW t \in Operations, ReplaceAnchor(t)
    PROVE  AnchorInv'
  <1> DEFINE b == op[t]
  <1>1. b.step = "replace" /\ UNCHANGED <<db, backup, spent, budget>>
    BY DEF ReplaceAnchor, At
  <1>2. /\ Active(b) /\ op \in [Operations -> Operation]
        /\ Alone => Solo(b)
        /\ Chain(db.ledger) /\ tmp \in AnchorFile \cup {Missing}
    BY <1>1, UnderWay DEF AnchorInv, BaseInv, FilesTyped
  <1>3. CASE tmp = Missing /\ Fail(t) /\ UNCHANGED <<anchor, tmp, acked>>
    BY <1>1, <1>3, FailMoves
  <1>4. CASE tmp # Missing /\ anchor' = tmp /\ tmp' = Missing /\ AnchorChecked(t, Renamed)
    <2>1. anchor' \in AnchorFile /\ tmp' \in AnchorFile \cup {Missing}
      BY <1>2, <1>4
    <2>2. Growing => /\ anchor' = Empty \/ Fits(anchor', db.ledger)
                     /\ tmp' \in {Empty, Missing} \/ Fits(tmp', db.ledger)
      BY <1>4 DEF AnchorInv, GrowingInv
    <2>3. Alone => Fits(anchor, db.ledger) /\ anchor' = AnchorOf(db.ledger)
      <3>1. Alone => Fits(anchor, db.ledger) /\ b.seen = db.ledger /\ tmp = AnchorOf(b.seen)
        BY <1>1, <1>2 DEF Solo
      <3>2. QED
        BY <1>4, <3>1
    <2>4. /\ \A u \in Operations : Aside(Renamed[u], op[u])
          /\ \A u \in Operations : op[u].file = "none" => Renamed[u] = op[u]
      BY <1>2, RenamedAside
    <2>5. Renamed \in [Operations -> Operation]
      <3>1. \A u \in Operations : Renamed[u] \in Operation
        BY <2>4 DEF Aside
      <3>2. QED
        BY <3>1 DEF Renamed
    <2>6. QED
      BY <1>1, <1>4, <2>1, <2>2, <2>3, <2>4, <2>5, CheckedMoves
  <1>5. QED
    BY <1>3, <1>4 DEF ReplaceAnchor

-----------------------------------------------------------------------------
(* Steps that issue a row or change the database.                          *)

LEMMA StartMoves ==
    ASSUME AnchorInv, NEW t \in Operations, NEW kind \in {"verify", "commit", "restore"},
           Start(t, kind)
    PROVE  AnchorInv'
  <1> DEFINE writes == kind # "verify"
  <1>1. /\ t \in budget.operations /\ op[t].step = "idle"
        /\ (writes => spent.rows < budget.rows)
        /\ UNCHANGED <<db, anchor, tmp, backup, acked, budget>>
    BY DEF Start, At
  <1>2. /\ op \in [Operations -> Operation] /\ \A u \in Operations : Active(op[u])
        /\ spent \in Tallies /\ budget \in Budgets
    BY DEF AnchorInv, BaseInv, OpsActive, BoundsKept, Tallies
  <1>3. budget.rows \in 1..MaxRows /\ MaxRows \in Nat
    BY <1>2, LedgerAssumption
  <1>4. PICK n : n = IF writes THEN spent.rows + 1 ELSE 0
    OBVIOUS
  <1>5. /\ spent.rows \in Nat /\ spent.rows >= 1 /\ spent.rows <= budget.rows
        /\ spent.rows \in 1..budget.rows
    BY <1>2, <1>3 DEF Tallies
  <1>6. n \in 0..MaxRows
    BY <1>1, <1>3, <1>4, <1>5
  <1>7. PICK a : a = [Idle EXCEPT !.kind = kind, !.step = "chain", !.id = n]
    OBVIOUS
  <1>8. op' = [op EXCEPT ![t] = a]
    BY <1>4, <1>7 DEF Start
  <1>9. /\ a \in Operation /\ a.kind = kind /\ a.step = "chain" /\ a.late = FALSE /\ a.id = n
        /\ a.own = <<>> /\ a.seen = <<>> /\ a.file = "none" /\ a.stage = <<>>
    <2>1. Idle \in Operation /\ "chain" \in Steps
      BY IdleIsFine DEF Steps
    <2>2. a \in Operation /\ a.kind = kind /\ a.step = "chain" /\ a.late = Idle.late /\ a.id = n
          /\ a.own = Idle.own /\ a.seen = Idle.seen /\ a.file = Idle.file
          /\ a.stage = Idle.stage
      BY <1>6, <1>7, <2>1 DEF Operation
    <2>3. QED
      BY <2>2 DEF Idle
  <1>10. /\ op' \in [Operations -> Operation] /\ op'[t] = a
         /\ \A u \in Operations : u # t => op'[u] = op[u]
    BY <1>2, <1>8, <1>9
  <1>11. /\ spent' \in Tallies
         /\ spent'.rows = spent.rows + (IF writes THEN 1 ELSE 0)
         /\ spent'.rollbacks = spent.rollbacks
         /\ spent'.restores = spent.restores + (IF kind = "restore" THEN 1 ELSE 0)
    <2>1. spent.rows + (IF writes THEN 1 ELSE 0) \in 1..budget.rows
      BY <1>1, <1>3, <1>5
    <2>2. spent.restores \in Nat
      BY <1>2 DEF Tallies
    <2>3. spent' = [spent EXCEPT !.rows = spent.rows + (IF writes THEN 1 ELSE 0),
                                 !.restores = spent.restores
                                              + (IF kind = "restore" THEN 1 ELSE 0)]
      BY DEF Start
    <2>4. PICK p, q : /\ p = spent.rows + (IF writes THEN 1 ELSE 0)
                      /\ q = spent.restores + (IF kind = "restore" THEN 1 ELSE 0)
      OBVIOUS
    <2>5. p \in 1..budget.rows /\ q \in Nat
      BY <2>1, <2>2, <2>4
    <2>6. spent' = [spent EXCEPT !.rows = p, !.restores = q]
      BY <2>3, <2>4
    <2>7. /\ spent' \in Tallies /\ spent'.rows = p /\ spent'.restores = q
          /\ spent'.rollbacks = spent.rollbacks
      BY <1>2, <2>5, <2>6 DEF Tallies
    <2>8. QED
      BY <2>4, <2>7
  <1>12. /\ spent'.rows \in Nat /\ \A i \in 1..spent.rows : i \in 1..spent'.rows
         /\ (writes => n \in 1..spent'.rows /\ n \notin 1..spent.rows)
    BY <1>4, <1>5, <1>11
  <1>13. Ids(<<>>) = {}
    BY DEF Ids
  <1>14. BaseInv'
    <2>1. FilesTyped'
      BY <1>1 DEF AnchorInv, BaseInv, FilesTyped
    <2>2. BoundsKept'
      BY <1>1, <1>2, <1>11 DEF BoundsKept, Tallies
    <2>3. OpsActive'
      <3>1. Active(a)
        BY <1>9 DEF Active
      <3>2. QED
        BY <1>2, <1>10, <3>1 DEF OpsActive
    <2>4. Issued'
      <3>1. \A u \in Operations : Ids(op'[u].stage) \subseteq 1..spent.rows
        BY <1>9, <1>10, <1>13 DEF AnchorInv, BaseInv, Issued
      <3>2. QED
        BY <1>1, <1>12, <3>1 DEF AnchorInv, BaseInv, Issued
    <2>5. Unissued'
      <3>1. \A u \in Operations : u # t /\ Holding(op'[u]) => Holding(op[u]) /\ op'[u] = op[u]
        BY <1>10
      <3>2. Holding(a) => writes
        BY <1>9 DEF Holding
      <3>3. ASSUME NEW u \in Operations, u # t, Holding(op'[u])
            PROVE  /\ op'[u].id \in 1..spent'.rows
                   /\ op'[u].id \notin Ids(db.ledger) /\ op'[u].id \notin Ids(backup.ledger)
                   /\ \A v \in Operations \ {u} :
                         /\ op'[u].id \notin Ids(op'[v].stage)
                         /\ Holding(op'[v]) => op'[v].id # op'[u].id
        <4>1. op'[u] = op[u] /\ op[u].id \in 1..spent.rows
          BY <3>1, <3>3 DEF AnchorInv, BaseInv, Unissued
        <4>2. \A v \in Operations \ {u} :
                 /\ op'[u].id \notin Ids(op'[v].stage)
                 /\ Holding(op'[v]) => op'[v].id # op'[u].id
          <5>1. ASSUME NEW v \in Operations \ {u}, v # t
                PROVE  /\ op'[u].id \notin Ids(op'[v].stage)
                       /\ Holding(op'[v]) => op'[v].id # op'[u].id
            BY <1>10, <3>3, <4>1, <5>1 DEF AnchorInv, BaseInv, Unissued
          <5>2. op'[u].id \notin Ids(a.stage) /\ (Holding(a) => a.id # op'[u].id)
            BY <1>9, <1>12, <1>13, <3>2, <4>1
          <5>3. QED
            BY <1>10, <5>1, <5>2
        <4>3. QED
          BY <1>12, <3>3, <4>1, <4>2 DEF AnchorInv, BaseInv, Unissued
      <3>4. ASSUME Holding(a)
            PROVE  /\ a.id \in 1..spent'.rows
                   /\ a.id \notin Ids(db.ledger) /\ a.id \notin Ids(backup.ledger)
                   /\ \A v \in Operations \ {t} :
                         /\ a.id \notin Ids(op'[v].stage)
                         /\ Holding(op'[v]) => op'[v].id # a.id
        <4>1. a.id \in 1..spent'.rows /\ a.id \notin 1..spent.rows
          BY <1>9, <1>12, <3>2, <3>4
        <4>2. \A v \in Operations \ {t} : Holding(op[v]) => op[v].id \in 1..spent.rows
          BY DEF AnchorInv, BaseInv, Unissued
        <4>3. QED
          BY <1>10, <4>1, <4>2 DEF AnchorInv, BaseInv, Issued
      <3>5. QED
        BY <1>1, <1>10, <3>3, <3>4 DEF Unissued
    <2>6. OthersIdle'
      BY <1>1, <1>10 DEF AnchorInv, BaseInv, OthersIdle
    <2>7. QED
      BY <2>1, <2>2, <2>3, <2>4, <2>5, <2>6 DEF BaseInv
  <1>15. GrowingInv'
    <2> SUFFICES ASSUME Growing'
                 PROVE  GrowingInv'
      BY DEF GrowingInv
    <2>1. Growing /\ kind # "restore"
      <3>1. spent.restores \in Nat
        BY <1>2 DEF Tallies
      <3>2. QED
        BY <1>11, <3>1 DEF Growing
    <2>2. Grown(a)
      <3>1. Extends(db.ledger, <<>>)
        BY IdleIsFine DEF Grown, Idle
      <3>2. QED
        BY <1>9, <2>1, <3>1 DEF Grown
    <2>3. \A u \in Operations : Grown(op'[u])
      BY <1>10, <2>1, <2>2 DEF AnchorInv, GrowingInv
    <2>4. \A u \in Operations : Grown(op[u])'
      BY <1>1, <2>3 DEF Grown
    <2>5. QED
      BY <1>1, <2>1, <2>4 DEF AnchorInv, GrowingInv
  <1>16. AloneInv'
    <2> SUFFICES ASSUME Alone'
                 PROVE  AloneInv'
      BY DEF AloneInv
    <2>1. Alone
      BY <1>1 DEF Alone
    <2>2. Solo(a)
      BY <1>9 DEF Solo
    <2>3. \A u \in Operations : Solo(op'[u])
      BY <1>10, <2>1, <2>2 DEF AnchorInv, AloneInv
    <2>4. \A u \in Operations : Solo(op[u])'
      BY <1>1, <2>3 DEF Solo
    <2>5. QED
      BY <1>1, <1>11, <2>1, <2>4 DEF AnchorInv, AloneInv, Guards
  <1>17. QED
    BY <1>14, <1>15, <1>16 DEF AnchorInv

\* The row of an operation joins the ledger.
LEMMA RowJoins ==
    ASSUME AnchorInv, NEW t \in Operations, Holding(op[t]), NEW row \in Row,
           row.id = op[t].id
    PROVE  /\ Chain(db.ledger) /\ Chain(Append(db.ledger, row))
           /\ Extends(Append(db.ledger, row), db.ledger)
           /\ Ids(Append(db.ledger, row)) = Ids(db.ledger) \cup {row.id}
           /\ row.id \in 1..spent.rows
           /\ row.id \notin Ids(db.ledger) /\ row.id \notin Ids(backup.ledger)
           /\ \A u \in Operations : u # t /\ Holding(op[u]) => op[u].id # row.id
  <1>1. Chain(db.ledger)
    BY DEF AnchorInv, BaseInv, FilesTyped
  <1>2. /\ row.id \in 1..spent.rows
        /\ row.id \notin Ids(db.ledger) /\ row.id \notin Ids(backup.ledger)
        /\ \A u \in Operations : u # t /\ Holding(op[u]) => op[u].id # row.id
    BY DEF AnchorInv, BaseInv, Unissued
  <1>3. QED
    BY <1>1, <1>2, ChainGrows

\* The ledger grows by the row of an operation, whose effect it is.
LEMMA EffectMoves ==
    ASSUME AnchorInv, NEW t \in Operations, op[t].step # "idle", Holding(op[t]), NEW a,
           op' = [op EXCEPT ![t] = a], Active(a), a.late = TRUE, a.step = "sessions",
           a.kind = op[t].kind, a.seen = op[t].seen, a.file = op[t].file,
           a.stage \in {op[t].stage, <<>>}, Chain(db'.ledger), a.own = IdsOf(db'.ledger),
           db' \in Database, UNCHANGED <<anchor, tmp, backup, acked, spent, budget>>,
           Ids(db'.ledger) \subseteq 1..spent.rows,
           \A u \in Operations : u # t /\ Holding(op[u]) => op[u].id \notin Ids(db'.ledger),
           Growing => Extends(db'.ledger, db.ledger),
           Alone => /\ Fits(anchor, db.ledger)
                    /\ op[t].file = "none"
                    /\ \E row \in Row : row.id = op[t].id /\ db'.ledger = Append(db.ledger, row)
    PROVE  AnchorInv'
  <1>1. /\ t \in budget.operations /\ Active(op[t]) /\ op \in [Operations -> Operation]
        /\ Growing => Grown(op[t])
        /\ Alone => Solo(op[t]) /\ anchor.seq >= 1
        /\ Chain(db.ledger) /\ Chain(backup.ledger) /\ \A u \in Operations : Active(op[u])
    BY UnderWay DEF AnchorInv, BaseInv, OpsActive
  <1>2. /\ op' \in [Operations -> Operation] /\ op'[t] = a
        /\ \A u \in Operations : u # t => op'[u] = op[u]
    BY <1>1, ActiveIsTyped
  <1>3. BaseInv'
    <2>1. FilesTyped'
      BY DEF AnchorInv, BaseInv, FilesTyped
    <2>2. BoundsKept'
      BY DEF AnchorInv, BaseInv, BoundsKept
    <2>3. OpsActive'
      BY <1>1, <1>2 DEF OpsActive
    <2>4. Ids(<<>>) = {}
      BY DEF Ids
    <2>5. \A u \in Operations : Ids(op'[u].stage) \subseteq Ids(op[u].stage)
      BY <1>2, <2>4
    <2>6. Issued'
      BY <2>5 DEF AnchorInv, BaseInv, Issued
    <2>7. ~Holding(a)
      BY DEF Holding
    <2>8. \A u \in Operations : Holding(op'[u]) => u # t /\ op'[u] = op[u] /\ Holding(op[u])
      BY <1>2, <2>7
    <2>9. Unissued'
      BY <2>5, <2>8 DEF AnchorInv, BaseInv, Unissued
    <2>10. OthersIdle'
      BY <1>1, <1>2 DEF AnchorInv, BaseInv, OthersIdle
    <2>11. QED
      BY <2>1, <2>2, <2>3, <2>6, <2>9, <2>10 DEF BaseInv
  <1>4. GrowingInv'
    <2> SUFFICES ASSUME Growing'
                 PROVE  GrowingInv'
      BY DEF GrowingInv
    <2>1. Growing /\ Extends(db'.ledger, db.ledger)
      BY DEF Growing
    <2>2. \A u \in Operations : op[u].seen \in Seq(Row) /\ op[u].own \in Seq(Rows)
      BY <1>1 DEF Operation
    <2>3. \A c \in acked : c \in Seq(Rows)
      BY DEF AnchorInv, BaseInv, FilesTyped
    <2>4. \A u \in Operations : Grown(op[u])
      BY <2>1 DEF AnchorInv, GrowingInv
    <2>5. \A u \in Operations : Extends(db'.ledger, op[u].seen)
                                /\ (op[u].late => Begins(op[u].own, db'.ledger))
      BY <1>1, <2>1, <2>2, <2>4, LongerKeeps DEF Grown
    <2>6. Begins(a.own, db'.ledger)
      BY ChainHasAnchor
    <2>7. \A u \in Operations : Grown(op[u])'
      BY <1>2, <2>4, <2>5, <2>6 DEF Grown
    <2>8. anchor = Empty \/ Fits(anchor, db'.ledger)
      BY <1>1, <2>1, LongerKeeps DEF AnchorInv, GrowingInv
    <2>9. tmp \in {Empty, Missing} \/ Fits(tmp, db'.ledger)
      BY <1>1, <2>1, LongerKeeps DEF AnchorInv, GrowingInv
    <2>10. \A c \in acked : Begins(c, db'.ledger)
      BY <1>1, <2>1, <2>3, LongerKeeps DEF AnchorInv, GrowingInv
    <2>11. QED
      BY <2>7, <2>8, <2>9, <2>10 DEF GrowingInv
  <1>5. AloneInv'
    <2> SUFFICES ASSUME Alone'
                 PROVE  AloneInv'
      BY DEF AloneInv
    <2>1. Alone
      BY DEF Alone
    <2>2. PICK row \in Row : row.id = op[t].id /\ db'.ledger = Append(db.ledger, row)
      BY <2>1
    <2>3. Extends(db'.ledger, db.ledger) /\ row.id \notin Ids(db.ledger)
          /\ row.id \notin Ids(backup.ledger)
      BY <2>2, RowJoins
    <2>4. Fits(anchor, db'.ledger)
      BY <1>1, <2>1, <2>3, LongerKeeps
    <2>5. \A c \in acked : Begins(c, db'.ledger)
      <3>1. \A c \in acked : c \in Seq(Rows) /\ Begins(c, db.ledger)
        BY <2>1 DEF AnchorInv, AloneInv, Guards, BaseInv, FilesTyped
      <3>2. QED
        BY <1>1, <2>3, <3>1, LongerKeeps
    <2>6. Branches(db'.ledger, backup.ledger)
      BY <1>1, <2>1, <2>2, <2>3, BranchesGrow DEF AnchorInv, AloneInv
    <2>7. \A u \in Operations : Solo(op[u])'
      <3>1. Solo(a)'
        BY <2>1, <2>4 DEF Solo
      <3>2. ASSUME NEW u \in Operations, u # t
            PROVE  Solo(op[u])'
        <4>1. op'[u] = Idle
          BY <1>1, <1>2, <2>1, <3>2, AloneWithOthersIdle
        <4>2. QED
          BY <4>1 DEF Solo, Idle
      <3>3. QED
        BY <1>2, <3>1, <3>2
    <2>8. QED
      BY <1>1, <2>1, <2>4, <2>5, <2>6, <2>7 DEF AnchorInv, AloneInv, Guards
  <1>6. QED
    BY <1>3, <1>4, <1>5 DEF AnchorInv

LEMMA CommitMoves ==
    ASSUME AnchorInv, NEW t \in Operations, Commit(t)
    PROVE  AnchorInv'
  <1> DEFINE b == op[t]
  <1>1. /\ b.step = "commit" /\ db' = Committed(b.id)
        /\ UNCHANGED <<anchor, tmp, backup, acked, spent, budget>>
    BY DEF Commit, At
  <1>2. /\ Active(b) /\ b \in Operation /\ op \in [Operations -> Operation]
        /\ Alone => Solo(b)
        /\ Chain(db.ledger) /\ spent \in Tallies /\ db \in Database
        /\ Ids(db.ledger) \subseteq 1..spent.rows
    BY <1>1, UnderWay DEF AnchorInv, BaseInv, FilesTyped, Issued
  <1>3. Holding(b) /\ b.kind = "commit"
    BY <1>1, <1>2 DEF Active, Holding
  <1>4. b.id \in Rows
    <2>1. b.id \in 1..spent.rows /\ b.id \in 0..MaxRows
      BY <1>2, <1>3 DEF AnchorInv, BaseInv, Unissued, Operation
    <2>2. b.id >= 1 /\ b.id <= MaxRows /\ b.id \in Int /\ MaxRows \in Nat
      BY <2>1, LedgerAssumption
    <2>3. QED
      BY <2>2 DEF Rows
  <1>5. PICK row : row = [id |-> b.id, authority |-> b.id]
    OBVIOUS
  <1>6. row \in Row /\ row.id = b.id
    BY <1>4, <1>5 DEF Row
  <1>7. /\ Chain(Append(db.ledger, row)) /\ Extends(Append(db.ledger, row), db.ledger)
        /\ Ids(Append(db.ledger, row)) = Ids(db.ledger) \cup {row.id}
        /\ row.id \in 1..spent.rows
        /\ \A u \in Operations : u # t /\ Holding(op[u]) => op[u].id # row.id
    BY <1>3, <1>6, RowJoins
  <1>8. db' = [ledger |-> Append(db.ledger, row), authority |-> b.id]
    BY <1>1, <1>5 DEF Committed
  <1>9. /\ db'.ledger = Append(db.ledger, row) /\ db' \in Database
        /\ Chain(db'.ledger)
    BY <1>4, <1>7, <1>8 DEF Database, Chain
  <1>10. PICK a : a = [b EXCEPT !.late = TRUE, !.own = IdsOf(db'.ledger), !.step = "sessions"]
    OBVIOUS
  <1>11. op' = [op EXCEPT ![t] = a]
    BY <1>2, <1>10 DEF Commit
  <1>12. /\ a \in Operation /\ a.kind = b.kind /\ a.step = "sessions" /\ a.late = TRUE
         /\ a.own = IdsOf(db'.ledger) /\ a.seen = b.seen /\ a.file = b.file
         /\ a.stage = b.stage
    <2>1. IdsOf(db'.ledger) \in Seq(Rows)
      BY <1>9, ChainHasAnchor
    <2>2. PICK own : own = IdsOf(db'.ledger)
      OBVIOUS
    <2>3. QED
      BY <1>2, <1>10, <2>1, <2>2 DEF Operation, Steps
  <1>13. Active(a)
    BY <1>2, <1>12 DEF Active
  <1>14. /\ Ids(db'.ledger) \subseteq 1..spent.rows
         /\ \A u \in Operations : u # t /\ Holding(op[u]) => op[u].id \notin Ids(db'.ledger)
    BY <1>2, <1>7, <1>9 DEF AnchorInv, BaseInv, Unissued
  <1>15. Alone => Fits(anchor, db.ledger) /\ b.file = "none"
    BY <1>1, <1>2 DEF Solo
  <1>16. QED
    BY <1>1, <1>3, <1>6, <1>7, <1>9, <1>11, <1>12, <1>13, <1>14, <1>15, EffectMoves

LEMMA SwapMoves ==
    ASSUME AnchorInv, NEW t \in Operations, Swap(t)
    PROVE  AnchorInv'
  <1> DEFINE b == op[t]
  <1>1. /\ b.step = "swap" /\ db' = [ledger |-> b.stage, authority |-> Expected(b.stage)]
        /\ UNCHANGED <<anchor, tmp, backup, acked, spent, budget>>
    BY DEF Swap, At, Swapped
  <1>2. /\ Active(b) /\ b \in Operation /\ op \in [Operations -> Operation]
        /\ Growing => Grown(b)
        /\ Alone => Solo(b)
        /\ Ids(b.stage) \subseteq 1..spent.rows
    BY <1>1, UnderWay DEF AnchorInv, BaseInv, Issued
  <1>3. Holding(b) /\ b.kind = "restore" /\ Chain(b.stage)
    BY <1>1, <1>2 DEF Active, Holding
  <1>4. ~Growing
    BY <1>2, <1>3 DEF Grown
  <1>5. /\ db'.ledger = b.stage /\ db' \in Database /\ Chain(db'.ledger)
    BY <1>1, <1>3, ChainHasAnchor DEF Database
  <1>6. PICK own : own = IdsOf(b.stage)
    OBVIOUS
  <1>7. PICK a : a = [b EXCEPT !.late = TRUE, !.own = own, !.stage = <<>>,
                               !.step = "sessions"]
    OBVIOUS
  <1>8. op' = [op EXCEPT ![t] = a]
    BY <1>2, <1>6, <1>7 DEF Swap
  <1>9. /\ a \in Operation /\ a.kind = b.kind /\ a.step = "sessions" /\ a.late = TRUE
        /\ a.own = IdsOf(db'.ledger) /\ a.seen = b.seen /\ a.file = b.file
        /\ a.stage = <<>>
    <2>1. own \in Seq(Rows)
      BY <1>3, <1>6, ChainHasAnchor
    <2>2. "sessions" \in Steps /\ <<>> \in Seq(Row)
      BY DEF Steps
    <2>3. a \in Operation
      BY <1>2, <1>7, <2>1, <2>2 DEF Operation
    <2>4. /\ a.kind = b.kind /\ a.step = "sessions" /\ a.late = TRUE
          /\ a.own = own /\ a.seen = b.seen /\ a.file = b.file /\ a.stage = <<>>
      BY <1>2, <1>7 DEF Operation
    <2>5. QED
      BY <1>5, <1>6, <2>3, <2>4
  <1>10. Active(a)
    BY <1>2, <1>9 DEF Active
  <1>11. /\ Ids(db'.ledger) \subseteq 1..spent.rows
         /\ \A u \in Operations : u # t /\ Holding(op[u]) => op[u].id \notin Ids(db'.ledger)
    BY <1>2, <1>5 DEF AnchorInv, BaseInv, Unissued
  <1>12. Alone => /\ Fits(anchor, db.ledger) /\ b.file = "none"
                  /\ \E row \in Row : row.id = b.id /\ b.stage = Append(db.ledger, row)
    BY <1>1, <1>2 DEF Solo
  <1>13. QED
    BY <1>1, <1>3, <1>4, <1>5, <1>8, <1>9, <1>10, <1>11, <1>12, EffectMoves

LEMMA StageMoves ==
    ASSUME AnchorInv, NEW t \in Operations, Stage(t)
    PROVE  AnchorInv'
  <1> DEFINE b == op[t]
  <1>1. b.step = "stage" /\ UNCHANGED <<db, anchor, tmp, backup, acked, spent, budget>>
    BY DEF Stage, At
  <1>2. /\ t \in budget.operations /\ Active(b) /\ b \in Operation
        /\ op \in [Operations -> Operation]
        /\ Growing => Grown(b)
        /\ Alone => Solo(b)
        /\ Ids(db.ledger) \subseteq 1..spent.rows /\ backup.authority \in Rows
        /\ \A u \in Operations : Active(op[u])
    BY <1>1, UnderWay DEF AnchorInv, BaseInv, OpsActive, Issued, FilesTyped, Database
  <1>3. Holding(b) /\ b.kind = "restore" /\ ~b.late
    BY <1>1, <1>2 DEF Active, Holding
  <1>4. ~Growing
    BY <1>2, <1>3 DEF Grown
  <1>5. b.id \in Rows
    <2>1. b.id \in 1..spent.rows /\ b.id \in 0..MaxRows
      BY <1>2, <1>3 DEF AnchorInv, BaseInv, Unissued, Operation
    <2>2. b.id >= 1 /\ b.id <= MaxRows /\ b.id \in Int /\ MaxRows \in Nat
      BY <2>1, LedgerAssumption
    <2>3. QED
      BY <2>2 DEF Rows
  <1>6. PICK row : row = [id |-> b.id, authority |-> backup.authority]
    OBVIOUS
  <1>7. row \in Row /\ row.id = b.id
    BY <1>2, <1>5, <1>6 DEF Row
  <1>8. PICK stage : stage = Append(db.ledger, row)
    OBVIOUS
  <1>9. /\ Chain(stage) /\ stage # <<>> /\ stage \in Seq(Row)
        /\ Ids(stage) = Ids(db.ledger) \cup {row.id}
        /\ row.id \in 1..spent.rows
        /\ \A u \in Operations : u # t /\ Holding(op[u]) => op[u].id # row.id
    BY <1>3, <1>7, <1>8, RowJoins, ChainHasAnchor
  <1>10. PICK a : a = [b EXCEPT !.stage = stage, !.step = "swap"]
    OBVIOUS
  <1>11. op' = [op EXCEPT ![t] = a]
    BY <1>2, <1>6, <1>8, <1>10 DEF Stage, ReadBackup
  <1>12. /\ a \in Operation /\ a.kind = b.kind /\ a.step = "swap" /\ a.late = b.late
         /\ a.id = b.id /\ a.own = b.own /\ a.seen = b.seen /\ a.file = b.file
         /\ a.stage = stage
    BY <1>2, <1>9, <1>10 DEF Operation, Steps
  <1>13. Active(a) /\ Holding(a)
    <2>1. Active(a)
      BY <1>2, <1>3, <1>9, <1>12 DEF Active
    <2>2. Holding(a)
      BY <1>3, <1>12 DEF Holding
    <2>3. QED
      BY <2>1, <2>2
  <1>14. /\ op' \in [Operations -> Operation] /\ op'[t] = a
         /\ \A u \in Operations : u # t => op'[u] = op[u]
    BY <1>2, <1>11, <1>12
  <1>15. BaseInv'
    <2>1. FilesTyped'
      BY <1>1 DEF AnchorInv, BaseInv, FilesTyped
    <2>2. BoundsKept'
      BY <1>1 DEF AnchorInv, BaseInv, BoundsKept
    <2>3. OpsActive'
      BY <1>2, <1>13, <1>14 DEF OpsActive
    <2>4. Issued'
      <3>1. Ids(a.stage) \subseteq 1..spent.rows
        BY <1>2, <1>9, <1>12
      <3>2. \A u \in Operations : Ids(op'[u].stage) \subseteq 1..spent.rows
        BY <1>14, <3>1 DEF AnchorInv, BaseInv, Issued
      <3>3. QED
        BY <1>1, <3>2 DEF AnchorInv, BaseInv, Issued
    <2>5. Unissued'
      <3>1. \A u \in Operations : Holding(op'[u]) => Holding(op[u]) /\ op'[u].id = op[u].id
        BY <1>3, <1>12, <1>14
      <3>2. \A u \in Operations : u # t /\ Holding(op[u]) => op[u].id \notin Ids(a.stage)
        BY <1>9, <1>12 DEF AnchorInv, BaseInv, Unissued
      <3>3. \A u \in Operations : \A v \in Operations \ {u} :
               Holding(op[u]) => op[u].id \notin Ids(op'[v].stage)
        BY <1>14, <3>2 DEF AnchorInv, BaseInv, Unissued
      <3>4. QED
        BY <1>1, <3>1, <3>3 DEF AnchorInv, BaseInv, Unissued
    <2>6. OthersIdle'
      BY <1>1, <1>2, <1>14 DEF AnchorInv, BaseInv, OthersIdle
    <2>7. QED
      BY <2>1, <2>2, <2>3, <2>4, <2>5, <2>6 DEF BaseInv
  <1>16. GrowingInv'
    BY <1>1, <1>4 DEF GrowingInv, Growing
  <1>17. AloneInv'
    <2> SUFFICES ASSUME Alone'
                 PROVE  AloneInv'
      BY DEF AloneInv
    <2>1. Alone
      BY <1>1 DEF Alone
    <2>2. Solo(a)
      BY <1>1, <1>2, <1>3, <1>7, <1>8, <1>12, <2>1 DEF Solo
    <2>3. \A u \in Operations : Solo(op'[u])
      BY <1>14, <2>1, <2>2 DEF AnchorInv, AloneInv
    <2>4. \A u \in Operations : Solo(op[u])'
      BY <1>1, <2>3 DEF Solo
    <2>5. QED
      BY <1>1, <2>1, <2>4 DEF AnchorInv, AloneInv, Guards
  <1>18. QED
    BY <1>15, <1>16, <1>17 DEF AnchorInv

LEMMA BackupMoves ==
    ASSUME AnchorInv, Backup
    PROVE  AnchorInv'
  <1>1. backup' = db /\ UNCHANGED <<db, anchor, tmp, op, acked, spent, budget>>
    BY DEF Backup
  <1>2. BaseInv'
    BY <1>1 DEF AnchorInv, BaseInv, FilesTyped, BoundsKept, OpsActive, Issued, Unissued,
                OthersIdle
  <1>3. GrowingInv'
    BY <1>1 DEF AnchorInv, GrowingInv, Growing, Grown
  <1>4. AloneInv'
    <2> SUFFICES ASSUME Alone'
                 PROVE  AloneInv'
      BY DEF AloneInv
    <2>1. Alone
      BY <1>1 DEF Alone
    <2>2. Branches(db.ledger, db.ledger)
      BY DEF Branches
    <2>3. \A u \in Operations : Solo(op[u])'
      BY <1>1, <2>1 DEF AnchorInv, AloneInv, Solo
    <2>4. QED
      BY <1>1, <2>1, <2>2, <2>3 DEF AnchorInv, AloneInv, Guards
  <1>5. QED
    BY <1>2, <1>3, <1>4 DEF AnchorInv

LEMMA RollbackMoves ==
    ASSUME AnchorInv, Rollback
    PROVE  AnchorInv'
  <1>1. /\ \A u \in Operations : op[u].step = "idle"
        /\ db' = backup /\ spent' = [spent EXCEPT !.rollbacks = spent.rollbacks + 1]
        /\ UNCHANGED <<anchor, tmp, op, backup, acked, budget>>
    BY DEF Rollback, At
  <1>2. spent \in Tallies
    BY DEF AnchorInv, BaseInv, BoundsKept, Tallies
  <1>3. spent' \in Tallies /\ spent'.rows = spent.rows /\ spent'.rollbacks # 0
    BY <1>1, <1>2 DEF Tallies
  <1>4. BaseInv'
    <2>1. FilesTyped' /\ OpsActive' /\ OthersIdle'
      BY <1>1 DEF AnchorInv, BaseInv, FilesTyped, OpsActive, OthersIdle
    <2>2. BoundsKept'
      BY <1>1, <1>3 DEF AnchorInv, BaseInv, BoundsKept, Tallies
    <2>3. Issued' /\ Unissued'
      BY <1>1, <1>3 DEF AnchorInv, BaseInv, Issued, Unissued
    <2>4. QED
      BY <2>1, <2>2, <2>3 DEF BaseInv
  <1>5. GrowingInv'
    BY <1>3 DEF GrowingInv, Growing
  <1>6. AloneInv'
    <2> SUFFICES ASSUME Alone'
                 PROVE  AloneInv'
      BY DEF AloneInv
    <2>1. Alone
      BY <1>1 DEF Alone
    <2>2. Branches(backup.ledger, backup.ledger)
      BY DEF Branches
    <2>3. \A u \in Operations : Solo(op[u])'
      BY <1>1, <2>1 DEF AnchorInv, AloneInv, Solo
    <2>4. QED
      BY <1>1, <1>3, <2>1, <2>2, <2>3 DEF AnchorInv, AloneInv, Guards
  <1>7. QED
    BY <1>4, <1>5, <1>6 DEF AnchorInv

-----------------------------------------------------------------------------
(* The invariant holds.                                                    *)

LEMMA AnchorInvInit == Init => AnchorInv
  <1> SUFFICES ASSUME Init
               PROVE  AnchorInv
    OBVIOUS
  <1> DEFINE row == [id |-> 1, authority |-> 1]
  <1>1. MaxRows \in Nat /\ MaxRows >= 1 /\ 1 \in 1..MaxRows /\ 1 \in 0..MaxRows
    BY LedgerAssumption
  <1>2. row \in Row
    BY <1>1 DEF Row, Rows
  <1>3. /\ db.ledger = <<row>> /\ db.authority = 1 /\ backup = db /\ db \in Database
        /\ anchor = [seq |-> 1, head |-> 1] /\ tmp = Missing /\ acked = {}
        /\ op = [t \in Operations |-> Idle] /\ budget \in Budgets
        /\ spent = [rows |-> 1, restores |-> 0, crashes |-> 0, rollbacks |-> 0]
    BY <1>1, <1>2 DEF Init, Database, Rows
  <1> HIDE DEF row
  <1>4. Len(db.ledger) = 1 /\ db.ledger[1] = row /\ row.id = 1
    BY <1>3 DEF row
  <1>5. Chain(db.ledger)
    BY <1>2, <1>3, <1>4 DEF Chain
  <1>6. Ids(db.ledger) = {1}
    BY <1>4 DEF Ids
  <1>7. budget.rows \in 1..MaxRows
    BY <1>3, LedgerAssumption
  <1>8. \A u \in Operations : op[u] = Idle
    BY <1>3
  <1>9. BaseInv
    <2>1. anchor \in AnchorFile
      BY <1>1, <1>3 DEF AnchorFile
    <2>2. FilesTyped
      BY <1>3, <1>5, <2>1 DEF FilesTyped
    <2>3. BoundsKept
      <3>1. 1 \in 1..budget.rows
        BY <1>7
      <3>2. QED
        BY <1>3, <3>1 DEF BoundsKept
    <2>4. OpsActive
      BY <1>3, IdleIsFine DEF OpsActive
    <2>5. Issued
      <3>1. Ids(<<>>) = {}
        BY DEF Ids
      <3>2. QED
        BY <1>3, <1>6, <1>8, <3>1, IdleIsFine DEF Issued
    <2>6. Unissued
      BY <1>8, IdleIsFine DEF Unissued
    <2>7. QED
      BY <1>8, <2>2, <2>3, <2>4, <2>5, <2>6 DEF BaseInv, OthersIdle
  <1>10. Fits(anchor, db.ledger)
    BY <1>3, <1>4 DEF Fits
  <1>11. GrowingInv
    BY <1>3, <1>8, <1>10, IdleIsFine DEF GrowingInv
  <1>12. AloneInv
    <2>1. Branches(db.ledger, backup.ledger)
      BY <1>3 DEF Branches
    <2>2. QED
      BY <1>3, <1>8, <1>10, <2>1, IdleIsFine DEF AloneInv, Guards
  <1>13. QED
    BY <1>9, <1>11, <1>12 DEF AnchorInv

LEMMA AnchorInvStep == AnchorInv /\ [Next]_vars => AnchorInv'
  <1> SUFFICES ASSUME AnchorInv, [Next]_vars
               PROVE  AnchorInv'
    OBVIOUS
  <1>1. CASE UNCHANGED vars
    BY <1>1 DEF vars, AnchorInv, BaseInv, FilesTyped, BoundsKept, OpsActive, Issued, Unissued,
                OthersIdle, GrowingInv, Growing, Grown, AloneInv, Alone, Solo, Guards
  <1>2. CASE Backup
    BY <1>2, BackupMoves
  <1>3. CASE Rollback
    BY <1>3, RollbackMoves
  <1>4. ASSUME NEW t \in Operations, NEW kind \in {"verify", "commit", "restore"},
               Start(t, kind)
        PROVE  AnchorInv'
    BY <1>4, StartMoves
  <1>5. ASSUME NEW t \in Operations, Crash(t)
        PROVE  AnchorInv'
    BY <1>5, CrashMoves
  <1>6. ASSUME NEW t \in Operations, Step(t)
        PROVE  AnchorInv'
    <2>1. CASE ReadChain(t)
      BY <2>1, ReadChainMoves
    <2>2. CASE ReadAnchor(t)
      BY <2>2, ReadAnchorMoves
    <2>3. CASE CheckRow(t)
      BY <2>3, CheckRowMoves
    <2>4. CASE OpenTmp(t)
      BY <2>4, OpenTmpMoves
    <2>5. CASE WriteTmp(t)
      BY <2>5, WriteTmpMoves
    <2>6. CASE ReplaceAnchor(t)
      BY <2>6, ReplaceAnchorMoves
    <2>7. CASE ReadSessions(t)
      BY <2>7, ReadSessionsMoves
    <2>8. CASE ReadRows(t)
      BY <2>8, ReadRowsMoves
    <2>9. CASE Commit(t)
      BY <2>9, CommitMoves
    <2>10. CASE Stage(t)
      BY <2>10, StageMoves
    <2>11. CASE Swap(t)
      BY <2>11, SwapMoves
    <2>12. QED
      BY <1>6, <2>1, <2>2, <2>3, <2>4, <2>5, <2>6, <2>7, <2>8, <2>9, <2>10, <2>11 DEF Step
  <1>7. QED
    BY <1>1, <1>2, <1>3, <1>4, <1>5, <1>6 DEF Next

LEMMA AnchorInvHolds == Spec => []AnchorInv
  BY AnchorInvInit, AnchorInvStep, PTL DEF Spec

LEMMA AnchorIsBehind == AnchorInv => AnchorIsPrefix
  <1> SUFFICES ASSUME AnchorInv, anchor # Empty, spent.rollbacks = 0,
                      Alone \/ spent.restores = 0
               PROVE  /\ anchor.seq <= Len(db.ledger)
                      /\ db.ledger[anchor.seq].id = anchor.head
    BY DEF AnchorIsPrefix
  <1>1. Fits(anchor, db.ledger)
    BY DEF AnchorInv, AloneInv, GrowingInv, Growing
  <1>2. Len(db.ledger) \in Nat
    BY DEF AnchorInv, BaseInv, FilesTyped, Chain
  <1>3. QED
    BY <1>1, <1>2 DEF Fits

\* The anchor file and the database have their types, and the anchor names a row the
\* ledger has at that place: through every interleaving of operations that check, commit
\* and write the anchor under one temporary name (IntegrityAnchorStore.write_anchor),
\* through crashes between them and, for one operation at a time, through restores.
THEOREM AnchorIsAlwaysSound == Spec => []AnchorIsSound
  <1>1. AnchorInv => TypeOK
    BY DEF AnchorInv, BaseInv, FilesTyped, OpsActive, TypeOK
  <1>2. AnchorInv => AnchorIsSound
    BY <1>1, AnchorIsBehind DEF AnchorIsSound
  <1>3. QED
    BY <1>2, AnchorInvHolds, PTL

\* A workspace that one operation at a time works with opens again when it rests, after
\* whatever crash: the anchor is readable and behind the ledger, and the mutable authority
\* is the one of the last row (verify_production_recoverable).
THEOREM RestsAreAlwaysRecoverable == Spec => []RestsRecoverable
  <1>1. AnchorInv => (Alone => anchor # Empty)
    BY DEF AnchorInv, AloneInv, Empty
  <1>2. AnchorInv /\ AuthorityAccounted => RestsRecoverable
    BY <1>1, AnchorIsBehind DEF RestsRecoverable
  <1>3. QED
    BY <1>2, AnchorInvHolds, AuthorityAccountedHolds, PTL

\* What was reported as committed is never forgotten by what is reported as committed
\* later: for one operation at a time, although older copies of the database are put
\* back between operations, and for operations at once while nothing is put back
\* (assert_recoverable, the anchor update of every commit).
THEOREM AcknowledgedChainsAlwaysNest == Spec => []AcknowledgedChainsNest
  <1>1. AnchorInv => AcknowledgedChainsNest
    <2> SUFFICES ASSUME AnchorInv, Alone \/ (spent.rollbacks = 0 /\ spent.restores = 0),
                        NEW c \in acked, NEW d \in acked
                 PROVE  IsPrefix(c, d) \/ IsPrefix(d, c)
      BY DEF AcknowledgedChainsNest
    <2>1. CASE Alone
      BY <2>1 DEF AnchorInv, AloneInv
    <2>2. CASE spent.rollbacks = 0 /\ spent.restores = 0
      BY <2>2, BeginningsNest DEF AnchorInv, GrowingInv, Growing, BaseInv, FilesTyped
    <2>3. QED
      BY <2>1, <2>2
  <1>2. QED
    BY <1>1, AnchorInvHolds, PTL

=============================================================================

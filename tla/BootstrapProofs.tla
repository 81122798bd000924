--------------------------- MODULE BootstrapProofs ---------------------------
(***************************************************************************)
(* For any number of processes that bind, import, save, erase and die: a   *)
(* workspace is founded once, the commitment of its first bind holds to    *)
(* the end, and its database, its anchor and its sessions stay of one      *)
(* piece.  The inductive invariant is WholeInv: who holds the lock, what   *)
(* the marker says at every step of a bind, what the first two rows are,   *)
(* and what the anchor covers when the marker goes.                        *)
(***************************************************************************)
EXTENDS Bootstrap, TLAPS, SequenceTheorems, FiniteSetTheorems

Importing == {"import", "import key", "stage", "import anchor"}
Locked == Steps \ (Importing \cup {"idle", "wait"})

AnchorFile == [kind : {"anchor"}, chain : Seq(Row)]

Typed ==
    /\ TypeOK /\ (anchor = Nothing \/ anchor \in AnchorFile)
    /\ spent \in [crashes : Nat, edits : Nat, saves : Nat]

\* The lock is held by whoever is past it; who is not among those that open the
\* workspace does nothing; a process that saves serves calls.
Control ==
    /\ \A p \in Processes : step[p] \in Locked <=> lock = p
    /\ \A p \in Processes : step[p] \in Locked => bound[p]
    /\ \A p \in Processes \ inst.opens :
          step[p] = "idle" /\ saver[p] = NoSave /\ ~ready[p]
    /\ \A p \in Processes : saver[p] # NoSave => ready[p]
    /\ \A p \in Processes : step[p] \in Importing => inst.past = "backup" /\ ~ready[p]

\* Threads that take turns save through a bound repository.
InTurns == inst.serial /\ (inst.timeouts => OneProcess)

Turns ==
    InTurns =>
        /\ \A p \in Processes : saver[p] # NoSave => step[p] = "idle"
        /\ \A p \in Processes : ready[p] /\ step[p] = "idle" => bound[p]

AnchorSealed == anchor # Nothing /\ Sealed(anchor.chain)

\* What is on disk while a process is at a step.
Holds(s) ==
    /\ s \notin {"idle", "import", "import key", "stage"} => db
    /\ s \in {"anchor", "resume", "open", "checkpoint", "insert", "advance", "verify",
              "clear", "import anchor"} => ledger # <<>>
    /\ s = "prepare" => marker = Nothing /\ Len(ledger) # 1
    /\ s \in {"key", "genesis", "anchor", "resume"} => marker # Nothing
    /\ s = "insert" => marker # Nothing /\ marker.plan # NoPlan
    /\ s = "open" => marker = Nothing
    /\ s = "checkpoint" /\ marker = Nothing => Len(ledger) >= 2
    /\ s = "clear" => AnchorSealed
    /\ s = "import anchor" => Sealed(ledger)

Underway == \A p \in Processes : Holds(step[p])

Served == \A p \in Processes : ready[p] => db /\ ledger # <<>>

\* The founding rows.
Foundations(l) ==
    /\ l # <<>> => l[1].type = "genesis"
    /\ \A i \in 2..Len(l) : l[i].type # "genesis"
    /\ \A i, j \in Rows(l, "checkpoint") : i = j
    /\ Len(l) > 1 /\ l[2].type = "checkpoint" => l[2].authority = l[1].authority

\* The marker commits to the genesis, its plan to the marker.
OnDisk ==
    /\ ~db => anchor = Nothing
    /\ Foundations(ledger)
    /\ marker # Nothing /\ Len(ledger) = 1 => ledger[1].authority = marker.baseline
    /\ marker # Nothing /\ marker.plan # NoPlan => marker.plan.authority = marker.baseline
    /\ SealedBeforeForgotten

FoundingInv == Typed /\ Control /\ Turns /\ Underway /\ Served /\ OnDisk

Undisturbed == inst.past = "backup" => OneProcess

AnchorFollows == anchor # Nothing => IsPrefix(anchor.chain, ledger)

Behind ==
    Undisturbed =>
        /\ \A p \in Processes : step[p] \in {"import", "import key", "stage"} => anchor = Nothing
        /\ AnchorFollows

Counted == InTurns => Accounted

WholeInv == FoundingInv /\ Behind /\ Counted

-----------------------------------------------------------------------------
(* Lemmas about ledgers.                                                   *)

LEMMA RowAppended ==
    ASSUME NEW l \in Seq(Row), l # <<>>, NEW r \in Row
    PROVE  LET more == Append(l, r) IN
           /\ more \in Seq(Row) /\ more # <<>> /\ Len(more) = Len(l) + 1
           /\ Len(l) \in Nat /\ Len(l) >= 1
           /\ \A i \in 1..Len(l) : more[i] = l[i]
           /\ more[Len(l) + 1] = r /\ Last(more) = r
           /\ \A i \in 1..Len(more) : i \in 1..Len(l) \/ i = Len(l) + 1
           /\ DOMAIN more = 1..Len(more) /\ DOMAIN l = 1..Len(l)
  <1> DEFINE more == Append(l, r)
  <1>1. /\ more \in Seq(Row) /\ Len(more) = Len(l) + 1 /\ Len(l) \in Nat
        /\ \A i \in 1..Len(l) : more[i] = l[i]
        /\ more[Len(l) + 1] = r
        /\ DOMAIN more = 1..Len(more) /\ DOMAIN l = 1..Len(l)
    OBVIOUS
  <1>2. Len(l) >= 1
    BY <1>1, EmptySeq
  <1> HIDE DEF more
  <1>3. more # <<>>
    BY <1>1, <1>2
  <1>4. Last(more) = r
    BY <1>1 DEF Last
  <1>5. \A i \in 1..Len(more) : i \in 1..Len(l) \/ i = Len(l) + 1
    BY <1>1
  <1>6. QED
    BY <1>1, <1>2, <1>3, <1>4, <1>5 DEF more

LEMMA RowsGrow ==
    ASSUME NEW l \in Seq(Row), l # <<>>, NEW r \in Row
    PROVE  /\ \A type : Rows(l, type) \subseteq Rows(Append(l, r), type)
           /\ \A type : r.type = type => Rows(Append(l, r), type) # {}
           /\ \A type : r.type # type => Rows(Append(l, r), type) = Rows(l, type)
           /\ Sealed(l) => Sealed(Append(l, r))
           /\ r.type \in {"checkpoint", "import"} => Sealed(Append(l, r))
           /\ r.type = "save" /\ Sealed(Append(l, r)) => Sealed(l)
  <1> DEFINE more == Append(l, r)
  <1>1. /\ Len(more) = Len(l) + 1 /\ Len(l) \in Nat
        /\ \A i \in 1..Len(l) : more[i] = l[i]
        /\ more[Len(l) + 1] = r
        /\ \A i \in 1..Len(more) : i \in 1..Len(l) \/ i = Len(l) + 1
        /\ DOMAIN more = 1..Len(more) /\ DOMAIN l = 1..Len(l)
        /\ Len(l) + 1 \in 1..Len(more) /\ \A i \in 1..Len(l) : i \in 1..Len(more)
    BY RowAppended
  <1> HIDE DEF more
  <1>2. \A type : Rows(l, type) \subseteq Rows(more, type)
    BY <1>1 DEF Rows
  <1>3. \A type : r.type = type => Rows(more, type) # {}
    BY <1>1 DEF Rows
  <1>4. ASSUME NEW type, r.type # type
        PROVE  Rows(more, type) = Rows(l, type)
    <2>1. \A i \in Rows(more, type) : i \in Rows(l, type)
      BY <1>1, <1>4 DEF Rows
    <2>2. QED
      BY <1>2, <2>1
  <1>5. QED
    BY <1>2, <1>3, <1>4 DEF Sealed, more

LEMMA PrefixesGrow ==
    ASSUME NEW l \in Seq(Row), l # <<>>, NEW r \in Row, NEW c \in Seq(Row), IsPrefix(c, l)
    PROVE  IsPrefix(c, Append(l, r))
  <1> DEFINE more == Append(l, r)
  <1>1. /\ more \in Seq(Row) /\ Len(more) = Len(l) + 1 /\ Len(l) \in Nat /\ Len(c) \in Nat
        /\ \A i \in 1..Len(l) : more[i] = l[i]
    BY RowAppended
  <1> HIDE DEF more
  <1>2. Len(c) <= Len(l) /\ SubSeq(c, 1, Len(c)) = SubSeq(l, 1, Len(c))
    BY DEF IsPrefix
  <1>3. /\ SubSeq(l, 1, Len(c)) = [i \in 1..Len(c) |-> l[i]]
        /\ SubSeq(more, 1, Len(c)) = [i \in 1..Len(c) |-> more[i]]
    BY <1>1, <1>2
  <1>4. \A i \in 1..Len(c) : more[i] = l[i]
    BY <1>1, <1>2
  <1>5. SubSeq(more, 1, Len(c)) = SubSeq(l, 1, Len(c))
    BY <1>3, <1>4
  <1>6. QED
    BY <1>1, <1>2, <1>5 DEF IsPrefix, more

LEMMA PrefixOfItself == \A l \in Seq(Row) : IsPrefix(l, l)
  BY DEF IsPrefix

\* What continues a sealed chain is sealed.
LEMMA SealedPrefix ==
    ASSUME NEW c \in Seq(Row), NEW l \in Seq(Row), IsPrefix(c, l), Sealed(c)
    PROVE  Sealed(l)
  <1>1. Len(c) \in Nat /\ Len(l) \in Nat /\ Len(c) <= Len(l)
        /\ SubSeq(c, 1, Len(c)) = SubSeq(l, 1, Len(c))
        /\ DOMAIN c = 1..Len(c) /\ DOMAIN l = 1..Len(l)
    BY DEF IsPrefix
  <1>2. /\ SubSeq(c, 1, Len(c)) = [i \in 1..Len(c) |-> c[i]]
        /\ SubSeq(l, 1, Len(c)) = [i \in 1..Len(c) |-> l[i]]
    BY <1>1
  <1>3. \A i \in 1..Len(c) : c[i] = l[i] /\ i \in 1..Len(l)
    BY <1>1, <1>2
  <1>4. \A type : Rows(c, type) \subseteq Rows(l, type)
    BY <1>1, <1>3 DEF Rows
  <1>5. QED
    BY <1>4 DEF Sealed

\* Foundations stand under another row, if it is none or the first checkpoint.
LEMMA FoundationsGrow ==
    ASSUME NEW l \in Seq(Row), l # <<>>, NEW r \in Row, Foundations(l),
           r.type # "genesis",
           r.type = "checkpoint" =>
              /\ Rows(l, "checkpoint") = {}
              /\ Len(l) = 1 => r.authority = l[1].authority
    PROVE  Foundations(Append(l, r))
  <1> DEFINE more == Append(l, r)
  <1>1. /\ Len(more) = Len(l) + 1 /\ Len(l) \in Nat /\ Len(l) >= 1
        /\ \A i \in 1..Len(l) : more[i] = l[i]
        /\ more[Len(l) + 1] = r
        /\ \A i \in 1..Len(more) : i \in 1..Len(l) \/ i = Len(l) + 1
        /\ DOMAIN more = 1..Len(more) /\ DOMAIN l = 1..Len(l)
    BY RowAppended
  <1> HIDE DEF more
  <1>2. more[1].type = "genesis"
    BY <1>1 DEF Foundations
  <1>3. \A i \in 2..Len(more) : more[i].type # "genesis"
    <2>1. \A i \in 2..Len(more) : i \in 2..Len(l) \/ i = Len(l) + 1
      BY <1>1
    <2>2. \A i \in 2..Len(l) : i \in 1..Len(l)
      BY <1>1
    <2>3. QED
      BY <1>1, <2>1, <2>2 DEF Foundations
  <1>4. \A i, j \in Rows(more, "checkpoint") : i = j
    <2>1. \A i \in Rows(more, "checkpoint") :
             i \in Rows(l, "checkpoint") \/ (i = Len(l) + 1 /\ r.type = "checkpoint")
      BY <1>1 DEF Rows
    <2>2. QED
      BY <2>1 DEF Foundations
  <1>5. more[2].type = "checkpoint" => more[2].authority = more[1].authority
    <2>1. CASE Len(l) = 1
      BY <1>1, <2>1
    <2>2. CASE Len(l) >= 2
      <3>1. 2 \in 1..Len(l) /\ 1 \in 1..Len(l)
        BY <1>1, <2>2
      <3>2. QED
        BY <1>1, <2>2, <3>1 DEF Foundations
    <2>3. QED
      BY <1>1, <2>1, <2>2
  <1>6. QED
    BY <1>2, <1>3, <1>4, <1>5 DEF Foundations, more

LEMMA FoundingRows ==
    ASSUME NEW a \in Authority
    PROVE  LET genesis == [type |-> "genesis", authority |-> a]
               imported == <<genesis, [type |-> "checkpoint", authority |-> a],
                             [type |-> "import", authority |-> a]>>
           IN /\ <<genesis>> \in Seq(Row) /\ Len(<<genesis>>) = 1 /\ <<genesis>> # <<>>
              /\ <<genesis>>[1].authority = a /\ Foundations(<<genesis>>)
              /\ ~Sealed(<<genesis>>)
              /\ imported \in Seq(Row) /\ Len(imported) = 3 /\ imported # <<>>
              /\ Foundations(imported) /\ Sealed(imported) /\ Last(imported).authority = a
  <1> DEFINE genesis == [type |-> "genesis", authority |-> a]
             checkpoint == [type |-> "checkpoint", authority |-> a]
             import == [type |-> "import", authority |-> a]
             imported == <<genesis, checkpoint, import>>
  <1>1. /\ genesis \in Row /\ genesis.type = "genesis" /\ genesis.authority = a
        /\ checkpoint \in Row /\ checkpoint.type = "checkpoint" /\ checkpoint.authority = a
        /\ import \in Row /\ import.type = "import" /\ import.authority = a
    BY DEF Row
  <1> HIDE DEF genesis, checkpoint, import
  <1>2. /\ <<genesis>> \in Seq(Row) /\ Len(<<genesis>>) = 1 /\ <<genesis>> # <<>>
        /\ <<genesis>>[1] = genesis
    BY <1>1
  <1>3. Foundations(<<genesis>>)
    BY <1>1, <1>2 DEF Foundations, Rows
  <1>4. /\ imported \in Seq(Row) /\ Len(imported) = 3 /\ imported # <<>>
        /\ imported[1] = genesis /\ imported[2] = checkpoint /\ imported[3] = import
        /\ DOMAIN imported = {1, 2, 3}
    BY <1>1
  <1> HIDE DEF imported
  <1>5. Rows(imported, "checkpoint") = {2}
    BY <1>1, <1>4 DEF Rows
  <1>6. Foundations(imported)
    <2>1. \A i \in 2..3 : i = 2 \/ i = 3
      OBVIOUS
    <2>2. QED
      BY <1>1, <1>4, <1>5, <2>1 DEF Foundations
  <1>7. Sealed(imported)
    BY <1>5 DEF Sealed
  <1>8. Last(imported).authority = a
    BY <1>1, <1>4 DEF Last
  <1>9. ~Sealed(<<genesis>>)
    BY <1>1, <1>2 DEF Sealed, Rows
  <1>10. QED
    BY <1>1, <1>2, <1>3, <1>4, <1>6, <1>7, <1>8, <1>9 DEF genesis, checkpoint, import, imported

LEMMA AnchorOfLedger ==
    ASSUME NEW l \in Seq(Row)
    PROVE  /\ AnchorAt(l) \in AnchorFile /\ AnchorAt(l) # Nothing
           /\ AnchorAt(l).chain = l /\ IsPrefix(AnchorAt(l).chain, l)
  <1>1. AnchorAt(l) \in AnchorFile /\ AnchorAt(l).chain = l /\ AnchorAt(l).kind = "anchor"
    BY DEF AnchorAt, AnchorFile
  <1>2. AnchorAt(l) # Nothing
    BY <1>1 DEF Nothing
  <1>3. QED
    BY <1>1, <1>2, PrefixOfItself

-----------------------------------------------------------------------------
(* Lemmas about processes.                                                 *)

LEMMA OnlyOne ==
    ASSUME Typed, OneProcess, NEW p \in inst.opens, NEW q \in inst.opens
    PROVE  p = q
  <1>1. inst.opens \subseteq Processes
    BY BootstrapAssumption DEF Typed, TypeOK
  <1>2. IsFiniteSet(inst.opens)
    BY <1>1, BootstrapAssumption, FS_Subset
  <1>3. Cardinality(inst.opens) \in Nat
    BY <1>2, FS_CardinalityType
  <1>4. Cardinality(inst.opens) # 0
    BY <1>2, FS_EmptySet
  <1>5. Cardinality(inst.opens) = 1
    BY <1>3, <1>4 DEF OneProcess
  <1>6. \E x : inst.opens = {x}
    BY <1>2, <1>5, FS_Singleton
  <1>7. QED
    BY <1>6

LEMMA Moved ==
    ASSUME Typed, NEW p \in Processes, NEW s \in Steps, Goto(p, s)
    PROVE  /\ step' \in [Processes -> Steps] /\ step'[p] = s
           /\ \A q \in Processes : q # p => step'[q] = step[q]
  BY DEF Typed, TypeOK, Goto

\* Who is under way is among those that open the workspace.
LEMMA Opener ==
    ASSUME WholeInv, NEW p \in Processes, step[p] # "idle" \/ ready[p]
    PROVE  p \in inst.opens
  BY DEF WholeInv, FoundingInv, Control

\* The disk as somebody else leaves it for a process without the lock.
LEMMA OuterHolds ==
    ASSUME NEW s \in Steps \ Locked, Holds(s), db => db', ledger # <<>> => ledger' # <<>>,
           Sealed(ledger) => Sealed(ledger')
    PROVE  Holds(s)'
  BY DEF Holds, Locked, Importing, Steps

\* A step of whoever holds the lock.
LEMMA HolderWorks ==
    ASSUME WholeInv, NEW p \in Processes, step[p] \in Locked,
           NEW s \in Locked \cup {"idle"}, Goto(p, s),
           lock' = IF s = "idle" THEN NoProcess ELSE lock,
           UNCHANGED <<inst, db, identity, authority, bound, saver, spent>>,
           ready' = ready \/ (ready' = [ready EXCEPT ![p] = TRUE] /\ ledger' # <<>>),
           ledger' \in Seq(Row), key' \in BOOLEAN, marker' \in Marker \cup {Nothing},
           anchor' = Nothing \/ anchor' \in AnchorFile,
           ledger # <<>> => ledger' # <<>>, Sealed(ledger) => Sealed(ledger'),
           Holds(s)', OnDisk',
           AnchorFollows => AnchorFollows', Accounted => Accounted'
    PROVE  WholeInv'
  <1>1. /\ Typed /\ Control /\ Turns /\ Underway /\ Served /\ OnDisk
        /\ s \in Steps /\ step \in [Processes -> Steps] /\ lock = p
        /\ p \in inst.opens /\ bound[p] /\ db
    BY Opener DEF WholeInv, FoundingInv, Typed, TypeOK, Control, Locked, Steps, Importing,
                  Underway, Holds
  <1>2. /\ step' \in [Processes -> Steps] /\ step'[p] = s
        /\ \A q \in Processes : q # p => step'[q] = step[q] /\ step[q] \notin Locked
    BY <1>1, Moved DEF Control
  <1>3. ready' \in [Processes -> BOOLEAN] /\ \A q \in Processes : q # p => ready'[q] = ready[q]
    BY <1>1 DEF Typed, TypeOK
  <1>4. Typed'
    BY <1>1, <1>2, <1>3 DEF Typed, TypeOK, AnchorFile, Nothing
  <1>5. Control'
    <2>1. p # NoProcess
      BY BootstrapAssumption
    <2>2. "idle" \notin Locked /\ "idle" \notin Importing /\ s \notin Importing
      BY DEF Locked, Importing
    <2>3. \A q \in Processes : step'[q] \in Locked <=> lock' = q
      BY <1>1, <1>2, <2>1, <2>2, BootstrapAssumption
    <2>4. \A q \in Processes : step'[q] \in Locked => bound[q]
      BY <1>1, <1>2
    <2>5. \A q \in Processes \ inst.opens :
             step'[q] = "idle" /\ saver[q] = NoSave /\ ~ready'[q]
      BY <1>1, <1>2, <1>3 DEF Control
    <2>6. \A q \in Processes : saver[q] # NoSave => ready'[q]
      BY <1>1, <1>3 DEF Control, Typed, TypeOK
    <2>7. \A q \in Processes : step'[q] \in Importing => inst.past = "backup" /\ ~ready'[q]
      BY <1>1, <1>2, <1>3, <2>2 DEF Control
    <2>8. QED
      BY <2>3, <2>4, <2>5, <2>6, <2>7 DEF Control
  <1>6. Turns'
    <2>1. InTurns' = InTurns
      BY DEF InTurns, OneProcess
    <2>2. step[p] # "idle"
      BY DEF Locked
    <2>3. QED
      BY <1>1, <1>2, <1>3, <2>1, <2>2 DEF Turns
  <1>7. Underway'
    <2>1. \A q \in Processes : q # p => Holds(step[q])'
      <3>1. ASSUME NEW q \in Processes, q # p
            PROVE  Holds(step[q])'
        <4>1. PICK r : r = step[q]
          OBVIOUS
        <4>2. step'[q] = r /\ Holds(r) /\ r \in Steps \ Locked
          BY <1>1, <1>2, <3>1, <4>1 DEF Underway
        <4>3. Holds(r)'
          BY <1>1, <4>2, OuterHolds
        <4>4. QED
          BY <4>2, <4>3
      <3>2. QED
        BY <3>1
    <2>2. Holds(step[p])'
      BY <1>2
    <2>3. QED
      BY <2>1, <2>2 DEF Underway
  <1>8. Served'
    BY <1>1, <1>3 DEF Served
  <1>9. Behind'
    <2>1. Undisturbed' = Undisturbed
      BY DEF Undisturbed, OneProcess
    <2>2. ASSUME Undisturbed, NEW q \in Processes,
                 step'[q] \in {"import", "import key", "stage"}
          PROVE  FALSE
      <3>1. q # p /\ step[q] \in Importing /\ step[q] # "idle"
        BY <1>2, <2>2 DEF Importing, Locked
      <3>2. inst.past = "backup" /\ q \in inst.opens
        BY <1>1, <3>1, Opener DEF Control
      <3>3. QED
        BY <1>1, <2>2, <3>1, <3>2, OnlyOne DEF Undisturbed
    <2>3. QED
      BY <2>1, <2>2 DEF WholeInv, Behind
  <1>10. Counted'
    BY DEF WholeInv, Counted, InTurns, OneProcess
  <1>11. QED
    BY <1>4, <1>5, <1>6, <1>7, <1>8, <1>9, <1>10 DEF WholeInv, FoundingInv

LEMMA RefuseKeeps ==
    ASSUME WholeInv, NEW p \in Processes, step[p] \in Locked, Refuse(p)
    PROVE  WholeInv'
  <1>1. /\ Goto(p, "idle") /\ lock' = NoProcess
        /\ UNCHANGED <<inst, db, identity, ledger, authority, marker, key, anchor, bound,
                       ready, saver, spent>>
    BY DEF Refuse, disk
  <1>2. Holds("idle")'
    BY DEF Holds
  <1>3. OnDisk'
    BY <1>1 DEF WholeInv, FoundingInv, OnDisk, SealedBeforeForgotten
  <1>4. /\ ledger' \in Seq(Row) /\ key' \in BOOLEAN /\ marker' \in Marker \cup {Nothing}
        /\ anchor' = Nothing \/ anchor' \in AnchorFile
    BY <1>1 DEF WholeInv, FoundingInv, Typed, TypeOK
  <1>5. (AnchorFollows => AnchorFollows') /\ (Accounted => Accounted')
    BY <1>1 DEF AnchorFollows, Accounted, SnapshotHolds
  <1>6. QED
    BY <1>1, <1>2, <1>3, <1>4, <1>5, HolderWorks

LEMMA HolderGoes ==
    ASSUME WholeInv, NEW p \in Processes, step[p] \in Locked, NEW s \in Locked, Goto(p, s),
           UNCHANGED <<inst, disk, lock, bound, ready, saver, spent>>, Holds(s)
    PROVE  WholeInv'
  <1>1. /\ UNCHANGED <<inst, db, identity, authority, bound, saver, spent>>
        /\ UNCHANGED <<ledger, marker, key, anchor, lock, ready>>
    BY DEF disk
  <1>2. Holds(s)'
    BY <1>1 DEF Holds, AnchorSealed
  <1>3. OnDisk'
    BY <1>1 DEF WholeInv, FoundingInv, OnDisk, SealedBeforeForgotten
  <1>4. /\ ledger' \in Seq(Row) /\ key' \in BOOLEAN /\ marker' \in Marker \cup {Nothing}
        /\ anchor' = Nothing \/ anchor' \in AnchorFile
    BY <1>1 DEF WholeInv, FoundingInv, Typed, TypeOK
  <1>5. (AnchorFollows => AnchorFollows') /\ (Accounted => Accounted')
    BY <1>1 DEF AnchorFollows, Accounted, SnapshotHolds
  <1>6. s # "idle"
    BY DEF Locked
  <1>7. QED
    BY <1>1, <1>2, <1>3, <1>4, <1>5, <1>6, HolderWorks

\* Writing the anchor of the ledger as it is takes no seal away.
LEMMA AnchorWritten ==
    ASSUME WholeInv, anchor' = AnchorAt(ledger), UNCHANGED <<ledger, marker>>, db' = TRUE,
           marker # Nothing \/ ContinuesAnchor \/ Sealed(ledger)
    PROVE  OnDisk' /\ AnchorFollows' /\ anchor' \in AnchorFile
           /\ (Sealed(ledger) => AnchorSealed')
  <1>1. Typed /\ OnDisk /\ ledger \in Seq(Row) /\ Foundations(ledger)
    BY DEF WholeInv, FoundingInv, Typed, TypeOK, OnDisk
  <1>2. /\ anchor' \in AnchorFile /\ anchor' # Nothing /\ anchor'.chain = ledger
        /\ IsPrefix(anchor'.chain, ledger)
    BY <1>1, AnchorOfLedger
  <1>3. Sealed(ledger) => AnchorSealed'
    BY <1>2 DEF AnchorSealed
  <1>4. ContinuesAnchor /\ AnchorSealed => Sealed(ledger)
    BY <1>1, SealedPrefix DEF ContinuesAnchor, AnchorSealed, Typed, AnchorFile
  <1>5. SealedBeforeForgotten'
    BY <1>1, <1>2, <1>3, <1>4 DEF OnDisk, SealedBeforeForgotten, AnchorSealed
  <1>6. QED
    BY <1>1, <1>2, <1>3, <1>5 DEF OnDisk, AnchorFollows

LEMMA HolderAnchors ==
    ASSUME WholeInv, NEW p \in Processes, step[p] \in Locked,
           NEW s \in Locked \cup {"idle"}, Goto(p, s),
           lock' = IF s = "idle" THEN NoProcess ELSE lock,
           anchor' = AnchorAt(ledger), marker # Nothing \/ ContinuesAnchor,
           UNCHANGED <<inst, db, identity, ledger, authority, marker, key, bound, ready,
                       saver, spent>>,
           s # "clear" => Holds(s), s = "clear" => Sealed(ledger)
    PROVE  WholeInv'
  <1>1. /\ db = TRUE /\ ledger \in Seq(Row) /\ key \in BOOLEAN
        /\ marker \in Marker \cup {Nothing} /\ Holds(step[p])
    BY DEF WholeInv, FoundingInv, Typed, TypeOK, Underway, Holds, Locked, Importing
  <1>2. OnDisk' /\ AnchorFollows' /\ anchor' \in AnchorFile /\ (Sealed(ledger) => AnchorSealed')
    BY <1>1, AnchorWritten
  <1>3. Holds(s)'
    <2>1. s = "clear" => ledger # <<>>
      <3>1. Sealed(<<>>) = FALSE
        BY DEF Sealed, Rows
      <3>2. QED
        BY <3>1
    <2>2. QED
      BY <1>1, <1>2, <2>1 DEF Holds, AnchorSealed
  <1>4. Accounted => Accounted'
    BY DEF Accounted, SnapshotHolds
  <1>5. QED
    BY <1>1, <1>2, <1>3, <1>4, HolderWorks

\* What is known of whoever holds the lock.
LEMMA HolderKnows ==
    ASSUME WholeInv, NEW p \in Processes, NEW s \in Locked, At(p, s)
    PROVE  /\ step[p] \in Locked /\ Holds(s) /\ db = TRUE /\ lock = p
           /\ ledger \in Seq(Row) /\ authority \in Authority /\ key \in BOOLEAN
           /\ marker \in Marker \cup {Nothing} /\ (anchor = Nothing \/ anchor \in AnchorFile)
           /\ OnDisk /\ Foundations(ledger) /\ Len(ledger) \in Nat
           /\ (ledger # <<>> => Len(ledger) >= 1)
  <1>1. /\ step[p] \in Locked /\ Holds(s) /\ lock = p
        /\ ledger \in Seq(Row) /\ authority \in Authority /\ key \in BOOLEAN
        /\ marker \in Marker \cup {Nothing} /\ (anchor = Nothing \/ anchor \in AnchorFile)
        /\ OnDisk /\ Foundations(ledger) /\ db \in BOOLEAN
    BY DEF WholeInv, FoundingInv, Typed, TypeOK, Underway, Control, OnDisk, At
  <1>2. db = TRUE
    BY <1>1 DEF Holds, Locked, Importing
  <1>3. Len(ledger) \in Nat /\ (ledger # <<>> => Len(ledger) >= 1)
    BY <1>1, EmptySeq
  <1>4. QED
    BY <1>1, <1>2, <1>3

-----------------------------------------------------------------------------
(* The steps of a bind.                                                    *)

LEMMA PrepareMarkerKeeps ==
    ASSUME WholeInv, NEW p \in Processes, PrepareMarker(p)
    PROVE  WholeInv'
  <1>1. /\ At(p, "prepare") /\ Goto(p, "key")
        /\ marker' = [kind |-> "marker", baseline |-> authority, plan |-> NoPlan]
        /\ UNCHANGED <<inst, db, identity, ledger, authority, key, anchor, lock, bound, ready,
                       saver, spent>>
    BY DEF PrepareMarker, Proceed
  <1>2. "prepare" \in Locked /\ "key" \in Locked
    BY DEF Locked, Steps, Importing
  <1>3. /\ step[p] \in Locked /\ Holds("prepare") /\ db = TRUE
        /\ ledger \in Seq(Row) /\ authority \in Authority /\ key \in BOOLEAN
        /\ (anchor = Nothing \/ anchor \in AnchorFile) /\ OnDisk
    BY <1>1, <1>2, HolderKnows
  <1>4. /\ marker' \in Marker /\ marker' # Nothing /\ marker'.plan = NoPlan
        /\ marker'.kind = "marker"
    BY <1>1, <1>3 DEF Marker, Nothing
  <1>5. Holds("key")'
    BY <1>1, <1>3, <1>4 DEF Holds
  <1>6. OnDisk'
    BY <1>1, <1>3, <1>4 DEF OnDisk, SealedBeforeForgotten, Holds
  <1>7. (AnchorFollows => AnchorFollows') /\ (Accounted => Accounted')
    BY <1>1 DEF AnchorFollows, Accounted, SnapshotHolds
  <1>8. QED
    BY <1>1, <1>2, <1>3, <1>4, <1>5, <1>6, <1>7, HolderWorks

LEMMA CreateKeyKeeps ==
    ASSUME WholeInv, NEW p \in Processes, CreateKey(p)
    PROVE  WholeInv'
  <1>1. /\ At(p, "key") /\ Goto(p, "genesis") /\ key' = TRUE
        /\ UNCHANGED <<inst, db, identity, ledger, authority, marker, anchor, lock, bound,
                       ready, saver, spent>>
    BY DEF CreateKey, Proceed
  <1>2. "key" \in Locked /\ "genesis" \in Locked
    BY DEF Locked, Steps, Importing
  <1>3. /\ step[p] \in Locked /\ Holds("key") /\ db = TRUE
        /\ ledger \in Seq(Row) /\ marker \in Marker \cup {Nothing}
        /\ (anchor = Nothing \/ anchor \in AnchorFile) /\ OnDisk
    BY <1>1, <1>2, HolderKnows
  <1>4. Holds("genesis")'
    BY <1>1, <1>3 DEF Holds
  <1>5. OnDisk'
    BY <1>1, <1>3 DEF OnDisk, SealedBeforeForgotten
  <1>6. (AnchorFollows => AnchorFollows') /\ (Accounted => Accounted')
    BY <1>1 DEF AnchorFollows, Accounted, SnapshotHolds
  <1>7. QED
    BY <1>1, <1>2, <1>3, <1>4, <1>5, <1>6, HolderWorks

LEMMA CreateGenesisKeeps ==
    ASSUME WholeInv, NEW p \in Processes, CreateGenesis(p)
    PROVE  WholeInv'
  <1>1. At(p, "genesis") /\ "genesis" \in Locked /\ "anchor" \in Locked
    BY DEF CreateGenesis, Locked, Steps, Importing
  <1>2. /\ step[p] \in Locked /\ Holds("genesis") /\ db = TRUE /\ key \in BOOLEAN
        /\ marker \in Marker \cup {Nothing}
        /\ (anchor = Nothing \/ anchor \in AnchorFile) /\ OnDisk
    BY <1>1, HolderKnows
  <1>3. CASE Refuse(p)
    BY <1>2, <1>3, RefuseKeeps
  <1>4. CASE /\ ledger = <<>> /\ BaselineHolds
             /\ ledger' = <<[type |-> "genesis", authority |-> marker.baseline]>>
             /\ Proceed(p, "anchor")
             /\ UNCHANGED <<db, identity, authority, marker, key, anchor>>
    <2>1. /\ Goto(p, "anchor")
          /\ UNCHANGED <<inst, db, identity, authority, marker, key, anchor, lock, bound, ready,
                         saver, spent>>
      BY <1>4 DEF Proceed
    <2>2. marker # Nothing /\ marker.baseline \in Authority
      BY <1>2 DEF Holds, Marker
    <2>3. /\ ledger' \in Seq(Row) /\ Len(ledger') = 1 /\ ledger' # <<>>
          /\ ledger'[1].authority = marker.baseline /\ Foundations(ledger')
          /\ ~Sealed(ledger')
      BY <1>4, <2>2, FoundingRows
    <2>4. Holds("anchor")'
      BY <1>2, <2>1, <2>2, <2>3 DEF Holds
    <2>5. OnDisk'
      BY <1>2, <2>1, <2>2, <2>3 DEF OnDisk, SealedBeforeForgotten
    <2>6. AnchorFollows => AnchorFollows'
      <3>1. ASSUME NEW c \in Seq(Row), NEW l \in Seq(Row), IsPrefix(c, <<>>)
            PROVE  IsPrefix(c, l)
        <4>1. Len(c) = 0 /\ c = <<>> /\ Len(l) \in Nat
          BY <3>1 DEF IsPrefix
        <4>2. SubSeq(c, 1, 0) = SubSeq(l, 1, 0)
          BY <4>1
        <4>3. QED
          BY <4>1, <4>2 DEF IsPrefix
      <3>2. QED
        BY <1>2, <1>4, <2>1, <2>3, <3>1 DEF AnchorFollows, AnchorFile
    <2>7. Accounted' /\ ~Sealed(ledger)
      <3>1. ~Sealed(<<>>)
        BY DEF Sealed, Rows
      <3>2. QED
        BY <1>4, <2>3, <3>1 DEF Accounted
    <2>8. QED
      BY <1>1, <1>2, <1>4, <2>1, <2>2, <2>3, <2>4, <2>5, <2>6, <2>7, HolderWorks
  <1>5. QED
    BY <1>3, <1>4 DEF CreateGenesis

LEMMA WriteFirstAnchorKeeps ==
    ASSUME WholeInv, NEW p \in Processes, WriteFirstAnchor(p)
    PROVE  WholeInv'
  <1>1. At(p, "anchor") /\ "anchor" \in Locked /\ "checkpoint" \in Locked
    BY DEF WriteFirstAnchor, Locked, Steps, Importing
  <1>2. step[p] \in Locked /\ Holds("anchor") /\ db = TRUE
    BY <1>1, HolderKnows
  <1>3. CASE Refuse(p)
    BY <1>2, <1>3, RefuseKeeps
  <1>4. CASE /\ anchor' = AnchorAt(ledger) /\ Proceed(p, "checkpoint")
             /\ UNCHANGED <<db, identity, ledger, authority, marker, key>>
    <2>1. Holds("checkpoint") /\ marker # Nothing
      BY <1>2 DEF Holds
    <2>2. QED
      BY <1>1, <1>2, <1>4, <2>1, HolderAnchors DEF Proceed
  <1>5. QED
    BY <1>3, <1>4 DEF WriteFirstAnchor

LEMMA ResumeKeeps ==
    ASSUME WholeInv, NEW p \in Processes, Resume(p)
    PROVE  WholeInv'
  <1>1. /\ At(p, "resume") /\ "resume" \in Locked /\ "anchor" \in Locked
        /\ "checkpoint" \in Locked
    BY DEF Resume, Locked, Steps, Importing
  <1>2. step[p] \in Locked /\ Holds("resume") /\ db = TRUE
    BY <1>1, HolderKnows
  <1>3. Holds("anchor") /\ Holds("checkpoint")
    BY <1>2 DEF Holds
  <1>4. CASE Refuse(p)
    BY <1>2, <1>4, RefuseKeeps
  <1>5. CASE Proceed(p, "anchor") /\ UNCHANGED disk
    BY <1>1, <1>2, <1>3, <1>5, HolderGoes DEF Proceed
  <1>6. CASE Proceed(p, "checkpoint") /\ UNCHANGED disk
    BY <1>1, <1>2, <1>3, <1>6, HolderGoes DEF Proceed
  <1>7. QED
    BY <1>4, <1>5, <1>6 DEF Resume

LEMMA OpenExistingKeeps ==
    ASSUME WholeInv, NEW p \in Processes, OpenExisting(p)
    PROVE  WholeInv'
  <1>1. At(p, "open") /\ "open" \in Locked /\ "checkpoint" \in Locked
    BY DEF OpenExisting, Locked, Steps, Importing
  <1>2. step[p] \in Locked /\ Holds("open") /\ db = TRUE /\ Len(ledger) \in Nat
    BY <1>1, HolderKnows
  <1>3. CASE Refuse(p)
    BY <1>2, <1>3, RefuseKeeps
  <1>4. CASE /\ ContinuesAnchor /\ anchor' = AnchorAt(ledger)
             /\ Len(ledger) > 1 /\ Proceed(p, "checkpoint")
             /\ UNCHANGED <<db, identity, ledger, authority, marker, key>>
    <2>1. Holds("checkpoint")
      BY <1>2, <1>4 DEF Holds
    <2>2. QED
      BY <1>1, <1>2, <1>4, <2>1, HolderAnchors DEF Proceed
  <1>5. CASE /\ ContinuesAnchor /\ anchor' = AnchorAt(ledger)
             /\ Goto(p, "idle") /\ lock' = NoProcess
             /\ UNCHANGED <<inst, bound, ready, saver, spent>>
             /\ UNCHANGED <<db, identity, ledger, authority, marker, key>>
    <2>1. Holds("idle")
      BY DEF Holds
    <2>2. QED
      BY <1>2, <1>5, <2>1, HolderAnchors
  <1>6. QED
    BY <1>3, <1>4, <1>5 DEF OpenExisting

LEMMA AdvanceAnchorKeeps ==
    ASSUME WholeInv, NEW p \in Processes, AdvanceAnchor(p)
    PROVE  WholeInv'
  <1>1. At(p, "advance") /\ "advance" \in Locked /\ "verify" \in Locked
    BY DEF AdvanceAnchor, Locked, Steps, Importing
  <1>2. step[p] \in Locked /\ Holds("advance") /\ db = TRUE
    BY <1>1, HolderKnows
  <1>3. Holds("verify")
    BY <1>2 DEF Holds
  <1>4. CASE Refuse(p)
    BY <1>2, <1>4, RefuseKeeps
  <1>5. CASE /\ ContinuesAnchor /\ anchor' = AnchorAt(ledger) /\ Proceed(p, "verify")
             /\ UNCHANGED <<db, identity, ledger, authority, marker, key>>
    BY <1>1, <1>2, <1>3, <1>5, HolderAnchors DEF Proceed
  <1>6. QED
    BY <1>4, <1>5 DEF AdvanceAnchor

LEMMA VerifyWorkspaceKeeps ==
    ASSUME WholeInv, NEW p \in Processes, VerifyWorkspace(p)
    PROVE  WholeInv'
  <1>1. /\ At(p, "verify") /\ "verify" \in Locked /\ "clear" \in Locked
        /\ UNCHANGED <<db, identity, ledger, authority, marker, key>>
    BY DEF VerifyWorkspace, Locked, Steps, Importing
  <1>2. step[p] \in Locked /\ db = TRUE
    BY <1>1, HolderKnows
  <1>3. CASE ContinuesAnchor /\ SnapshotHolds
    <2>1. Sealed(ledger) /\ anchor' = AnchorAt(ledger) /\ Proceed(p, "clear")
      BY <1>3 DEF VerifyWorkspace, SnapshotHolds
    <2>2. QED
      BY <1>1, <1>2, <1>3, <2>1, HolderAnchors DEF Proceed
  <1>4. CASE ~(ContinuesAnchor /\ SnapshotHolds)
    <2>1. /\ Goto(p, "idle") /\ lock' = NoProcess
          /\ UNCHANGED <<inst, bound, ready, saver, spent>>
      BY <1>4 DEF VerifyWorkspace
    <2>2. CASE ContinuesAnchor
      <3>1. anchor' = AnchorAt(ledger)
        BY <2>2 DEF VerifyWorkspace
      <3>2. Holds("idle")
        BY DEF Holds
      <3>3. QED
        BY <1>1, <1>2, <2>1, <2>2, <3>1, <3>2, HolderAnchors
    <2>3. CASE ~ContinuesAnchor
      <3>1. anchor' = anchor
        BY <2>3 DEF VerifyWorkspace
      <3>2. Refuse(p)
        BY <1>1, <2>1, <3>1 DEF Refuse, disk
      <3>3. QED
        BY <1>2, <3>2, RefuseKeeps
    <2>4. QED
      BY <2>2, <2>3
  <1>5. QED
    BY <1>3, <1>4

LEMMA ClearMarkerKeeps ==
    ASSUME WholeInv, NEW p \in Processes, ClearMarker(p)
    PROVE  WholeInv'
  <1>1. /\ At(p, "clear") /\ "clear" \in Locked /\ Goto(p, "idle") /\ lock' = NoProcess
        /\ marker' = Nothing /\ ready' = [ready EXCEPT ![p] = TRUE]
        /\ UNCHANGED <<inst, db, identity, ledger, authority, key, anchor, bound, saver, spent>>
    BY DEF ClearMarker, Locked, Steps, Importing
  <1>2. /\ step[p] \in Locked /\ Holds("clear") /\ db = TRUE /\ ledger \in Seq(Row)
        /\ key \in BOOLEAN /\ (anchor = Nothing \/ anchor \in AnchorFile) /\ OnDisk
    BY <1>1, HolderKnows
  <1>3. AnchorSealed /\ ledger # <<>>
    BY <1>2 DEF Holds
  <1>4. OnDisk'
    BY <1>1, <1>2, <1>3 DEF OnDisk, SealedBeforeForgotten, AnchorSealed
  <1>5. Holds("idle")'
    BY DEF Holds
  <1>6. (AnchorFollows => AnchorFollows') /\ (Accounted => Accounted')
    BY <1>1 DEF AnchorFollows, Accounted, SnapshotHolds
  <1>7. QED
    BY <1>1, <1>2, <1>3, <1>4, <1>5, <1>6, HolderWorks

LEMMA EnsureCheckpointKeeps ==
    ASSUME WholeInv, NEW p \in Processes, EnsureCheckpoint(p)
    PROVE  WholeInv'
  <1> DEFINE present == Rows(ledger, "checkpoint") # {}
             sealing == [type |-> "checkpoint", authority |-> authority]
  <1>1. /\ At(p, "checkpoint") /\ "checkpoint" \in Locked /\ "verify" \in Locked
        /\ "advance" \in Locked /\ "insert" \in Locked
    BY DEF EnsureCheckpoint, Locked, Steps, Importing
  <1>2. /\ step[p] \in Locked /\ Holds("checkpoint") /\ db = TRUE
        /\ ledger \in Seq(Row) /\ authority \in Authority /\ key \in BOOLEAN
        /\ marker \in Marker \cup {Nothing} /\ (anchor = Nothing \/ anchor \in AnchorFile)
        /\ OnDisk /\ Foundations(ledger) /\ Len(ledger) \in Nat
    BY <1>1, HolderKnows
  <1>3. Holds("verify") /\ Holds("advance") /\ ledger # <<>>
    BY <1>2 DEF Holds
  <1>4. CASE Refuse(p)
    BY <1>2, <1>4, RefuseKeeps
  <1>5. CASE Proceed(p, "verify") /\ UNCHANGED disk
    BY <1>1, <1>2, <1>3, <1>5, HolderGoes DEF Proceed
  <1>6. CASE Proceed(p, "advance") /\ UNCHANGED disk
    BY <1>1, <1>2, <1>3, <1>6, HolderGoes DEF Proceed
  <1>7. CASE /\ marker = Nothing /\ ~present
             /\ ledger' = Append(ledger, sealing) /\ Proceed(p, "advance")
             /\ UNCHANGED <<db, identity, authority, marker, key, anchor>>
    <2>1. /\ Goto(p, "advance")
          /\ UNCHANGED <<inst, lock, bound, ready, saver, spent>>
      BY <1>7 DEF Proceed
    <2>2. PICK r : r = sealing
      OBVIOUS
    <2>3. r \in Row /\ r.type = "checkpoint" /\ r.authority = authority
      BY <1>2, <2>2 DEF Row
    <2>4. Len(ledger) >= 2
      BY <1>2, <1>7 DEF Holds
    <2>5. /\ ledger' \in Seq(Row) /\ ledger' # <<>> /\ Len(ledger') = Len(ledger) + 1
          /\ Last(ledger') = r
      BY <1>2, <1>3, <1>7, <2>2, <2>3, RowAppended
    <2>6. Sealed(ledger')
      BY <1>2, <1>3, <1>7, <2>2, <2>3, RowsGrow
    <2>7. Foundations(ledger')
      BY <1>2, <1>3, <1>7, <2>2, <2>3, <2>4, FoundationsGrow
    <2>8. AnchorFollows => AnchorFollows'
      BY <1>2, <1>3, <1>7, <2>2, <2>3, PrefixesGrow DEF AnchorFollows, AnchorFile
    <2>9. OnDisk'
      <3>1. Len(ledger') >= 3 /\ Len(ledger') \in Nat
        BY <1>2, <2>4, <2>5
      <3>2. Len(ledger') \notin 1..2
        <4>1. \A n \in 1..2 : ~(n >= 3)
          OBVIOUS
        <4>2. QED
          BY <3>1, <4>1
      <3>3. SealedBeforeForgotten'
        BY <3>2 DEF SealedBeforeForgotten
      <3>4. QED
        BY <1>2, <1>7, <2>7, <3>1, <3>3 DEF OnDisk
    <2>10. Holds("advance")'
      BY <1>2, <1>7, <2>5 DEF Holds
    <2>11. Accounted'
      BY <1>7, <2>3, <2>5, <2>6 DEF Accounted, SnapshotHolds
    <2>12. QED
      BY <1>1, <1>2, <1>7, <2>1, <2>5, <2>6, <2>8, <2>9, <2>10, <2>11, HolderWorks
  <1>8. CASE /\ marker # Nothing /\ BaselineHolds /\ ~present
             /\ marker' = IF marker.plan = NoPlan
                          THEN [marker EXCEPT !.plan = [kind |-> "plan",
                                                        authority |-> authority]]
                          ELSE marker
             /\ Proceed(p, "insert")
             /\ UNCHANGED <<db, identity, ledger, authority, key, anchor>>
    <2>1. /\ Goto(p, "insert")
          /\ UNCHANGED <<inst, lock, bound, ready, saver, spent>>
      BY <1>8 DEF Proceed
    <2>2. PICK plan : plan = [kind |-> "plan", authority |-> authority]
      OBVIOUS
    <2>3. /\ plan \in Plan /\ plan # NoPlan /\ plan.authority = authority
      <3>1. plan \in Plan /\ plan.kind = "plan" /\ plan.authority = authority
        BY <1>2, <2>2 DEF Plan
      <3>2. NoPlan.kind = "no plan"
        BY DEF NoPlan
      <3>3. plan # NoPlan
        BY <3>1, <3>2
      <3>4. QED
        BY <3>1, <3>3
    <2>4. /\ marker' \in Marker /\ marker' # Nothing /\ marker'.plan # NoPlan
          /\ marker'.baseline = marker.baseline
          /\ marker'.plan.authority = marker'.baseline
      <3>1. marker \in Marker /\ marker.baseline = authority
        BY <1>2, <1>8 DEF BaselineHolds
      <3>2. CASE marker.plan = NoPlan
        <4>1. marker' = [marker EXCEPT !.plan = plan]
          BY <1>8, <2>2, <3>2
        <4>2. /\ marker' \in Marker /\ marker'.plan = plan /\ marker'.kind = "marker"
              /\ marker'.baseline = marker.baseline
          BY <2>3, <3>1, <4>1 DEF Marker
        <4>3. marker' # Nothing
          BY <4>2 DEF Nothing
        <4>4. QED
          BY <2>3, <3>1, <4>2, <4>3
      <3>3. CASE marker.plan # NoPlan
        BY <1>2, <1>8, <3>1, <3>3 DEF OnDisk
      <3>4. QED
        BY <3>2, <3>3
    <2>5. OnDisk'
      BY <1>2, <1>8, <2>4 DEF OnDisk, SealedBeforeForgotten
    <2>6. Holds("insert")'
      BY <1>2, <1>3, <1>8, <2>4 DEF Holds
    <2>7. (AnchorFollows => AnchorFollows') /\ (Accounted => Accounted')
      BY <1>8, <2>1 DEF AnchorFollows, Accounted, SnapshotHolds
    <2>8. QED
      BY <1>1, <1>2, <1>3, <1>8, <2>1, <2>4, <2>5, <2>6, <2>7, HolderWorks
  <1>9. QED
    BY <1>4, <1>5, <1>6, <1>7, <1>8 DEF EnsureCheckpoint

LEMMA InsertCheckpointKeeps ==
    ASSUME WholeInv, NEW p \in Processes, InsertCheckpoint(p)
    PROVE  WholeInv'
  <1>1. At(p, "insert") /\ "insert" \in Locked /\ "advance" \in Locked
    BY DEF InsertCheckpoint, Locked, Steps, Importing
  <1>2. /\ step[p] \in Locked /\ Holds("insert") /\ db = TRUE
        /\ ledger \in Seq(Row) /\ authority \in Authority /\ key \in BOOLEAN
        /\ marker \in Marker \cup {Nothing} /\ (anchor = Nothing \/ anchor \in AnchorFile)
        /\ OnDisk /\ Foundations(ledger) /\ Len(ledger) \in Nat
    BY <1>1, HolderKnows
  <1>3. CASE Refuse(p)
    BY <1>2, <1>3, RefuseKeeps
  <1>4. CASE /\ marker.plan.authority = authority /\ Len(ledger) = 1
             /\ ledger' = Append(ledger, [type |-> "checkpoint",
                                          authority |-> marker.plan.authority])
             /\ Proceed(p, "advance")
             /\ UNCHANGED <<db, identity, authority, marker, key, anchor>>
    <2>1. /\ Goto(p, "advance")
          /\ UNCHANGED <<inst, lock, bound, ready, saver, spent>>
      BY <1>4 DEF Proceed
    <2>2. PICK r : r = [type |-> "checkpoint", authority |-> marker.plan.authority]
      OBVIOUS
    <2>3. r \in Row /\ r.type = "checkpoint" /\ r.authority = authority
      BY <1>2, <1>4, <2>2 DEF Row
    <2>4. /\ marker # Nothing /\ ledger # <<>> /\ authority = marker.baseline
          /\ ledger[1].authority = authority
      BY <1>2, <1>4 DEF Holds, OnDisk
    <2>5. /\ ledger' \in Seq(Row) /\ ledger' # <<>> /\ Len(ledger') = 2
          /\ Last(ledger') = r
      <3>1. ledger' = Append(ledger, r)
        BY <1>4, <2>2
      <3>2. /\ ledger' \in Seq(Row) /\ ledger' # <<>> /\ Len(ledger') = Len(ledger) + 1
            /\ Last(ledger') = r
        BY <1>2, <2>3, <2>4, <3>1, RowAppended
      <3>3. QED
        BY <1>4, <3>2
    <2>6. Sealed(ledger')
      BY <1>2, <1>4, <2>2, <2>3, <2>4, RowsGrow
    <2>7. Rows(ledger, "checkpoint") = {}
      <3>1. \A i \in DOMAIN ledger : i = 1
        BY <1>2, <1>4
      <3>2. QED
        BY <1>2, <2>4, <3>1 DEF Rows, Foundations
    <2>8. Foundations(ledger')
      BY <1>2, <1>4, <2>2, <2>3, <2>4, <2>7, FoundationsGrow
    <2>9. AnchorFollows => AnchorFollows'
      BY <1>2, <1>4, <2>2, <2>3, <2>4, PrefixesGrow DEF AnchorFollows, AnchorFile
    <2>10. OnDisk'
      BY <1>2, <1>4, <2>4, <2>5, <2>8 DEF OnDisk, SealedBeforeForgotten
    <2>11. Holds("advance")'
      BY <1>2, <1>4, <2>5 DEF Holds
    <2>12. Accounted'
      BY <1>4, <2>3, <2>5, <2>6 DEF Accounted, SnapshotHolds
    <2>13. QED
      BY <1>1, <1>2, <1>4, <2>1, <2>5, <2>6, <2>9, <2>10, <2>11, <2>12, HolderWorks
  <1>5. QED
    BY <1>3, <1>4 DEF InsertCheckpoint

-----------------------------------------------------------------------------
(* Steps of processes without the lock.                                    *)

\* Processes move, the database, the marker and the anchor stay.
LEMMA OthersMove ==
    ASSUME WholeInv, UNCHANGED <<inst, db, ledger, authority, marker, anchor>>,
           identity' \in BOOLEAN, key' \in BOOLEAN, lock' \in Processes \cup {NoProcess},
           step' \in [Processes -> Steps], bound' \in [Processes -> BOOLEAN],
           ready' \in [Processes -> BOOLEAN], saver' \in [Processes -> Saver],
           spent' \in [crashes : Nat, edits : Nat, saves : Nat], spent'.edits = spent.edits,
           Control', Turns', \A q \in Processes : Holds(step'[q]),
           \A q \in Processes : ready'[q] => ready[q],
           \A q \in Processes : step'[q] \in {"import", "import key", "stage"} =>
              step[q] \in {"import", "import key", "stage"} \/ anchor = Nothing
    PROVE  WholeInv'
  <1>1. Typed'
    BY DEF WholeInv, FoundingInv, Typed, TypeOK
  <1>2. Underway'
    <2>1. \A q \in Processes : Holds(step[q])'
      BY DEF Holds, AnchorSealed
    <2>2. QED
      BY <2>1 DEF Underway
  <1>3. Served'
    BY DEF WholeInv, FoundingInv, Served
  <1>4. OnDisk'
    BY DEF WholeInv, FoundingInv, OnDisk, SealedBeforeForgotten
  <1>5. Behind'
    BY DEF WholeInv, Behind, Undisturbed, OneProcess, AnchorFollows
  <1>6. Counted'
    BY DEF WholeInv, Counted, InTurns, OneProcess, Accounted, SnapshotHolds
  <1>7. QED
    BY <1>1, <1>2, <1>3, <1>4, <1>5, <1>6 DEF WholeInv, FoundingInv

LEMMA ProcessesTyped ==
    ASSUME WholeInv
    PROVE  /\ Typed /\ Control /\ Turns /\ Underway /\ Served /\ OnDisk
           /\ inst \in Instances /\ db \in BOOLEAN /\ identity \in BOOLEAN /\ key \in BOOLEAN
           /\ ledger \in Seq(Row) /\ authority \in Authority
           /\ marker \in Marker \cup {Nothing} /\ (anchor = Nothing \/ anchor \in AnchorFile)
           /\ lock \in Processes \cup {NoProcess} /\ step \in [Processes -> Steps]
           /\ bound \in [Processes -> BOOLEAN] /\ ready \in [Processes -> BOOLEAN]
           /\ saver \in [Processes -> Saver]
           /\ spent \in [crashes : Nat, edits : Nat, saves : Nat]
           /\ \A q \in Processes : Holds(step[q])
           /\ NoProcess \notin Processes
  BY BootstrapAssumption DEF WholeInv, FoundingInv, Typed, TypeOK, Underway

LEMMA EnterKeeps ==
    ASSUME WholeInv, NEW p \in Processes, Enter(p)
    PROVE  WholeInv'
  <1>1. /\ step[p] = "wait" /\ lock = NoProcess /\ lock' = p
        /\ bound' = [bound EXCEPT ![p] = TRUE]
        /\ UNCHANGED <<inst, db, identity, ledger, authority, marker, key, anchor, ready,
                       saver, spent>>
    BY DEF Enter, At, disk
  <1>2. /\ Control /\ Turns /\ Underway /\ Typed /\ \A q \in Processes : Holds(step[q])
        /\ identity \in BOOLEAN /\ key \in BOOLEAN
        /\ bound \in [Processes -> BOOLEAN] /\ ready \in [Processes -> BOOLEAN]
        /\ saver \in [Processes -> Saver] /\ NoProcess \notin Processes
        /\ spent \in [crashes : Nat, edits : Nat, saves : Nat]
    BY ProcessesTyped
  <1>3. PICK s \in {"prepare", "key", "resume", "open"} :
           /\ Goto(p, s)
           /\ s = "prepare" => ledger = <<>> /\ marker = Nothing
           /\ s = "key" => marker # Nothing
           /\ s = "resume" => ledger # <<>> /\ marker # Nothing
           /\ s = "open" => ledger # <<>> /\ marker = Nothing
    BY DEF Enter
  <1>4. s \in Steps /\ s \in Locked /\ s \notin Importing /\ "wait" \notin Locked /\ s # "idle"
    BY DEF Steps, Locked, Importing
  <1>5. /\ step' \in [Processes -> Steps] /\ step'[p] = s
        /\ \A q \in Processes : q # p => step'[q] = step[q]
    BY <1>2, <1>3, <1>4, Moved
  <1>6. Holds(s)
    <2>1. db = TRUE
      BY <1>1, <1>2 DEF Holds, Typed, TypeOK
    <2>2. s = "prepare" => Len(ledger) # 1
      BY <1>3
    <2>3. CASE s = "prepare"
      BY <1>3, <2>1, <2>2, <2>3 DEF Holds
    <2>4. CASE s = "key"
      BY <1>3, <2>1, <2>4 DEF Holds
    <2>5. CASE s = "resume"
      BY <1>3, <2>1, <2>5 DEF Holds
    <2>6. CASE s = "open"
      BY <1>3, <2>1, <2>6 DEF Holds
    <2>7. QED
      BY <2>3, <2>4, <2>5, <2>6
  <1>7. p \in inst.opens
    BY <1>1, Opener
  <1>8. Control'
    BY <1>1, <1>2, <1>4, <1>5, <1>7 DEF Control
  <1>9. Turns'
    BY <1>1, <1>2, <1>4, <1>5 DEF Turns, InTurns, OneProcess
  <1>10. \A q \in Processes : Holds(step'[q])
    BY <1>2, <1>5, <1>6
  <1>11. \A q \in Processes : step'[q] \in {"import", "import key", "stage"} =>
            step[q] \in {"import", "import key", "stage"}
    BY <1>3, <1>5
  <1>12. QED
    BY <1>1, <1>2, <1>5, <1>8, <1>9, <1>10, <1>11, OthersMove

LEMMA EnterRefusedKeeps ==
    ASSUME WholeInv, NEW p \in Processes, EnterRefused(p)
    PROVE  WholeInv'
  <1>1. /\ step[p] = "wait" /\ Goto(p, "idle") /\ bound' = [bound EXCEPT ![p] = TRUE]
        /\ UNCHANGED <<inst, db, identity, ledger, authority, marker, key, anchor, lock, ready,
                       saver, spent>>
    BY DEF EnterRefused, At, disk
  <1>2. /\ Control /\ Turns /\ Typed /\ \A q \in Processes : Holds(step[q])
        /\ identity \in BOOLEAN /\ key \in BOOLEAN /\ lock \in Processes \cup {NoProcess}
        /\ bound \in [Processes -> BOOLEAN] /\ ready \in [Processes -> BOOLEAN]
        /\ saver \in [Processes -> Saver]
        /\ spent \in [crashes : Nat, edits : Nat, saves : Nat]
    BY ProcessesTyped
  <1>3. "idle" \in Steps /\ {"idle", "wait"} \cap (Locked \cup Importing) = {}
    BY DEF Steps, Locked, Importing
  <1>4. /\ step' \in [Processes -> Steps] /\ step'[p] = "idle"
        /\ \A q \in Processes : q # p => step'[q] = step[q]
    BY <1>1, <1>2, <1>3, Moved
  <1>5. p \in inst.opens
    BY <1>1, Opener
  <1>6. Control'
    BY <1>1, <1>2, <1>3, <1>4, <1>5 DEF Control
  <1>7. Turns'
    BY <1>1, <1>2, <1>4 DEF Turns, InTurns, OneProcess
  <1>8. \A q \in Processes : Holds(step'[q])
    BY <1>2, <1>4 DEF Holds
  <1>9. \A q \in Processes : step'[q] \in {"import", "import key", "stage"} =>
           step[q] \in {"import", "import key", "stage"}
    BY <1>4
  <1>10. QED
    BY <1>1, <1>2, <1>4, <1>6, <1>7, <1>8, <1>9, OthersMove

\* Of one process alone, none holds the lock while it waits.
LEMMA LockTimeoutKeeps ==
    ASSUME WholeInv, NEW p \in Processes, LockTimeout(p)
    PROVE  WholeInv'
  <1>1. /\ step[p] = "wait" /\ Goto(p, "idle") /\ inst.timeouts /\ lock # NoProcess
        /\ UNCHANGED <<inst, db, identity, ledger, authority, marker, key, anchor, lock, bound,
                       ready, saver, spent>>
    BY DEF LockTimeout, At, disk
  <1>2. /\ Control /\ Turns /\ Typed /\ \A q \in Processes : Holds(step[q])
        /\ identity \in BOOLEAN /\ key \in BOOLEAN /\ lock \in Processes \cup {NoProcess}
        /\ bound \in [Processes -> BOOLEAN] /\ ready \in [Processes -> BOOLEAN]
        /\ saver \in [Processes -> Saver]
        /\ spent \in [crashes : Nat, edits : Nat, saves : Nat]
    BY ProcessesTyped
  <1>3. "idle" \in Steps /\ {"idle", "wait"} \cap (Locked \cup Importing) = {}
    BY DEF Steps, Locked, Importing
  <1>4. /\ step' \in [Processes -> Steps] /\ step'[p] = "idle"
        /\ \A q \in Processes : q # p => step'[q] = step[q]
    BY <1>1, <1>2, <1>3, Moved
  <1>5. p \in inst.opens
    BY <1>1, Opener
  <1>6. Control'
    BY <1>1, <1>2, <1>3, <1>4, <1>5 DEF Control
  <1>7. ~InTurns
    <2>1. PICK q \in Processes : lock = q
      BY <1>1, <1>2
    <2>2. step[q] \in Locked
      BY <1>2, <2>1 DEF Control
    <2>3. q # p /\ q \in inst.opens
      BY <1>1, <1>3, <2>2, Opener
    <2>4. ~OneProcess
      BY <1>2, <1>5, <2>3, OnlyOne
    <2>5. QED
      BY <1>1, <2>4 DEF InTurns
  <1>8. Turns'
    BY <1>1, <1>7 DEF Turns, InTurns, OneProcess
  <1>9. \A q \in Processes : Holds(step'[q])
    BY <1>2, <1>4 DEF Holds
  <1>10. \A q \in Processes : step'[q] \in {"import", "import key", "stage"} =>
            step[q] \in {"import", "import key", "stage"}
    BY <1>4
  <1>11. QED
    BY <1>1, <1>2, <1>4, <1>6, <1>8, <1>9, <1>10, OthersMove

LEMMA CrashKeeps ==
    ASSUME WholeInv, NEW p \in Processes, Crash(p)
    PROVE  WholeInv'
  <1>1. /\ step[p] # "idle" \/ ready[p]
        /\ Goto(p, "idle") /\ lock' = (IF lock = p THEN NoProcess ELSE lock)
        /\ bound' = [bound EXCEPT ![p] = FALSE] /\ ready' = [ready EXCEPT ![p] = FALSE]
        /\ saver' = [saver EXCEPT ![p] = NoSave]
        /\ spent' = [spent EXCEPT !.crashes = spent.crashes + 1]
        /\ UNCHANGED <<inst, db, identity, ledger, authority, marker, key, anchor>>
    BY DEF Crash, At, disk
  <1>2. /\ Control /\ Turns /\ Typed /\ \A q \in Processes : Holds(step[q])
        /\ identity \in BOOLEAN /\ key \in BOOLEAN /\ lock \in Processes \cup {NoProcess}
        /\ bound \in [Processes -> BOOLEAN] /\ ready \in [Processes -> BOOLEAN]
        /\ saver \in [Processes -> Saver]
        /\ spent \in [crashes : Nat, edits : Nat, saves : Nat]
        /\ NoProcess \notin Processes
    BY ProcessesTyped
  <1>3. "idle" \in Steps /\ "idle" \notin Locked /\ "idle" \notin Importing /\ NoSave \in Saver
    BY DEF Steps, Locked, Importing, NoSave, Saver
  <1>4. /\ step' \in [Processes -> Steps] /\ step'[p] = "idle"
        /\ \A q \in Processes : q # p => step'[q] = step[q]
    BY <1>1, <1>2, <1>3, Moved
  <1>5. /\ bound' \in [Processes -> BOOLEAN] /\ ready' \in [Processes -> BOOLEAN]
        /\ saver' \in [Processes -> Saver]
        /\ bound'[p] = FALSE /\ ready'[p] = FALSE /\ saver'[p] = NoSave
        /\ \A q \in Processes : q # p =>
              bound'[q] = bound[q] /\ ready'[q] = ready[q] /\ saver'[q] = saver[q]
    BY <1>1, <1>2, <1>3
  <1>6. spent' \in [crashes : Nat, edits : Nat, saves : Nat] /\ spent'.edits = spent.edits
    BY <1>1, <1>2
  <1>7. lock' \in Processes \cup {NoProcess}
    BY <1>1, <1>2
  <1>8. Control'
    <2>1. \A q \in Processes : step'[q] \in Locked <=> lock' = q
      BY <1>1, <1>2, <1>3, <1>4 DEF Control
    <2>2. /\ \A q \in Processes : step'[q] \in Locked => bound'[q]
          /\ \A q \in Processes \ inst.opens :
                step'[q] = "idle" /\ saver'[q] = NoSave /\ ~ready'[q]
          /\ \A q \in Processes : saver'[q] # NoSave => ready'[q]
          /\ \A q \in Processes : step'[q] \in Importing => inst.past = "backup" /\ ~ready'[q]
      BY <1>2, <1>3, <1>4, <1>5 DEF Control
    <2>3. QED
      BY <1>1, <2>1, <2>2 DEF Control
  <1>9. Turns'
    BY <1>1, <1>2, <1>4, <1>5 DEF Turns, InTurns, OneProcess
  <1>10. \A q \in Processes : Holds(step'[q])
    BY <1>2, <1>4 DEF Holds
  <1>11. /\ \A q \in Processes : ready'[q] => ready[q]
         /\ \A q \in Processes : step'[q] \in {"import", "import key", "stage"} =>
               step[q] \in {"import", "import key", "stage"}
    BY <1>4, <1>5
  <1>12. QED
    BY <1>1, <1>2, <1>4, <1>5, <1>6, <1>7, <1>8, <1>9, <1>10, <1>11, OthersMove

\* An import moves on without touching the database.
LEMMA ImporterMoves ==
    ASSUME WholeInv, NEW p \in Processes, p \in inst.opens, inst.past = "backup",
           ~ready[p], saver[p] = NoSave, step[p] \in Importing \cup {"idle"},
           NEW s \in Importing \cup {"idle"}, Goto(p, s), Holds(s),
           identity' \in BOOLEAN, key' \in BOOLEAN,
           UNCHANGED <<inst, db, ledger, authority, marker, anchor, lock, bound, ready, saver,
                       spent>>,
           s \in {"import", "import key", "stage"} =>
              step[p] \in {"import", "import key", "stage"} \/ anchor = Nothing
    PROVE  WholeInv'
  <1>1. /\ Control /\ Turns /\ Typed /\ \A q \in Processes : Holds(step[q])
        /\ lock \in Processes \cup {NoProcess}
        /\ bound \in [Processes -> BOOLEAN] /\ ready \in [Processes -> BOOLEAN]
        /\ saver \in [Processes -> Saver]
        /\ spent \in [crashes : Nat, edits : Nat, saves : Nat]
    BY ProcessesTyped
  <1>2. s \in Steps /\ (Importing \cup {"idle"}) \cap Locked = {} /\ "idle" \notin Importing
    BY DEF Steps, Locked, Importing
  <1>3. /\ step' \in [Processes -> Steps] /\ step'[p] = s
        /\ \A q \in Processes : q # p => step'[q] = step[q]
    BY <1>1, <1>2, Moved
  <1>4. Control'
    <2>1. s \notin Locked /\ step[p] \notin Locked
      BY <1>2
    <2>2. QED
      BY <1>1, <1>3, <2>1 DEF Control
  <1>5. Turns'
    BY <1>1, <1>3 DEF Turns, InTurns, OneProcess
  <1>6. \A q \in Processes : Holds(step'[q])
    BY <1>1, <1>3
  <1>7. \A q \in Processes : step'[q] \in {"import", "import key", "stage"} =>
           step[q] \in {"import", "import key", "stage"} \/ anchor = Nothing
    BY <1>3
  <1>8. QED
    BY <1>1, <1>3, <1>4, <1>5, <1>6, <1>7, OthersMove

\* What is known of whoever imports.
LEMMA ImporterKnows ==
    ASSUME WholeInv, NEW p \in Processes, step[p] \in Importing
    PROVE  /\ p \in inst.opens /\ inst.past = "backup" /\ ~ready[p] /\ saver[p] = NoSave
           /\ Holds(step[p]) /\ step[p] \notin Locked
           /\ key \in BOOLEAN /\ identity \in BOOLEAN /\ db \in BOOLEAN
  <1>1. Control /\ Holds(step[p]) /\ key \in BOOLEAN /\ identity \in BOOLEAN /\ db \in BOOLEAN
    BY ProcessesTyped
  <1>2. step[p] # "idle" /\ step[p] \notin Locked
    BY DEF Importing, Locked
  <1>3. QED
    BY <1>1, <1>2, Opener DEF Control

LEMMA BeginImportKeeps ==
    ASSUME WholeInv, NEW p \in Processes, BeginImport(p)
    PROVE  WholeInv'
  <1>1. /\ inst.past = "backup" /\ p \in inst.opens /\ step[p] = "idle" /\ ~db
        /\ identity' = TRUE /\ Goto(p, "import")
        /\ UNCHANGED <<inst, db, ledger, authority, marker, key, anchor, lock, bound, ready,
                       saver, spent>>
    BY DEF BeginImport, At
  <1>2. Control /\ Served /\ OnDisk /\ key \in BOOLEAN
    BY ProcessesTyped
  <1>3. anchor = Nothing /\ ~ready[p] /\ saver[p] = NoSave
    BY <1>1, <1>2 DEF OnDisk, Served, Control
  <1>4. "import" \in Importing /\ Holds("import")
    BY DEF Importing, Holds
  <1>5. QED
    BY <1>1, <1>2, <1>3, <1>4, ImporterMoves

LEMMA ImportTargetKeeps ==
    ASSUME WholeInv, NEW p \in Processes, ImportTarget(p)
    PROVE  WholeInv'
  <1>1. /\ step[p] = "import" /\ Goto(p, "import key")
        /\ UNCHANGED <<inst, db, identity, ledger, authority, marker, key, anchor, lock, bound,
                       ready, saver, spent>>
    BY DEF ImportTarget, At, Proceed, disk
  <1>2. /\ "import" \in Importing /\ "import key" \in Importing /\ Holds("import key")
    BY DEF Importing, Holds
  <1>3. QED
    BY <1>1, <1>2, ImporterKnows, ImporterMoves

LEMMA ImportKeyKeeps ==
    ASSUME WholeInv, NEW p \in Processes, ImportKey(p)
    PROVE  WholeInv'
  <1>1. /\ step[p] = "import key" /\ Goto(p, "stage") /\ key' = TRUE
        /\ UNCHANGED <<inst, db, identity, ledger, authority, marker, anchor, lock, bound,
                       ready, saver, spent>>
    BY DEF ImportKey, At, Proceed
  <1>2. /\ "import key" \in Importing /\ "stage" \in Importing /\ Holds("stage")
    BY DEF Importing, Holds
  <1>3. QED
    BY <1>1, <1>2, ImporterKnows, ImporterMoves

LEMMA FailImportKeeps ==
    ASSUME WholeInv, NEW p \in Processes, FailImport(p)
    PROVE  WholeInv'
  <1>1. /\ step[p] \in Importing /\ Goto(p, "idle")
        /\ identity' = FALSE /\ key' = (key /\ db)
        /\ UNCHANGED <<inst, db, ledger, authority, marker, anchor, lock, bound, ready, saver,
                       spent>>
    BY DEF FailImport, Importing
  <1>2. Holds("idle")
    BY DEF Holds
  <1>3. key' \in BOOLEAN
    BY <1>1
  <1>4. QED
    BY <1>1, <1>2, <1>3, ImporterKnows, ImporterMoves

\* The anchor may catch up with the ledger while processes move outside the lock.
LEMMA OthersAnchor ==
    ASSUME WholeInv, UNCHANGED <<inst, ledger, authority, marker>>, db' = TRUE,
           identity' \in BOOLEAN, key' \in BOOLEAN, lock' \in Processes \cup {NoProcess},
           step' \in [Processes -> Steps], bound' \in [Processes -> BOOLEAN],
           ready' \in [Processes -> BOOLEAN], saver' \in [Processes -> Saver],
           spent' \in [crashes : Nat, edits : Nat, saves : Nat], spent'.edits = spent.edits,
           Control', Turns',
           \A q \in Processes : step'[q] = step[q] \/ step'[q] \in {"idle", "wait"},
           \A q \in Processes : ready'[q] => ready[q],
           \/ anchor' = anchor
           \/ anchor' = AnchorAt(ledger) /\ ContinuesAnchor
           \/ /\ anchor' = AnchorAt(ledger) /\ Sealed(ledger)
              /\ Undisturbed => \A q \in Processes :
                    step'[q] \notin {"import", "import key", "stage"}
    PROVE  WholeInv'
  <1>1. /\ Typed /\ Served /\ OnDisk /\ \A q \in Processes : Holds(step[q])
        /\ ledger \in Seq(Row) /\ (anchor = Nothing \/ anchor \in AnchorFile) /\ Behind
    BY ProcessesTyped DEF WholeInv
  <1>2. /\ OnDisk' /\ (AnchorFollows => AnchorFollows') /\ (AnchorSealed => AnchorSealed')
        /\ anchor' = Nothing \/ anchor' \in AnchorFile
    <2>1. CASE anchor' = anchor
      BY <1>1, <2>1 DEF OnDisk, SealedBeforeForgotten, AnchorFollows, AnchorSealed
    <2>2. CASE anchor' = AnchorAt(ledger) /\ (ContinuesAnchor \/ Sealed(ledger))
      <3>1. OnDisk' /\ AnchorFollows' /\ anchor' \in AnchorFile
            /\ (Sealed(ledger) => AnchorSealed')
        BY <2>2, AnchorWritten
      <3>2. (ContinuesAnchor /\ AnchorSealed) => Sealed(ledger)
        BY <1>1, SealedPrefix DEF ContinuesAnchor, AnchorSealed, AnchorFile
      <3>3. QED
        BY <2>2, <3>1, <3>2
    <2>3. QED
      BY <2>1, <2>2
  <1>3. Typed'
    BY <1>1, <1>2 DEF Typed, TypeOK, AnchorFile, Nothing
  <1>4. Underway'
    <2>1. ASSUME NEW q \in Processes
          PROVE  Holds(step[q])'
      <3>1. PICK s : s = step'[q]
        OBVIOUS
      <3>2. CASE s \in {"idle", "wait"}
        <4>1. Holds(s)'
          BY <3>2 DEF Holds
        <4>2. QED
          BY <3>1, <4>1
      <3>3. CASE s = step[q]
        <4>1. Holds(s)
          BY <1>1, <3>3
        <4>2. Holds(s)'
          BY <1>2, <4>1 DEF Holds
        <4>3. QED
          BY <3>1, <4>2
      <3>4. QED
        BY <3>1, <3>2, <3>3
    <2>2. QED
      BY <2>1 DEF Underway
  <1>5. Served'
    BY <1>1 DEF Served
  <1>6. Behind'
    <2>1. Undisturbed' = Undisturbed
      BY DEF Undisturbed, OneProcess
    <2>2. ASSUME Undisturbed, NEW q \in Processes,
                 step'[q] \in {"import", "import key", "stage"}
          PROVE  anchor' = Nothing
      <3>1. step'[q] = step[q]
        BY <2>2
      <3>2. anchor = Nothing
        BY <1>1, <2>2, <3>1 DEF Behind
      <3>3. QED
        BY <2>2, <3>2 DEF ContinuesAnchor
    <2>3. QED
      BY <1>1, <1>2, <2>1, <2>2 DEF Behind
  <1>7. Counted'
    BY DEF WholeInv, Counted, InTurns, OneProcess, Accounted, SnapshotHolds
  <1>8. QED
    BY <1>2, <1>3, <1>4, <1>5, <1>6, <1>7 DEF WholeInv, FoundingInv

LEMMA StartKeeps ==
    ASSUME WholeInv, NEW p \in Processes, Start(p)
    PROVE  WholeInv'
  <1>1. /\ p \in inst.opens /\ step[p] = "idle" /\ (inst.serial => saver[p] = NoSave)
        /\ bound[p] => ContinuesAnchor
        /\ anchor' = (IF bound[p] THEN AnchorAt(ledger) ELSE anchor)
        /\ db' = TRUE /\ identity' = TRUE /\ bound' = [bound EXCEPT ![p] = FALSE]
        /\ Goto(p, "wait")
        /\ UNCHANGED <<inst, ledger, authority, marker, key, lock, ready, saver, spent>>
    BY DEF Start, At
  <1>2. /\ Control /\ Turns /\ Typed /\ key \in BOOLEAN /\ lock \in Processes \cup {NoProcess}
        /\ bound \in [Processes -> BOOLEAN] /\ ready \in [Processes -> BOOLEAN]
        /\ saver \in [Processes -> Saver]
        /\ spent \in [crashes : Nat, edits : Nat, saves : Nat]
    BY ProcessesTyped
  <1>3. "wait" \in Steps /\ {"idle", "wait"} \cap (Locked \cup Importing) = {}
    BY DEF Steps, Locked, Importing
  <1>4. /\ step' \in [Processes -> Steps] /\ step'[p] = "wait"
        /\ \A q \in Processes : q # p => step'[q] = step[q]
    BY <1>1, <1>2, <1>3, Moved
  <1>5. /\ bound' \in [Processes -> BOOLEAN]
        /\ \A q \in Processes : q # p => bound'[q] = bound[q]
    BY <1>1, <1>2
  <1>6. Control'
    BY <1>1, <1>2, <1>3, <1>4, <1>5 DEF Control
  <1>7. Turns'
    BY <1>1, <1>2, <1>4, <1>5 DEF Turns, InTurns, OneProcess
  <1>8. \A q \in Processes : step'[q] = step[q] \/ step'[q] \in {"idle", "wait"}
    BY <1>4
  <1>9. anchor' = anchor \/ (anchor' = AnchorAt(ledger) /\ ContinuesAnchor)
    BY <1>1
  <1>10. identity' \in BOOLEAN
    BY <1>1
  <1>11. QED
    BY <1>1, <1>2, <1>4, <1>5, <1>6, <1>7, <1>8, <1>9, <1>10, OthersAnchor

\* What is known of whoever saves.
LEMMA SaverKnows ==
    ASSUME WholeInv, NEW p \in Processes, saver[p] # NoSave
    PROVE  ready[p] /\ db = TRUE /\ ledger # <<>> /\ p \in inst.opens
           /\ (InTurns => step[p] = "idle" /\ bound[p])
  <1>1. Control /\ Served /\ Turns /\ db \in BOOLEAN
    BY ProcessesTyped
  <1>2. ready[p]
    BY <1>1 DEF Control
  <1>3. QED
    BY <1>1, <1>2, Opener DEF Served, Turns

LEMMA BeginSaveKeeps ==
    ASSUME WholeInv, NEW p \in Processes, NEW authorized \in BOOLEAN, BeginSave(p, authorized)
    PROVE  WholeInv'
  <1> DEFINE save == [at |-> "commit", authorized |-> authorized]
  <1>1. /\ ready[p] /\ (inst.serial => step[p] = "idle") /\ (bound[p] => ContinuesAnchor)
        /\ anchor' = (IF bound[p] THEN AnchorAt(ledger) ELSE anchor)
        /\ saver' = [saver EXCEPT ![p] = save]
        /\ spent' = [spent EXCEPT !.saves = spent.saves + 1]
        /\ UNCHANGED <<inst, db, identity, ledger, authority, marker, key, lock, step, bound,
                       ready>>
    BY DEF BeginSave, CanSave, At
  <1>2. /\ Control /\ Turns /\ Typed /\ Served /\ key \in BOOLEAN /\ identity \in BOOLEAN
        /\ lock \in Processes \cup {NoProcess} /\ db \in BOOLEAN
        /\ step \in [Processes -> Steps]
        /\ bound \in [Processes -> BOOLEAN] /\ ready \in [Processes -> BOOLEAN]
        /\ saver \in [Processes -> Saver]
        /\ spent \in [crashes : Nat, edits : Nat, saves : Nat]
    BY ProcessesTyped
  <1>3. db = TRUE
    BY <1>1, <1>2 DEF Served
  <1>4. save \in Saver
    BY DEF Saver
  <1> HIDE DEF save
  <1>5. /\ saver' \in [Processes -> Saver]
        /\ \A q \in Processes : q # p => saver'[q] = saver[q]
    BY <1>1, <1>2, <1>4
  <1>6. spent' \in [crashes : Nat, edits : Nat, saves : Nat] /\ spent'.edits = spent.edits
    BY <1>1, <1>2
  <1>7. p \in inst.opens
    BY <1>1, Opener
  <1>8. Control'
    BY <1>1, <1>2, <1>5, <1>7 DEF Control
  <1>9. Turns'
    BY <1>1, <1>2, <1>5 DEF Turns, InTurns, OneProcess
  <1>10. anchor' = anchor \/ (anchor' = AnchorAt(ledger) /\ ContinuesAnchor)
    BY <1>1
  <1>11. QED
    BY <1>1, <1>2, <1>3, <1>5, <1>6, <1>8, <1>9, <1>10, OthersAnchor

\* A save that ends, with its row or without one.
LEMMA SaveEnds ==
    ASSUME WholeInv, NEW p \in Processes, saver[p] # NoSave,
           saver' = [saver EXCEPT ![p] = NoSave],
           UNCHANGED <<inst, db, identity, ledger, authority, marker, key, lock, step, bound,
                       ready, spent>>,
           anchor' = anchor \/ (anchor' = AnchorAt(ledger) /\ ContinuesAnchor)
    PROVE  WholeInv'
  <1>1. /\ Control /\ Turns /\ Typed /\ key \in BOOLEAN /\ identity \in BOOLEAN
        /\ lock \in Processes \cup {NoProcess} /\ step \in [Processes -> Steps]
        /\ bound \in [Processes -> BOOLEAN] /\ ready \in [Processes -> BOOLEAN]
        /\ saver \in [Processes -> Saver]
        /\ spent \in [crashes : Nat, edits : Nat, saves : Nat]
    BY ProcessesTyped
  <1>2. db = TRUE
    BY SaverKnows
  <1>3. NoSave \in Saver
    BY DEF NoSave, Saver
  <1>4. /\ saver' \in [Processes -> Saver] /\ saver'[p] = NoSave
        /\ \A q \in Processes : q # p => saver'[q] = saver[q]
    BY <1>1, <1>3
  <1>5. Control'
    BY <1>1, <1>4 DEF Control
  <1>6. Turns'
    BY <1>1, <1>4 DEF Turns, InTurns, OneProcess
  <1>7. QED
    BY <1>1, <1>2, <1>4, <1>5, <1>6, OthersAnchor

LEMMA AdvanceAfterSaveKeeps ==
    ASSUME WholeInv, NEW p \in Processes, AdvanceAfterSave(p)
    PROVE  WholeInv'
  <1>1. saver[p].at = "advance" /\ NoSave.at = "idle"
    BY DEF AdvanceAfterSave, NoSave
  <1>2. saver[p] # NoSave
    BY <1>1
  <1>3. QED
    BY <1>2, SaveEnds DEF AdvanceAfterSave

LEMMA AnchorImportKeeps ==
    ASSUME WholeInv, NEW p \in Processes, AnchorImport(p)
    PROVE  WholeInv'
  <1>1. /\ step[p] = "import anchor" /\ anchor' = AnchorAt(ledger) /\ Goto(p, "idle")
        /\ UNCHANGED <<inst, db, identity, ledger, authority, marker, key, lock, bound, ready,
                       saver, spent>>
    BY DEF AnchorImport, At
  <1>2. /\ Control /\ Turns /\ Typed /\ key \in BOOLEAN /\ identity \in BOOLEAN
        /\ lock \in Processes \cup {NoProcess} /\ db \in BOOLEAN
        /\ bound \in [Processes -> BOOLEAN] /\ ready \in [Processes -> BOOLEAN]
        /\ saver \in [Processes -> Saver]
        /\ spent \in [crashes : Nat, edits : Nat, saves : Nat]
    BY ProcessesTyped
  <1>3. /\ p \in inst.opens /\ inst.past = "backup" /\ ~ready[p] /\ saver[p] = NoSave
        /\ Holds("import anchor")
    BY <1>1, ImporterKnows DEF Importing
  <1>4. db = TRUE /\ Sealed(ledger)
    BY <1>2, <1>3 DEF Holds
  <1>5. "idle" \in Steps /\ {"idle", "import anchor"} \cap Locked = {} /\ "idle" \notin Importing
    BY DEF Steps, Locked, Importing
  <1>6. /\ step' \in [Processes -> Steps] /\ step'[p] = "idle"
        /\ \A q \in Processes : q # p => step'[q] = step[q]
    BY <1>1, <1>2, <1>5, Moved
  <1>7. Control'
    BY <1>1, <1>2, <1>3, <1>5, <1>6 DEF Control
  <1>8. Turns'
    BY <1>1, <1>2, <1>3, <1>6 DEF Turns, InTurns, OneProcess
  <1>9. ASSUME Undisturbed, NEW q \in Processes,
               step'[q] \in {"import", "import key", "stage"}
        PROVE  FALSE
    <2>1. q # p /\ step[q] # "idle"
      BY <1>6, <1>9
    <2>2. q \in inst.opens
      BY <2>1, Opener
    <2>3. QED
      BY <1>2, <1>3, <1>9, <2>1, <2>2, OnlyOne DEF Undisturbed
  <1>10. \A q \in Processes : step'[q] = step[q] \/ step'[q] \in {"idle", "wait"}
    BY <1>6
  <1>11. QED
    BY <1>1, <1>2, <1>4, <1>6, <1>7, <1>8, <1>9, <1>10, OthersAnchor

\* A longer ledger takes away nothing that a process under way relies on.
LEMMA LongerHolds ==
    ASSUME NEW s \in Steps, Holds(s), db' = TRUE, UNCHANGED <<marker, anchor>>,
           ledger' # <<>>, Len(ledger') # 1, Len(ledger') >= 2,
           Sealed(ledger) => Sealed(ledger')
    PROVE  Holds(s)'
  BY DEF Holds, AnchorSealed

LEMMA PlaceImportKeeps ==
    ASSUME WholeInv, NEW p \in Processes, PlaceImport(p)
    PROVE  WholeInv'
  <1>1. PICK a \in Authority :
           /\ authority' = a
           /\ ledger' = <<[type |-> "genesis", authority |-> a],
                          [type |-> "checkpoint", authority |-> a],
                          [type |-> "import", authority |-> a]>>
    BY DEF PlaceImport
  <1>2. /\ step[p] = "stage" /\ db' = TRUE /\ bound' = [bound EXCEPT ![p] = TRUE]
        /\ Goto(p, "import anchor")
        /\ UNCHANGED <<inst, identity, marker, key, anchor, lock, ready, saver, spent>>
    BY DEF PlaceImport, At
  <1>3. /\ ledger' \in Seq(Row) /\ Len(ledger') = 3 /\ ledger' # <<>>
        /\ Foundations(ledger') /\ Sealed(ledger') /\ Last(ledger').authority = a
    BY <1>1, FoundingRows
  <1>4. /\ Control /\ Turns /\ Typed /\ OnDisk /\ Served /\ \A q \in Processes : Holds(step[q])
        /\ inst \in Instances /\ key \in BOOLEAN /\ identity \in BOOLEAN
        /\ marker \in Marker \cup {Nothing} /\ (anchor = Nothing \/ anchor \in AnchorFile)
        /\ lock \in Processes \cup {NoProcess} /\ step \in [Processes -> Steps]
        /\ bound \in [Processes -> BOOLEAN] /\ ready \in [Processes -> BOOLEAN]
        /\ saver \in [Processes -> Saver]
        /\ spent \in [crashes : Nat, edits : Nat, saves : Nat]
    BY ProcessesTyped
  <1>5. p \in inst.opens /\ inst.past = "backup" /\ ~ready[p] /\ saver[p] = NoSave
    BY <1>2, ImporterKnows DEF Importing
  <1>6. /\ "import anchor" \in Steps /\ {"stage", "import anchor"} \cap Locked = {}
        /\ "import anchor" \in Importing /\ "stage" \in Importing
    BY DEF Steps, Locked, Importing
  <1>7. /\ step' \in [Processes -> Steps] /\ step'[p] = "import anchor"
        /\ \A q \in Processes : q # p => step'[q] = step[q]
    BY <1>2, <1>4, <1>6, Moved
  <1>8. /\ bound' \in [Processes -> BOOLEAN]
        /\ \A q \in Processes : q # p => bound'[q] = bound[q]
    BY <1>2, <1>4
  <1>9. Typed'
    BY <1>1, <1>2, <1>3, <1>4, <1>7, <1>8 DEF Typed, TypeOK
  <1>10. Control'
    BY ZenonT(30), <1>2, <1>4, <1>5, <1>6, <1>7, <1>8 DEF Control
  <1>11. Turns'
    BY ZenonT(30), <1>2, <1>4, <1>5, <1>7, <1>8 DEF Turns, InTurns, OneProcess
  <1>12. Underway'
    <2>1. ASSUME NEW q \in Processes, q # p
          PROVE  Holds(step[q])'
      <3>1. PICK s : s = step[q]
        OBVIOUS
      <3>2. s \in Steps /\ Holds(s) /\ step'[q] = s
        BY <1>4, <1>7, <2>1, <3>1
      <3>3. Len(ledger') # 1 /\ Len(ledger') >= 2
        BY <1>3
      <3>4. Holds(s)'
        BY <1>2, <1>3, <3>2, <3>3, LongerHolds
      <3>5. QED
        BY <3>2, <3>4
    <2>2. Holds("import anchor")'
      BY <1>2, <1>3 DEF Holds
    <2>3. QED
      BY <1>7, <2>1, <2>2 DEF Underway
  <1>13. Served'
    BY <1>2, <1>3 DEF Served
  <1>14. OnDisk'
    <2>1. Len(ledger') \notin 1..2 /\ Len(ledger') # 1
      BY <1>3
    <2>2. SealedBeforeForgotten'
      BY <2>1 DEF SealedBeforeForgotten
    <2>3. QED
      BY <1>2, <1>3, <1>4, <2>1, <2>2 DEF OnDisk
  <1>15. Behind'
    <2>1. Undisturbed => anchor = Nothing
      BY <1>2 DEF WholeInv, Behind
    <2>2. QED
      BY <1>2, <2>1 DEF Behind, Undisturbed, OneProcess, AnchorFollows
  <1>16. Counted'
    BY <1>1, <1>3 DEF Counted, Accounted, SnapshotHolds
  <1>17. QED
    BY <1>9, <1>10, <1>11, <1>12, <1>13, <1>14, <1>15, <1>16 DEF WholeInv, FoundingInv

LEMMA EraseKeeps ==
    ASSUME WholeInv, Erase
    PROVE  WholeInv'
  <1>1. /\ \A q \in Processes : step[q] = "idle" /\ ~ready[q]
        /\ db' = FALSE /\ identity' = FALSE /\ ledger' = <<>> /\ marker' = Nothing
        /\ key' = FALSE /\ anchor' = Nothing /\ bound' = [q \in Processes |-> FALSE]
        /\ UNCHANGED <<inst, authority, lock, step, ready, saver, spent>>
    BY DEF Erase, At
  <1>2. /\ Control /\ inst \in Instances /\ authority \in Authority
        /\ lock \in Processes \cup {NoProcess} /\ step \in [Processes -> Steps]
        /\ ready \in [Processes -> BOOLEAN] /\ saver \in [Processes -> Saver]
        /\ spent \in [crashes : Nat, edits : Nat, saves : Nat]
    BY ProcessesTyped
  <1>3. <<>> \in Seq(Row) /\ Len(<<>>) = 0 /\ 0 \notin 1..2
    OBVIOUS
  <1>4. Typed'
    BY <1>1, <1>2, <1>3 DEF Typed, TypeOK
  <1>5. Control'
    <2>1. "idle" \notin Locked
      BY DEF Locked
    <2>2. QED
      BY <1>1, <1>2, <2>1 DEF Control
  <1>6. Turns'
    BY <1>1, <1>2 DEF Control, Turns
  <1>7. Underway'
    BY <1>1 DEF Underway, Holds
  <1>8. Served'
    BY <1>1 DEF Served
  <1>9. OnDisk'
    <2>1. Foundations(<<>>)
      BY DEF Foundations, Rows
    <2>2. SealedBeforeForgotten'
      BY <1>1, <1>3 DEF SealedBeforeForgotten
    <2>3. QED
      BY <1>1, <2>1, <2>2 DEF OnDisk
  <1>10. Behind'
    BY <1>1 DEF Behind, AnchorFollows
  <1>11. Counted'
    <2>1. ~Sealed(<<>>)
      BY DEF Sealed, Rows
    <2>2. QED
      BY <1>1, <2>1 DEF Counted, Accounted
  <1>12. QED
    BY <1>4, <1>5, <1>6, <1>7, <1>8, <1>9, <1>10, <1>11 DEF WholeInv, FoundingInv

LEMMA EditKeeps ==
    ASSUME WholeInv, Edit
    PROVE  WholeInv'
  <1>1. /\ authority' \in Authority /\ spent' = [spent EXCEPT !.edits = spent.edits + 1]
        /\ UNCHANGED <<inst, db, identity, ledger, marker, key, anchor, lock, step, bound,
                       ready, saver>>
    BY DEF Edit
  <1>2. /\ spent' \in [crashes : Nat, edits : Nat, saves : Nat]
        /\ spent'.edits # 0
    BY <1>1, ProcessesTyped
  <1>3. Typed'
    BY <1>1, <1>2 DEF WholeInv, FoundingInv, Typed, TypeOK
  <1>4. Control' /\ Turns' /\ Served'
    BY <1>1 DEF WholeInv, FoundingInv, Control, Turns, InTurns, OneProcess, Served
  <1>5. Underway'
    BY <1>1 DEF WholeInv, FoundingInv, Underway, Holds, AnchorSealed
  <1>6. OnDisk'
    BY <1>1 DEF WholeInv, FoundingInv, OnDisk, SealedBeforeForgotten
  <1>7. Behind'
    BY <1>1 DEF WholeInv, Behind, Undisturbed, OneProcess, AnchorFollows
  <1>8. Counted'
    BY <1>2 DEF Counted, Accounted
  <1>9. QED
    BY <1>3, <1>4, <1>5, <1>6, <1>7, <1>8 DEF WholeInv, FoundingInv

LEMMA CommitSaveKeeps ==
    ASSUME WholeInv, NEW p \in Processes, CommitSave(p)
    PROVE  WholeInv'
  <1>1. /\ saver[p].at = "commit"
        /\ UNCHANGED <<inst, db, identity, marker, key, anchor, lock, step, bound, ready, spent>>
    BY DEF CommitSave
  <1>2. saver[p] # NoSave
    BY <1>1 DEF NoSave
  <1>3. /\ ready[p] /\ db = TRUE /\ ledger # <<>>
        /\ InTurns => step[p] = "idle" /\ bound[p]
    BY <1>2, SaverKnows
  <1>4. CASE saver' = [saver EXCEPT ![p] = NoSave] /\ UNCHANGED <<ledger, authority>>
    BY <1>1, <1>2, <1>4, SaveEnds
  <1>5. CASE \E a \in Authority :
               /\ authority' = a
               /\ ledger' = IF bound[p] THEN Append(ledger, [type |-> "save", authority |-> a])
                            ELSE ledger
               /\ saver' = [saver EXCEPT ![p].at = "advance"]
    <2>1. PICK a \in Authority :
               /\ authority' = a
               /\ ledger' = IF bound[p] THEN Append(ledger, [type |-> "save", authority |-> a])
                            ELSE ledger
               /\ saver' = [saver EXCEPT ![p].at = "advance"]
      BY <1>5
    <2>2. /\ Control /\ Turns /\ Typed /\ OnDisk /\ Served
          /\ \A q \in Processes : Holds(step[q])
          /\ inst \in Instances /\ key \in BOOLEAN /\ identity \in BOOLEAN
          /\ ledger \in Seq(Row) /\ Foundations(ledger)
          /\ marker \in Marker \cup {Nothing} /\ (anchor = Nothing \/ anchor \in AnchorFile)
          /\ lock \in Processes \cup {NoProcess} /\ step \in [Processes -> Steps]
          /\ bound \in [Processes -> BOOLEAN] /\ ready \in [Processes -> BOOLEAN]
          /\ saver \in [Processes -> Saver]
          /\ spent \in [crashes : Nat, edits : Nat, saves : Nat]
      BY ProcessesTyped DEF OnDisk
    <2>3. /\ saver' \in [Processes -> Saver]
          /\ \A q \in Processes : q # p => saver'[q] = saver[q]
      BY <2>1, <2>2 DEF Saver
    <2>4. Control'
      BY <1>1, <1>3, <2>2, <2>3 DEF Control
    <2>5. Turns'
      BY <1>1, <1>3, <2>2, <2>3 DEF Turns, InTurns, OneProcess
    <2>6. CASE ~bound[p]
      <3>1. ledger' = ledger /\ authority' \in Authority
        BY <2>1, <2>6
      <3>2. Typed'
        BY <1>1, <2>2, <2>3, <3>1 DEF Typed, TypeOK
      <3>3. Underway' /\ Served' /\ OnDisk'
        BY <1>1, <2>2, <3>1 DEF Underway, Holds, AnchorSealed, Served, OnDisk,
                                SealedBeforeForgotten
      <3>4. Behind'
        BY <1>1, <3>1 DEF WholeInv, Behind, Undisturbed, OneProcess, AnchorFollows
      <3>5. Counted'
        BY <1>1, <1>3, <2>6 DEF Counted, InTurns, OneProcess
      <3>6. QED
        BY <2>4, <2>5, <3>2, <3>3, <3>4, <3>5 DEF WholeInv, FoundingInv
    <2>7. CASE bound[p]
      <3>1. PICK r : r = [type |-> "save", authority |-> a]
        OBVIOUS
      <3>2. r \in Row /\ r.type = "save" /\ r.authority = a
        BY <3>1 DEF Row
      <3>3. ledger' = Append(ledger, r)
        BY <2>1, <2>7, <3>1
      <3>4. /\ ledger' \in Seq(Row) /\ ledger' # <<>> /\ Len(ledger') = Len(ledger) + 1
            /\ Last(ledger') = r /\ Len(ledger) \in Nat /\ Len(ledger) >= 1
        BY <1>3, <2>2, <3>2, <3>3, RowAppended
      <3>5. Len(ledger') # 1 /\ Len(ledger') >= 2
        BY <3>4
      <3>6. (Sealed(ledger) => Sealed(ledger')) /\ Rows(ledger', "save") # {}
        BY <1>3, <2>2, <3>2, <3>3, RowsGrow
      <3>7. r.type # "genesis" /\ r.type # "checkpoint"
        BY <3>2
      <3>8. Foundations(ledger')
        BY <1>3, <2>2, <3>2, <3>3, <3>7, FoundationsGrow
      <3>9. AnchorFollows => AnchorFollows'
        BY <1>1, <1>3, <2>2, <3>2, <3>3, PrefixesGrow DEF AnchorFollows, AnchorFile
      <3>10. Typed'
        BY <1>1, <2>1, <2>2, <2>3, <3>4 DEF Typed, TypeOK
      <3>11. Underway'
        <4>1. ASSUME NEW q \in Processes
              PROVE  Holds(step[q])'
          <5>1. PICK s : s = step[q]
            OBVIOUS
          <5>2. s \in Steps /\ Holds(s) /\ step'[q] = s
            BY <1>1, <2>2, <5>1
          <5>3. Holds(s)'
            BY <1>1, <1>3, <3>4, <3>5, <3>6, <5>2, LongerHolds
          <5>4. QED
            BY <5>2, <5>3
        <4>2. QED
          BY <4>1 DEF Underway
      <3>12. Served'
        BY <1>1, <1>3, <3>4 DEF Served
      <3>13. OnDisk'
        <4>1. SealedBeforeForgotten'
          BY <3>6 DEF SealedBeforeForgotten
        <4>2. QED
          BY <1>1, <2>2, <3>5, <3>8, <4>1 DEF OnDisk
      <3>14. Behind'
        BY <1>1, <3>9 DEF WholeInv, Behind, Undisturbed, OneProcess
      <3>15. Counted'
        BY <2>1, <3>2, <3>4 DEF Counted, Accounted, SnapshotHolds
      <3>16. QED
        BY <2>4, <2>5, <3>10, <3>11, <3>12, <3>13, <3>14, <3>15 DEF WholeInv, FoundingInv
    <2>8. QED
      BY <2>6, <2>7
  <1>6. QED
    BY <1>4, <1>5 DEF CommitSave

-----------------------------------------------------------------------------
(* The whole.                                                              *)

LEMMA InitHolds == Init => WholeInv
  <1> SUFFICES ASSUME Init
               PROVE  WholeInv
    OBVIOUS
  <1> DEFINE genesis == [type |-> "genesis", authority |-> authority]
             save == [type |-> "save", authority |-> authority]
  <1>1. /\ inst \in Instances /\ authority \in Authority
        /\ ledger = (IF inst.past = "legacy" THEN <<genesis, save>> ELSE <<>>)
        /\ db = (inst.past # "backup") /\ identity = (inst.past # "backup")
        /\ key = (inst.past = "legacy")
        /\ anchor = (IF inst.past = "legacy" THEN AnchorAt(ledger) ELSE Nothing)
        /\ marker = Nothing /\ lock = NoProcess
        /\ step = [p \in Processes |-> "idle"] /\ bound = [p \in Processes |-> FALSE]
        /\ ready = [p \in Processes |-> FALSE] /\ saver = [p \in Processes |-> NoSave]
        /\ spent = [crashes |-> 0, edits |-> 0, saves |-> 0]
    BY DEF Init
  <1>2. /\ genesis \in Row /\ genesis.type = "genesis"
        /\ save \in Row /\ save.type = "save"
    BY <1>1 DEF Row
  <1> HIDE DEF genesis, save
  <1>3. /\ ledger \in Seq(Row) /\ Foundations(ledger) /\ ~Sealed(ledger)
        /\ Len(ledger) \in 1..2 => Rows(ledger, "save") # {}
    <2>1. CASE inst.past = "legacy"
      <3>1. /\ ledger \in Seq(Row) /\ Len(ledger) = 2 /\ ledger[1] = genesis /\ ledger[2] = save
            /\ DOMAIN ledger = {1, 2} /\ ledger # <<>>
        BY <1>1, <1>2, <2>1
      <3>2. /\ Rows(ledger, "checkpoint") = {} /\ Rows(ledger, "import") = {}
            /\ 2 \in Rows(ledger, "save")
        BY <1>2, <3>1 DEF Rows
      <3>3. \A i \in 2..2 : i = 2
        OBVIOUS
      <3>4. Foundations(ledger)
        BY <1>2, <3>1, <3>2, <3>3 DEF Foundations
      <3>5. QED
        BY <3>1, <3>2, <3>4 DEF Sealed
    <2>2. CASE inst.past # "legacy"
      <3>1. ledger = <<>> /\ <<>> \in Seq(Row) /\ Len(<<>>) = 0 /\ 0 \notin 1..2
        BY <1>1, <2>2
      <3>2. Foundations(<<>>) /\ ~Sealed(<<>>)
        BY DEF Foundations, Rows, Sealed
      <3>3. QED
        BY <3>1, <3>2
    <2>3. QED
      BY <2>1, <2>2
  <1>4. /\ anchor = Nothing \/ anchor \in AnchorFile
        /\ AnchorFollows
    BY <1>1, <1>3, AnchorOfLedger DEF AnchorFollows
  <1>5. "idle" \in Steps /\ "idle" \notin Locked /\ "idle" \notin Importing /\ NoSave \in Saver
    BY DEF Steps, Locked, Importing, NoSave, Saver
  <1>6. /\ step \in [Processes -> Steps] /\ bound \in [Processes -> BOOLEAN]
        /\ ready \in [Processes -> BOOLEAN] /\ saver \in [Processes -> Saver]
        /\ \A p \in Processes : step[p] = "idle" /\ ~ready[p] /\ saver[p] = NoSave
    BY <1>1, <1>5
  <1>7. Typed
    BY <1>1, <1>3, <1>4, <1>6 DEF Typed, TypeOK, AnchorFile, Nothing
  <1>8. Control
    BY <1>1, <1>5, <1>6, BootstrapAssumption DEF Control
  <1>9. Turns /\ Underway /\ Served
    BY <1>6 DEF Turns, Underway, Holds, Served
  <1>10. OnDisk
    BY <1>1, <1>3 DEF OnDisk, SealedBeforeForgotten
  <1>11. Behind
    BY <1>4, <1>6 DEF Behind
  <1>12. Counted
    BY <1>3 DEF Counted, Accounted
  <1>13. QED
    BY <1>7, <1>8, <1>9, <1>10, <1>11, <1>12 DEF WholeInv, FoundingInv

LEMMA NextKeeps ==
    ASSUME WholeInv, [Next]_vars
    PROVE  WholeInv'
  <1>1. CASE UNCHANGED vars
    <2>1. UNCHANGED <<inst, db, identity, ledger, authority, marker, key, anchor, lock, step,
                      bound, ready, saver, spent>>
      BY <1>1 DEF vars
    <2>2. Typed'
      BY <2>1 DEF WholeInv, FoundingInv, Typed, TypeOK
    <2>3. Control' /\ Turns' /\ Served'
      BY <2>1 DEF WholeInv, FoundingInv, Control, Turns, InTurns, OneProcess, Served
    <2>4. Underway'
      BY <2>1 DEF WholeInv, FoundingInv, Underway, Holds, AnchorSealed
    <2>5. OnDisk'
      BY <2>1 DEF WholeInv, FoundingInv, OnDisk, SealedBeforeForgotten
    <2>6. Behind' /\ Counted'
      BY <2>1 DEF WholeInv, Behind, Undisturbed, OneProcess, AnchorFollows, Counted,
                  InTurns, Accounted, SnapshotHolds
    <2>7. QED
      BY <2>2, <2>3, <2>4, <2>5, <2>6 DEF WholeInv, FoundingInv
  <1>2. CASE Edit
    BY <1>2, EditKeeps
  <1>3. CASE Erase
    BY <1>3, EraseKeeps
  <1>4. CASE \E p \in Processes : Bind(p)
    BY <1>4, EnterKeeps, EnterRefusedKeeps, LockTimeoutKeeps, PrepareMarkerKeeps, CreateKeyKeeps,
       CreateGenesisKeeps, WriteFirstAnchorKeeps, ResumeKeeps, OpenExistingKeeps,
       EnsureCheckpointKeeps, InsertCheckpointKeeps, AdvanceAnchorKeeps, VerifyWorkspaceKeeps,
       ClearMarkerKeeps DEF Bind
  <1>5. CASE \E p \in Processes : Import(p)
    BY <1>5, ImportTargetKeeps, ImportKeyKeeps, PlaceImportKeeps, AnchorImportKeeps,
       FailImportKeeps DEF Import
  <1>6. CASE \E p \in Processes :
               \/ Start(p) \/ \E authorized \in BOOLEAN : BeginSave(p, authorized)
               \/ CommitSave(p) \/ AdvanceAfterSave(p) \/ BeginImport(p) \/ Crash(p)
    BY <1>6, StartKeeps, BeginSaveKeeps, CommitSaveKeeps, AdvanceAfterSaveKeeps,
       BeginImportKeeps, CrashKeeps
  <1>7. QED
    BY <1>1, <1>2, <1>3, <1>4, <1>5, <1>6 DEF Next

LEMMA WholeAlways == Spec => []WholeInv
  <1>1. WholeInv /\ [Next]_vars => WholeInv'
    BY NextKeeps
  <1>2. QED
    BY InitHolds, <1>1, PTL DEF Spec

\* However many processes bind, import, save, erase and die, in whatever order (bind_production,
\* import_production_backup, save_session): every part of the workspace has its type, its
\* anchor is behind its ledger and its sessions are what the ledger accounts for.
THEOREM TheWorkspaceHangsTogether == Spec => []WorkspaceHangsTogether
  <1>1. WholeInv => WorkspaceHangsTogether
    BY DEF WholeInv, FoundingInv, Typed, Behind, Undisturbed, AnchorFollows, AnchorNeverAhead,
           Counted, InTurns, AccountedWhenSerial, WorkspaceHangsTogether
  <1>2. QED
    BY WholeAlways, <1>1, PTL

LEMMA AtMostOne ==
    ASSUME NEW S, \A x, y \in S : x = y
    PROVE  Cardinality(S) <= 1
  <1>1. CASE S = {}
    <2>1. Cardinality(S) = 0
      BY <1>1, FS_EmptySet
    <2>2. QED
      BY <2>1
  <1>2. CASE S # {}
    <2>1. PICK x : x \in S
      BY <1>2
    <2>2. S = {x}
      BY <2>1
    <2>3. Cardinality(S) = 1
      BY <2>2, FS_Singleton
    <2>4. QED
      BY <2>3
  <1>3. QED
    BY <1>1, <1>2

\* A workspace is founded once, by whichever of the processes that bind at the same time and
\* however often one of them dies over it (_create_production_genesis,
\* _ensure_authority_checkpoint): one genesis, one authority checkpoint.
THEOREM AWorkspaceIsFoundedOnce == Spec => []FoundedOnce
  <1>1. ASSUME WholeInv
        PROVE  FoundedOnce
    <2>1. Foundations(ledger) /\ ledger \in Seq(Row)
      BY <1>1 DEF WholeInv, FoundingInv, OnDisk, Typed, TypeOK
    <2>2. \A i \in Rows(ledger, "genesis") : i = 1
      <3>1. \A i \in 1..Len(ledger) : i = 1 \/ i \in 2..Len(ledger)
        BY <2>1
      <3>2. DOMAIN ledger = 1..Len(ledger)
        BY <2>1
      <3>3. QED
        BY <2>1, <3>1, <3>2 DEF Foundations, Rows
    <2>3. \A i, j \in Rows(ledger, "genesis") : i = j
      BY <2>2
    <2>4. \A i, j \in Rows(ledger, "checkpoint") : i = j
      BY <2>1 DEF Foundations
    <2>5. QED
      BY <2>3, <2>4, AtMostOne DEF FoundedOnce
  <1>2. QED
    BY WholeAlways, <1>1, PTL

\* Whatever a step does to a commitment that stands before and after it.
LEMMA CommitmentStep ==
    ASSUME WholeInv, [Next]_vars, marker # Nothing, marker' # Nothing
    PROVE  marker'.baseline = marker.baseline /\ marker.plan \in {NoPlan, marker'.plan}
  <1>1. CASE marker' = marker
    BY <1>1
  <1>2. CASE \E p \in Processes : PrepareMarker(p)
    <2>1. PICK p \in Processes : PrepareMarker(p)
      BY <1>2
    <2>2. Holds("prepare")
      BY <2>1, ProcessesTyped DEF PrepareMarker, At
    <2>3. QED
      BY <2>2 DEF Holds
  <1>3. CASE \E p \in Processes : EnsureCheckpoint(p)
    <2>1. CASE marker' = IF marker.plan = NoPlan
                         THEN [marker EXCEPT !.plan = [kind |-> "plan", authority |-> authority]]
                         ELSE marker
      <3>1. marker \in Marker
        BY ProcessesTyped
      <3>2. CASE marker.plan = NoPlan
        BY <2>1, <3>1, <3>2 DEF Marker
      <3>3. QED
        BY <2>1, <3>2
    <2>2. CASE UNCHANGED marker
      BY <2>2
    <2>3. QED
      BY <1>3, <2>1, <2>2 DEF EnsureCheckpoint, Refuse, disk
  <1>4. CASE \E p \in Processes : ClearMarker(p)
    BY <1>4 DEF ClearMarker
  <1>5. CASE Erase
    BY <1>5 DEF Erase
  <1>6. CASE UNCHANGED vars \/ Edit
    BY <1>6 DEF vars, Edit
  <1>7. CASE \E p \in Processes :
               \/ Enter(p) \/ EnterRefused(p) \/ LockTimeout(p)
               \/ CreateKey(p) \/ CreateGenesis(p) \/ WriteFirstAnchor(p)
               \/ Resume(p) \/ OpenExisting(p)
               \/ InsertCheckpoint(p) \/ AdvanceAnchor(p) \/ VerifyWorkspace(p)
    <2>1. UNCHANGED marker
      BY <1>7 DEF Enter, EnterRefused, LockTimeout, CreateKey, CreateGenesis, WriteFirstAnchor,
                  Resume, OpenExisting, InsertCheckpoint, AdvanceAnchor, VerifyWorkspace,
                  Refuse, disk
    <2>2. QED
      BY <2>1
  <1>8. CASE \E p \in Processes :
               \/ Start(p) \/ \E authorized \in BOOLEAN : BeginSave(p, authorized)
               \/ CommitSave(p) \/ AdvanceAfterSave(p) \/ BeginImport(p) \/ Crash(p)
               \/ Import(p)
    <2>1. UNCHANGED marker
      BY <1>8 DEF Start, BeginSave, CommitSave, AdvanceAfterSave, BeginImport, Crash, Import,
                  ImportTarget, ImportKey, PlaceImport, AnchorImport, FailImport, disk
    <2>2. QED
      BY <2>1
  <1>9. QED
    BY <1>2, <1>3, <1>4, <1>5, <1>6, <1>7, <1>8 DEF Next, Bind

\* The commitment of a first bind holds to the end (_prepare_bootstrap_marker,
\* _hold_bootstrap_marker): no retry and no other process revises it, it is given up only when
\* it is sealed and anchored, and what is sealed is what was committed to.
THEOREM TheCommitmentIsAlwaysKept == Spec => CommitmentKept
  <1>1. ASSUME WholeInv
        PROVE  SealedBeforeForgotten /\ CheckpointSealsCommitment
    BY <1>1 DEF WholeInv, FoundingInv, OnDisk, Foundations, CheckpointSealsCommitment
  <1>2. WholeInv /\ [Next]_vars =>
           [(marker # Nothing /\ marker' # Nothing) =>
               /\ marker'.baseline = marker.baseline
               /\ marker.plan \in {NoPlan, marker'.plan}]_vars
    BY CommitmentStep
  <1>3. QED
    BY WholeAlways, <1>1, <1>2, PTL DEF Spec, CommitmentKept, CommitmentStands

=============================================================================

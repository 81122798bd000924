------------------------ MODULE SessionServiceProofs ------------------------
(***************************************************************************)
(* Proofs about the session services: a request takes effect at most once, *)
(* only what is on record is answered with success, and one process loses  *)
(* no effect.                                                              *)
(*                                                                         *)
(* Most steps touch neither the session nor the ledger: what is said of a  *)
(* call, Fits, is then only asked of the call that moved.  A save and a    *)
(* restore make the ledger grow, and what is said of a log survives that.  *)
(***************************************************************************)
EXTENDS SessionService, FiniteSetTheorems, WellFoundedInduction, TLAPS

-----------------------------------------------------------------------------
(* What a log says of the effects of a session.                            *)

\* Every effect has its row.
OnRecord(log, effects) ==
    \A j \in DOMAIN effects : \E i \in 1..Len(log) :
        /\ log[i].id = effects[j].id /\ log[i].event = effects[j].kind
        /\ log[i].request = effects[j].request /\ log[i].turn = effects[j].turn

\* Turns bear different numbers, none above their count.
Numbered(effects) ==
    \A j \in Turns(effects) :
        /\ effects[j].turn \in 1..Cardinality(Turns(effects))
        /\ \A k \in Turns(effects) : effects[k].turn = effects[j].turn => k = j

OnceEach(effects) ==
    \A i, j \in DOMAIN effects :
        effects[i].request # None /\ i # j => effects[i].request # effects[j].request

Good(log, effects) ==
    /\ effects \in Seq(Effect)
    /\ OnRecord(log, effects) /\ Numbered(effects) /\ OnceEach(effects)

Restored(log, i) == \E r \in (i + 1)..Len(log) : log[r].event = "restore"

\* Every effect that was committed since the last restore is there.
Kept(log, effects) ==
    \A i \in 1..Len(log) :
        log[i].event \notin {"checkpoint", "controls", "restore"} /\ ~Restored(log, i) =>
            \E j \in DOMAIN effects :
                /\ effects[j].id = log[i].id /\ effects[j].kind = log[i].event
                /\ effects[j].turn = log[i].turn

\* The row that a call leaves, for the state it saves.
RowFor(row, call, effects) ==
    /\ row \in Row /\ row.event = call.kind /\ row.id = call.id
    /\ row.request = call.request /\ row.input = call.input
    /\ row.turn = IF call.kind = "turn" THEN Cardinality(Turns(effects)) ELSE 0

LEMMA RowIsAppended ==
    ASSUME NEW log \in Seq(Row), NEW row \in Row
    PROVE  /\ Len(log) \in Nat /\ Len(Append(log, row)) = Len(log) + 1
           /\ Append(log, row) \in Seq(Row)
           /\ Append(log, row)[Len(log) + 1] = row
           /\ \A i \in 1..Len(log) : Append(log, row)[i] = log[i]
  OBVIOUS

LEMMA GoodGrows ==
    ASSUME NEW log \in Seq(Row), NEW row \in Row, NEW effects, Good(log, effects)
    PROVE  Good(Append(log, row), effects)
  <1>1. OnRecord(Append(log, row), effects)
    BY RowIsAppended DEF Good, OnRecord
  <1>2. QED
    BY <1>1 DEF Good

\* A restore excuses everything.
LEMMA RestoreKeepsAll ==
    ASSUME NEW log \in Seq(Row), NEW row \in Row, row.event = "restore", NEW effects
    PROVE  Kept(Append(log, row), effects)
  <1>1. \A i \in 1..Len(log) : Restored(Append(log, row), i)
    BY RowIsAppended DEF Restored
  <1>2. QED
    BY <1>1, RowIsAppended DEF Kept

LEMMA TurnsAreFinite ==
    ASSUME NEW effects \in Seq(Effect)
    PROVE  IsFiniteSet(Turns(effects)) /\ Cardinality(Turns(effects)) \in Nat
  <1>1. Turns(effects) \subseteq 1..Len(effects) /\ Len(effects) \in Nat
    BY DEF Turns
  <1>2. IsFiniteSet(1..Len(effects))
    BY <1>1, FS_Interval
  <1>3. QED
    BY <1>1, <1>2, FS_Subset, FS_CardinalityType

LEMMA TurnsOfMore ==
    ASSUME NEW effects \in Seq(Effect), NEW effect \in Effect
    PROVE  /\ effect.kind # "turn" => Turns(Append(effects, effect)) = Turns(effects)
           /\ effect.kind = "turn" =>
                 /\ Turns(Append(effects, effect)) = Turns(effects) \cup {Len(effects) + 1}
                 /\ Cardinality(Turns(Append(effects, effect))) = Cardinality(Turns(effects)) + 1
  <1> DEFINE n == Len(effects) + 1
  <1>1. /\ Len(effects) \in Nat /\ DOMAIN effects = 1..Len(effects)
        /\ DOMAIN Append(effects, effect) = (1..Len(effects)) \cup {n}
        /\ Append(effects, effect)[n] = effect
        /\ \A j \in 1..Len(effects) : Append(effects, effect)[j] = effects[j]
    OBVIOUS
  <1>2. n \notin Turns(effects)
    BY <1>1 DEF Turns
  <1>3. effect.kind # "turn" => Turns(Append(effects, effect)) = Turns(effects)
    BY <1>1 DEF Turns
  <1>4. effect.kind = "turn" => Turns(Append(effects, effect)) = Turns(effects) \cup {n}
    BY <1>1 DEF Turns
  <1> HIDE DEF n
  <1>5. Cardinality(Turns(effects) \cup {n}) = Cardinality(Turns(effects)) + 1
    BY <1>2, TurnsAreFinite, FS_AddElement
  <1>6. QED
    BY <1>3, <1>4, <1>5 DEF n

-----------------------------------------------------------------------------
(* The session that a call saves, if the one it loaded was in order.       *)

Fresh(log, request) == request # None => \A i \in 1..Len(log) : log[i].request # request

LEMMA EffectIsTyped ==
    ASSUME NEW call \in Call, call.id \in Ids, NEW effects \in Seq(Effect)
    PROVE  EffectOf(call, effects) \in Effect
  <1>1. Cardinality(Turns(effects)) + 1 \in Nat
    BY TurnsAreFinite
  <1>2. QED
    BY <1>1 DEF EffectOf, Effect, Call

LEMMA AfterIsGood ==
    ASSUME NEW log \in Seq(Row), NEW base, Good(log, base), NEW call \in Call,
           call.id \in Ids, Fresh(log, call.request),
           NEW row, RowFor(row, call, After(call, base))
    PROVE  Good(Append(log, row), After(call, base))
  <1> DEFINE e == EffectOf(call, base)
             all == Append(base, e)
             n == Len(base) + 1
  <1>0. base \in Seq(Effect) /\ row \in Row /\ Good(Append(log, row), base)
    BY GoodGrows DEF Good, RowFor
  <1>1. CASE call.kind = "controls"
    BY <1>0, <1>1 DEF After
  <1>2. CASE call.kind # "controls"
    <2>1. After(call, base) = all
      BY <1>2 DEF After
    <2>2. e \in Effect
      BY <1>0, EffectIsTyped
    <2>3. /\ e.id = call.id /\ e.kind = call.kind /\ e.request = call.request
          /\ e.turn = IF call.kind = "turn" THEN Cardinality(Turns(base)) + 1 ELSE 0
      BY DEF EffectOf
    <2> HIDE DEF e
    <2>4. /\ all \in Seq(Effect) /\ DOMAIN all = (DOMAIN base) \cup {n}
          /\ n \notin DOMAIN base /\ all[n] = e
          /\ \A j \in DOMAIN base : all[j] = base[j]
      BY <1>0, <2>2
    <2>5. /\ call.kind # "turn" => Turns(all) = Turns(base)
          /\ call.kind = "turn" =>
                /\ Turns(all) = Turns(base) \cup {n}
                /\ Cardinality(Turns(all)) = Cardinality(Turns(base)) + 1
      BY <1>0, <2>2, <2>3, TurnsOfMore
    <2>6. Cardinality(Turns(base)) \in Nat /\ Turns(base) \subseteq DOMAIN base
      BY <1>0, TurnsAreFinite DEF Turns
    <2> HIDE DEF all, n
    <2>7. /\ row.id = e.id /\ row.event = e.kind /\ row.request = e.request
          /\ row.turn = e.turn
      BY <2>1, <2>3, <2>5 DEF RowFor
    <2>8. OnRecord(Append(log, row), all)
      <3>1. Append(log, row)[Len(log) + 1] = row /\ Len(log) + 1 \in 1..Len(Append(log, row))
        BY <1>0, RowIsAppended
      <3>2. OnRecord(Append(log, row), base)
        BY <1>0 DEF Good
      <3>3. QED
        BY <2>4, <2>7, <3>1, <3>2 DEF OnRecord
    <2>9. Numbered(all)
      <3>1. Numbered(base)
        BY DEF Good
      <3>2. CASE call.kind # "turn"
        BY <2>4, <2>5, <2>6, <3>1, <3>2 DEF Numbered
      <3>3. CASE call.kind = "turn"
        <4>1. e.turn = Cardinality(Turns(base)) + 1
          BY <2>3, <3>3
        <4>2. \A j \in Turns(base) : base[j].turn \in 1..Cardinality(Turns(base))
          BY <3>1 DEF Numbered
        <4>3. \A j \in Turns(all) : all[j].turn \in 1..Cardinality(Turns(all))
          BY <2>4, <2>5, <2>6, <3>3, <4>1, <4>2
        <4>4. \A j, k \in Turns(all) : all[k].turn = all[j].turn => k = j
          BY <2>4, <2>5, <2>6, <3>1, <3>3, <4>1, <4>2 DEF Numbered
        <4>5. QED
          BY <4>3, <4>4 DEF Numbered
      <3>4. QED
        BY <3>2, <3>3
    <2>10. OnceEach(all)
      <3>1. \A j \in DOMAIN base : e.request # None => base[j].request # e.request
        BY <2>3 DEF Good, OnRecord, Fresh
      <3>2. OnceEach(base)
        BY DEF Good
      <3>3. QED
        BY <2>4, <3>1, <3>2 DEF OnceEach
    <2>11. QED
      BY <2>1, <2>4, <2>8, <2>9, <2>10 DEF Good
  <1>3. QED
    BY <1>1, <1>2

LEMMA AfterIsKept ==
    ASSUME NEW log \in Seq(Row), NEW base \in Seq(Effect), Kept(log, base), NEW call \in Call,
           call.id \in Ids,
           NEW row, RowFor(row, call, After(call, base))
    PROVE  Kept(Append(log, row), After(call, base))
  <1> DEFINE e == EffectOf(call, base)
             all == After(call, base)
             more == Append(log, row)
  <1>1. row \in Row /\ row.event = call.kind /\ row.id = call.id
    BY DEF RowFor
  <1>2. /\ Len(log) \in Nat /\ Len(more) = Len(log) + 1 /\ more[Len(log) + 1] = row
        /\ \A i \in 1..Len(log) : more[i] = log[i]
    BY <1>1, RowIsAppended
  <1>3. \A j \in DOMAIN base : j \in DOMAIN all /\ all[j] = base[j]
    BY EffectIsTyped DEF After
  <1>4. ASSUME NEW i \in 1..Len(log), ~Restored(more, i)
        PROVE  ~Restored(log, i)
    BY <1>2, <1>4 DEF Restored
  <1>5. ASSUME call.kind # "controls"
        PROVE  \E j \in DOMAIN all : /\ all[j].id = row.id /\ all[j].kind = row.event
                                     /\ all[j].turn = row.turn
    <2>1. e \in Effect
      BY EffectIsTyped
    <2>2. all = Append(base, e)
      BY <1>5 DEF After
    <2>3. /\ e.id = call.id /\ e.kind = call.kind
          /\ e.turn = IF call.kind = "turn" THEN Cardinality(Turns(base)) + 1 ELSE 0
      BY DEF EffectOf
    <2> HIDE DEF e
    <2>4. call.kind = "turn" => Cardinality(Turns(all)) = Cardinality(Turns(base)) + 1
      BY <2>1, <2>2, <2>3, TurnsOfMore
    <2>5. Len(base) + 1 \in DOMAIN all /\ all[Len(base) + 1] = e
      BY <2>1, <2>2
    <2>6. row.turn = e.turn
      BY <2>3, <2>4 DEF RowFor
    <2>7. QED
      BY <1>1, <2>3, <2>5, <2>6
  <1> HIDE DEF all, more
  <1>6. ASSUME NEW i \in 1..Len(more),
               more[i].event \notin {"checkpoint", "controls", "restore"}, ~Restored(more, i)
        PROVE  \E j \in DOMAIN all : /\ all[j].id = more[i].id /\ all[j].kind = more[i].event
                                     /\ all[j].turn = more[i].turn
    <2>1. CASE i \in 1..Len(log)
      BY SMTT(20), <1>2, <1>3, <1>4, <1>6, <2>1 DEF Kept
    <2>2. CASE i = Len(log) + 1
      BY <1>1, <1>2, <1>5, <1>6, <2>2
    <2>3. QED
      BY <1>2, <2>1, <2>2
  <1>7. Kept(more, all)
    BY <1>6 DEF Kept
  <1>8. QED
    BY <1>7 DEF more, all

-----------------------------------------------------------------------------
(* The invariant.                                                          *)

\* A copy of the session that a call may work on.
Loaded(base) ==
    /\ Good(ledger, base)
    /\ OneProcess => /\ Kept(ledger, base)
                     /\ spent.restores = 0 => session.live /\ base = session.effects

\* The row answers the call, or the answer speaks of it.
SameRow(c, row) == row.event = c.kind /\ row.input = c.input

Fits(c) ==
    /\ c.step # "idle" =>
          /\ c.id \in Ids
          /\ c.kind \in Authorized => c.request \in Requests /\ c.input \in Inputs
          /\ c.kind \notin Authorized => c.request = None
    /\ c.step \in {"look", "report"} => c.kind \in Authorized
    /\ c.step \in {"load", "work"} => c.kind # "delete"
    /\ c.step = "work" => Loaded(c.state)
    /\ c.step = "save" /\ c.kind # "delete" =>
          \E base : Loaded(base) /\ c.state = After(c, base)
    /\ c.step = "report" => \E i \in RowsOf(c.request) :
          c.kind = "turn" /\ SameRow(c, ledger[i]) /\ ledger[i].turn = c.turn
    /\ c.step = "anchor" /\ c.kind \in Authorized => \E i \in RowsOf(c.request) :
          SameRow(c, ledger[i]) /\ ledger[i].id = c.id

AnswerFits(a) ==
    \E i \in RowsOf(a.request) :
        /\ SameRow(a, ledger[i])
        /\ \/ ledger[i].id = a.id
           \/ /\ a.kind = "turn"
              /\ ~OneProcess \/ RestoredSince(i)
              /\ \E j \in 1..Len(ledger) :
                    /\ ledger[j].id = a.id /\ ledger[j].event = "turn"
                    /\ ledger[j].turn = ledger[i].turn

Spent == [calls : 0..MaxCalls, restores : Nat, crashes : Nat]

RequestsUnique ==
    \A i, j \in 1..Len(ledger) :
        ledger[i].request # None /\ ledger[i].request = ledger[j].request => i = j

CallsNamed == \A i \in 1..Len(ledger) : ledger[i].request # None => ledger[i].id \in Ids

\* Inside its operation a call holds the lock of its process.
Inside(c) == c.step \notin {"idle", "lock"}
LocksHeld == \A t \in Clients : Inside(client[t]) => lock[home[t]] = t

SessionsGood ==
    /\ Good(ledger, session.effects)
    /\ \A i \in 1..Len(ledger) : Good(ledger, ledger[i].session.effects)

AccountedFor ==
    OneProcess => /\ session.live => Kept(ledger, session.effects)
                  /\ spent.restores = 0 => Verified

LedgerInv ==
    /\ Len(ledger) >= 1 /\ ledger[1].event = "checkpoint"
    /\ RequestsUnique /\ CallsNamed /\ SessionsGood /\ AccountedFor

ServiceInv ==
    /\ TypeOK /\ spent \in Spent
    /\ LedgerInv /\ LocksHeld
    /\ \A t \in Clients : Fits(client[t])
    /\ \A a \in answers : AnswerFits(a)

-----------------------------------------------------------------------------
(* Who is inside.                                                          *)

LEMMA HomeIsProcess ==
    ASSUME TypeOK, NEW t \in Clients
    PROVE  home[t] \in Processes /\ t # None /\ client[t] \in Call
  BY ServiceAssumption DEF TypeOK

LEMMA EnteringKeepsLocks ==
    ASSUME TypeOK, LocksHeld, NEW t \in Clients, lock[home[t]] = None, NEW c,
           lock' = [lock EXCEPT ![home[t]] = t], UNCHANGED home,
           client' = [client EXCEPT ![t] = c]
    PROVE  LocksHeld'
  BY HomeIsProcess DEF TypeOK, LocksHeld

LEMMA LeavingKeepsLocks ==
    ASSUME TypeOK, LocksHeld, NEW t \in Clients, Inside(client[t]), Leave(t), UNCHANGED home
    PROVE  LocksHeld'
  <1>1. client' = [client EXCEPT ![t] = Idle] /\ lock' = [lock EXCEPT ![home[t]] = None]
    BY DEF Leave
  <1>2. ~Inside(Idle)
    BY DEF Inside, Idle
  <1>3. QED
    BY <1>1, <1>2, HomeIsProcess DEF TypeOK, LocksHeld

LEMMA MovingKeepsLocks ==
    ASSUME TypeOK, LocksHeld, NEW t \in Clients, NEW c,
           Inside(client[t]) \/ ~Inside(c), client' = [client EXCEPT ![t] = c],
           UNCHANGED <<home, lock>>
    PROVE  LocksHeld'
  BY DEF TypeOK, LocksHeld

LEMMA CrashKeepsLocks ==
    ASSUME TypeOK, LocksHeld, NEW p \in Processes, Crash(p)
    PROVE  LocksHeld'
  <1>1. ~Inside(Idle)
    BY DEF Inside, Idle
  <1>2. QED
    BY <1>1, HomeIsProcess DEF TypeOK, LocksHeld, Crash

-----------------------------------------------------------------------------
(* The session that a log accounts for.                                    *)

LEMMA SomeIsLast ==
    ASSUME NEW n \in Nat, NEW S \in SUBSET (1..n), S # {}
    PROVE  Max(S) \in S /\ \A j \in S : j <= Max(S)
  <1> DEFINE T == {n - i : i \in S}
  <1>1. T \subseteq Nat /\ T # {}
    <2>1. \A i \in S : i \in 1..n
      OBVIOUS
    <2>2. \A i \in S : n - i \in Nat
      BY <2>1
    <2>3. QED
      BY <2>2
  <1>2. PICK x \in T : \A y \in T : ~(<<y, x>> \in OpToRel(<, Nat))
    BY <1>1, NatLessThanWellFounded, WFMin
  <1>3. ASSUME NEW y \in T PROVE x <= y
    <2>1. x \in Nat /\ y \in Nat
      BY <1>1
    <2>2. ~(y < x)
      BY <1>2, <2>1 DEF OpToRel
    <2>3. QED
      BY <2>1, <2>2
  <1>4. PICK i \in S : x = n - i
    OBVIOUS
  <1>5. ASSUME NEW j \in S PROVE i >= j
    <2>1. n - j \in T
      OBVIOUS
    <2>2. n - i <= n - j
      BY <1>3, <1>4, <2>1
    <2>3. i \in 1..n /\ j \in 1..n
      OBVIOUS
    <2>4. QED
      BY <2>2, <2>3
  <1>6. Max(S) \in S /\ \A j \in S : Max(S) >= j
    BY <1>5 DEF Max
  <1>7. \A j \in S : j \in 1..n
    OBVIOUS
  <1>8. QED
    BY <1>6, <1>7

\* The rows that commit to a session.
Commits(log) == {i \in 1..Len(log) : log[i].event # "controls"}

LEMMA ExpectedIsLatest ==
    ASSUME NEW log, Commits(log) # {}
    PROVE  ExpectedSession(log) = log[Max(Commits(log))].session
  BY DEF ExpectedSession, SelectLastInSeq, Commits

LEMMA ExpectedIsOfRow ==
    ASSUME NEW log \in Seq(Row), Commits(log) # {}
    PROVE  \E i \in 1..Len(log) : ExpectedSession(log) = log[i].session
  <1>1. Len(log) \in Nat /\ Commits(log) \in SUBSET (1..Len(log))
    BY DEF Commits
  <1>2. Max(Commits(log)) \in Commits(log)
    BY <1>1, SomeIsLast
  <1>3. QED
    BY <1>1, <1>2, ExpectedIsLatest

LEMMA ExpectedOfMore ==
    ASSUME NEW log \in Seq(Row), NEW row \in Row, Commits(log) # {}
    PROVE  ExpectedSession(Append(log, row)) =
               IF row.event = "controls" THEN ExpectedSession(log) ELSE row.session
  <1> DEFINE more == Append(log, row)
             n == Len(log) + 1
  <1>1. /\ Len(log) \in Nat /\ Len(more) = n /\ more[n] = row /\ more \in Seq(Row)
        /\ \A i \in 1..Len(log) : more[i] = log[i]
    BY RowIsAppended
  <1>2. /\ Commits(log) \in SUBSET (1..Len(log)) /\ Commits(more) \in SUBSET (1..n)
        /\ n \in Nat
    BY <1>1 DEF Commits
  <1>3. Commits(more) = IF row.event = "controls" THEN Commits(log) ELSE Commits(log) \cup {n}
    BY <1>1 DEF Commits
  <1> HIDE DEF more
  <1>4. CASE row.event = "controls"
    <2>1. Commits(more) = Commits(log)
      BY <1>3, <1>4
    <2>2. Max(Commits(log)) \in 1..Len(log)
      BY <1>1, <1>2, SomeIsLast
    <2>3. QED
      BY <1>1, <1>4, <2>1, <2>2, ExpectedIsLatest DEF more
  <1>5. CASE row.event # "controls"
    <2>1. n \in Commits(more)
      BY <1>3, <1>5
    <2>2. Max(Commits(more)) \in 1..n /\ n <= Max(Commits(more))
      BY <1>2, <2>1, SomeIsLast
    <2>3. Max(Commits(more)) = n
      BY <1>1, <2>2
    <2>4. QED
      BY <1>1, <1>5, <2>1, <2>3, ExpectedIsLatest DEF more
  <1>6. QED
    BY <1>4, <1>5

-----------------------------------------------------------------------------
(* Steps that touch neither the session nor the ledger.                    *)

Answers == [request : Requests, id : Ids, kind : Authorized, input : Inputs]
Locks == [Processes -> Clients \cup {None}]

Quiet ==
    /\ UNCHANGED <<home, session, ledger>>
    /\ spent' \in Spent /\ spent'.restores = spent.restores
    /\ lock' \in Locks /\ LocksHeld'

LEMMA QuietKeepsFits ==
    ASSUME UNCHANGED <<home, session, ledger>>, spent'.restores = spent.restores, NEW c
    PROVE  /\ Fits(c) => Fits(c)'
           /\ AnswerFits(c) => AnswerFits(c)'
  <1>1. /\ OneProcess' = OneProcess /\ RowsOf(c.request)' = RowsOf(c.request)
        /\ \A i : RestoredSince(i)' = RestoredSince(i)
    BY DEF OneProcess, RowsOf, RestoredSince
  <1>2. \A base : Loaded(base)' = Loaded(base)
    BY <1>1 DEF Loaded
  <1>3. Fits(c) => Fits(c)'
    BY <1>1, <1>2 DEF Fits
  <1>4. AnswerFits(c) => AnswerFits(c)'
    BY <1>1 DEF AnswerFits
  <1>5. QED
    BY <1>3, <1>4

LEMMA QuietStep ==
    ASSUME ServiceInv, Quiet, client' \in [Clients -> Call],
           \A t \in Clients : Fits(client'[t]),
           answers' \subseteq Answers, \A a \in answers' : AnswerFits(a)
    PROVE  ServiceInv'
  <1>1. UNCHANGED <<home, session, ledger>> /\ spent' \in Spent
        /\ spent'.restores = spent.restores /\ lock' \in Locks /\ LocksHeld'
    BY DEF Quiet
  <1>2. TypeOK'
    BY <1>1 DEF ServiceInv, TypeOK, Answers, Locks
  <1>3. LedgerInv'
    BY <1>1 DEF ServiceInv, LedgerInv, RequestsUnique, CallsNamed, SessionsGood, AccountedFor,
                OneProcess, Verified
  <1>4. ASSUME NEW t \in Clients PROVE Fits(client[t])'
    <2> DEFINE c == client'[t]
    <2>1. Fits(c)
      OBVIOUS
    <2>2. QED
      BY <1>1, QuietKeepsFits
  <1>5. ASSUME NEW a \in answers' PROVE AnswerFits(a)'
    BY <1>1, QuietKeepsFits
  <1>6. QED
    BY <1>1, <1>2, <1>3, <1>4, <1>5 DEF ServiceInv

LEMMA IdleFits == Idle \in Call /\ Fits(Idle)
  <1>1. /\ "idle" \in {"idle", "lock", "look", "report", "load", "work", "save", "anchor"}
        /\ 0 \in 0..MaxCalls /\ "turn" \in AllKinds /\ <<>> \in Seq(Effect) /\ 0 \in Nat
    BY ServiceAssumption DEF AllKinds, Authorized
  <1>2. Idle \in Call
    BY <1>1 DEF Idle, Call
  <1>3. QED
    BY <1>2 DEF Fits, Idle

LEMMA MoveStep ==
    ASSUME ServiceInv, Quiet, NEW t \in Clients, NEW c \in Call, Fits(c),
           client' = [client EXCEPT ![t] = c], UNCHANGED answers
    PROVE  ServiceInv'
  <1>1. client \in [Clients -> Call] /\ answers \subseteq Answers
    BY DEF ServiceInv, TypeOK, Answers
  <1>2. client' \in [Clients -> Call]
    BY <1>1
  <1>3. \A u \in Clients : client'[u] = IF u = t THEN c ELSE client[u]
    BY <1>1
  <1>4. \A u \in Clients : Fits(client'[u])
    BY <1>3 DEF ServiceInv
  <1>5. \A a \in answers' : AnswerFits(a)
    BY DEF ServiceInv
  <1>6. QED
    BY <1>1, <1>2, <1>4, <1>5, QuietStep

LEMMA LeaveStep ==
    ASSUME ServiceInv, NEW t \in Clients, Inside(client[t]), Leave(t),
           UNCHANGED <<home, session, ledger, spent>>,
           answers' \subseteq Answers, \A a \in answers' : AnswerFits(a)
    PROVE  ServiceInv'
  <1>1. /\ TypeOK /\ LocksHeld /\ spent \in Spent /\ lock \in Locks
        /\ client \in [Clients -> Call] /\ \A u \in Clients : Fits(client[u])
    BY DEF ServiceInv, TypeOK, Locks
  <1>2. client' = [client EXCEPT ![t] = Idle] /\ lock' = [lock EXCEPT ![home[t]] = None]
    BY DEF Leave
  <1>3. LocksHeld'
    BY <1>1, LeavingKeepsLocks
  <1>4. lock' \in Locks
    BY <1>1, <1>2 DEF Locks
  <1>5. Quiet
    BY <1>1, <1>3, <1>4 DEF Quiet
  <1>6. client' \in [Clients -> Call]
    BY <1>1, <1>2, IdleFits
  <1>7. \A u \in Clients : client'[u] = IF u = t THEN Idle ELSE client[u]
    BY <1>1, <1>2
  <1>8. \A u \in Clients : Fits(client'[u])
    BY <1>1, <1>7, IdleFits
  <1>9. QED
    BY <1>5, <1>6, <1>8, QuietStep

LEMMA RefuseStep ==
    ASSUME ServiceInv, NEW t \in Clients, Inside(client[t]), Refuse(t),
           UNCHANGED <<home, session, ledger, spent>>
    PROVE  ServiceInv'
  <1>1. Leave(t) /\ answers' = answers
    BY DEF Refuse
  <1>2. answers \subseteq Answers /\ \A a \in answers : AnswerFits(a)
    BY DEF ServiceInv, TypeOK, Answers
  <1>3. QED
    BY <1>1, <1>2, LeaveStep

\* What is said to the caller of call c, if id is what did it.
Said(c, id) == [request |-> c.request, id |-> id, kind |-> c.kind, input |-> c.input]

LEMMA AnswerStep ==
    ASSUME ServiceInv, NEW t \in Clients, Inside(client[t]), NEW id, Answer(t, id),
           UNCHANGED <<home, session, ledger, spent>>,
           client[t].kind \in Authorized => id \in Ids /\ AnswerFits(Said(client[t], id))
    PROVE  ServiceInv'
  <1>1. answers \subseteq Answers /\ \A a \in answers : AnswerFits(a)
    BY DEF ServiceInv, TypeOK, Answers
  <1>2. Leave(t)
    BY DEF Answer
  <1>3. CASE client[t].kind \notin Authorized
    <2>1. answers' = answers
      BY <1>3 DEF Answer
    <2>2. QED
      BY <1>1, <1>2, <2>1, LeaveStep
  <1>4. CASE client[t].kind \in Authorized
    <2>1. answers' = answers \cup {Said(client[t], id)}
      BY <1>4 DEF Answer, Said
    <2>2. client[t].step # "idle" /\ Fits(client[t])
      BY DEF ServiceInv, Inside
    <2>3. client[t].request \in Requests /\ client[t].input \in Inputs
      BY <1>4, <2>2 DEF Fits
    <2>4. Said(client[t], id) \in Answers
      BY <1>4, <2>3 DEF Said, Answers
    <2>5. answers' \subseteq Answers
      BY <1>1, <2>1, <2>4
    <2>6. \A a \in answers' : AnswerFits(a)
      BY <1>1, <1>4, <2>1
    <2>7. QED
      BY <1>2, <2>5, <2>6, LeaveStep
  <1>5. QED
    BY <1>3, <1>4

-----------------------------------------------------------------------------
(* The quiet actions, one by one.                                          *)

LEMMA BeginStep ==
    ASSUME ServiceInv, NEW t \in Clients, NEW call \in Calls, Begin(t, call)
    PROVE  ServiceInv'
  <1> DEFINE c == [step |-> "lock", id |-> spent.calls + 1, kind |-> call.kind,
                   request |-> call.request, input |-> call.input,
                   state |-> <<>>, turn |-> 0]
  <1>1. /\ spent \in Spent /\ spent.calls < MaxCalls /\ MaxCalls \in Nat
        /\ client' = [client EXCEPT ![t] = c]
        /\ spent' = [spent EXCEPT !.calls = spent.calls + 1]
        /\ UNCHANGED <<home, session, ledger, lock, answers>>
        /\ TypeOK /\ LocksHeld
    BY ServiceAssumption DEF ServiceInv, Begin
  <1>2. spent.calls \in 0..MaxCalls /\ spent.calls + 1 \in Ids /\ spent.calls + 1 \in 0..MaxCalls
    BY <1>1 DEF Spent, Ids
  <1>3. spent' \in Spent /\ spent'.restores = spent.restores
    BY <1>1, <1>2 DEF Spent
  <1>4. /\ call.kind \in AllKinds /\ call.request \in Requests \cup {None}
        /\ call.input \in Inputs \cup {None}
        /\ IF call.kind \in Authorized THEN call.request # None /\ call.input # None
           ELSE call.request = None
    BY ServiceAssumption DEF Asked
  <1>5. c \in Call
    <2>1. <<>> \in Seq(Effect) /\ 0 \in Nat
      OBVIOUS
    <2>2. QED
      BY <1>2, <1>4, <2>1 DEF Call
  <1>6. Fits(c) /\ ~Inside(c)
    BY <1>2, <1>4 DEF Fits, Inside
  <1> HIDE DEF c
  <1>7. LocksHeld'
    BY <1>1, <1>6, MovingKeepsLocks
  <1>8. Quiet
    BY <1>1, <1>3, <1>7 DEF Quiet, TypeOK, Locks
  <1>9. QED
    BY <1>1, <1>5, <1>6, <1>8, MoveStep

LEMMA AcquireStep ==
    ASSUME ServiceInv, NEW t \in Clients, Acquire(t)
    PROVE  ServiceInv'
  <1> DEFINE to == CASE client[t].kind \in Authorized -> "look"
                     [] client[t].kind = "delete" -> "save"
                     [] OTHER -> "load"
             c == [client[t] EXCEPT !.step = to]
  <1>1. /\ client[t].step = "lock" /\ lock[home[t]] = None
        /\ lock' = [lock EXCEPT ![home[t]] = t] /\ client' = [client EXCEPT ![t] = c]
        /\ UNCHANGED <<home, session, ledger, answers, spent>>
    BY DEF Acquire, At, Goto
  <1>2. /\ TypeOK /\ LocksHeld /\ spent \in Spent /\ lock \in Locks
        /\ client[t] \in Call /\ Fits(client[t])
    BY HomeIsProcess DEF ServiceInv, TypeOK, Locks
  <1>3. to \in {"look", "save", "load"}
        /\ (to = "look" => client[t].kind \in Authorized)
        /\ (to = "load" => client[t].kind # "delete")
        /\ (to = "save" => client[t].kind = "delete")
    BY DEF Authorized
  <1> HIDE DEF to
  <1>4. c \in Call
    BY <1>2, <1>3 DEF Call
  <1>5. /\ c.step = to /\ c.kind = client[t].kind /\ c.id = client[t].id
        /\ c.request = client[t].request /\ c.input = client[t].input
    BY <1>2 DEF Call
  <1> HIDE DEF c
  <1>6. Fits(c)
    BY <1>1, <1>2, <1>3, <1>5 DEF Fits
  <1>7. LocksHeld'
    BY <1>1, <1>2, EnteringKeepsLocks
  <1>8. lock' \in Locks
    BY <1>1, <1>2, HomeIsProcess DEF Locks
  <1>9. Quiet
    BY <1>1, <1>2, <1>7, <1>8 DEF Quiet, Spent
  <1>10. QED
    BY <1>1, <1>4, <1>6, <1>9, MoveStep

\* A call inside its operation moves on.
LEMMA OnwardStep ==
    ASSUME ServiceInv, NEW t \in Clients, Inside(client[t]), NEW c \in Call, Fits(c),
           client' = [client EXCEPT ![t] = c],
           UNCHANGED <<home, session, ledger, lock, answers, spent>>
    PROVE  ServiceInv'
  <1>1. TypeOK /\ LocksHeld /\ spent \in Spent /\ lock \in Locks
    BY DEF ServiceInv, TypeOK, Locks
  <1>2. LocksHeld'
    BY <1>1, MovingKeepsLocks
  <1>3. Quiet
    BY <1>1, <1>2 DEF Quiet
  <1>4. QED
    BY <1>3, MoveStep

LEMMA ReplayStep ==
    ASSUME ServiceInv, NEW t \in Clients, client[t].step \in {"look", "save"},
           NEW i \in RowsOf(client[t].request), Replay(t, ledger[i]),
           UNCHANGED <<home, session, ledger, spent>>
    PROVE  ServiceInv'
  <1> DEFINE row == ledger[i]
             old == client[t]
             c == [old EXCEPT !.step = "report", !.turn = row.turn]
  <1>1. /\ Inside(old) /\ old \in Call /\ Fits(old) /\ row \in Row
        /\ i \in 1..Len(ledger) /\ old.request # None /\ row.request = old.request
        /\ row.id \in Ids
    BY HomeIsProcess DEF ServiceInv, TypeOK, RowsOf, Inside, LedgerInv, CallsNamed
  <1>2. old.kind \in Authorized /\ old.step # "idle"
    BY <1>1 DEF Fits, Inside
  <1>3. CASE ~SameRequest(t, row)
    BY <1>1, <1>3, RefuseStep DEF Replay
  <1>4. CASE SameRequest(t, row) /\ row.event # "turn"
    <2>1. Answer(t, row.id)
      BY <1>4 DEF Replay
    <2>2. SameRow(old, row)
      BY <1>4 DEF SameRequest, SameRow
    <2>3. AnswerFits(Said(old, row.id))
      BY <2>2 DEF AnswerFits, Said, SameRow
    <2>4. QED
      BY <1>1, <2>1, <2>3, AnswerStep
  <1>5. CASE SameRequest(t, row) /\ row.event = "turn"
    <2>1. client' = [client EXCEPT ![t].step = "report", ![t].turn = row.turn]
          /\ UNCHANGED <<lock, answers>>
      BY <1>5 DEF Replay
    <2>2. client' = [client EXCEPT ![t] = c]
      BY <2>1, <1>1 DEF ServiceInv, TypeOK
    <2>3. /\ c \in Call /\ c.step = "report" /\ c.kind = old.kind /\ c.id = old.id
          /\ c.request = old.request /\ c.input = old.input /\ c.turn = row.turn
      BY <1>1 DEF Call, Row
    <2>4. SameRow(c, row) /\ c.kind = "turn"
      BY <1>5, <2>3 DEF SameRequest, SameRow
    <2> HIDE DEF c
    <2>5. Fits(c)
      BY <1>1, <1>2, <2>3, <2>4 DEF Fits
    <2>6. QED
      BY <1>1, <2>1, <2>2, <2>3, <2>5, OnwardStep
  <1>6. QED
    BY <1>3, <1>4, <1>5

LEMMA LookStep ==
    ASSUME ServiceInv, NEW t \in Clients, LookForAnswer(t)
    PROVE  ServiceInv'
  <1> DEFINE c == [client[t] EXCEPT !.step = "load"]
  <1>1. /\ client[t].step = "look" /\ Inside(client[t])
        /\ UNCHANGED <<home, session, ledger, spent>>
    BY DEF LookForAnswer, At, Inside
  <1>2. CASE Refuse(t)
    BY <1>1, <1>2, RefuseStep
  <1>3. CASE \E i \in RowsOf(client[t].request) : Replay(t, ledger[i])
    BY <1>1, <1>3, ReplayStep
  <1>4. CASE Goto(t, "load") /\ UNCHANGED <<lock, answers>>
    <2>1. client[t] \in Call /\ Fits(client[t])
      BY HomeIsProcess DEF ServiceInv
    <2>2. client' = [client EXCEPT ![t] = c]
      BY <1>4 DEF Goto
    <2>3. /\ c \in Call /\ c.step = "load" /\ c.kind = client[t].kind /\ c.id = client[t].id
          /\ c.request = client[t].request /\ c.input = client[t].input
      BY <2>1 DEF Call
    <2>4. client[t].kind # "delete"
      BY <1>1, <2>1 DEF Fits, Authorized
    <2> HIDE DEF c
    <2>5. Fits(c)
      BY <1>1, <2>1, <2>3, <2>4 DEF Fits
    <2>6. QED
      BY <1>1, <1>4, <2>2, <2>3, <2>5, OnwardStep
  <1>5. QED
    BY <1>2, <1>3, <1>4 DEF LookForAnswer

\* The report that bears the turn number is what the request did, unless another session
\* has taken the place of the one that held it.
LEMMA ReportFits ==
    ASSUME ServiceInv, NEW t \in Clients, client[t].step = "report", session.live,
           NEW j \in Turns(session.effects), session.effects[j].turn = client[t].turn
    PROVE  session.effects[j].id \in Ids /\ AnswerFits(Said(client[t], session.effects[j].id))
  <1> DEFINE effects == session.effects
             c == client[t]
  <1>1. /\ Good(ledger, effects) /\ Fits(c)
        /\ OneProcess => Kept(ledger, effects)
    BY DEF ServiceInv, LedgerInv, SessionsGood, AccountedFor
  <1>2. PICK i \in RowsOf(c.request) :
            c.kind = "turn" /\ SameRow(c, ledger[i]) /\ ledger[i].turn = c.turn
    BY <1>1 DEF Fits
  <1>3. /\ effects \in Seq(Effect) /\ j \in DOMAIN effects /\ effects[j].kind = "turn"
        /\ effects[j].id \in Ids
    <2>1. effects \in Seq(Effect) /\ j \in DOMAIN effects /\ effects[j].kind = "turn"
      BY <1>1 DEF Good, Turns
    <2>2. effects[j] \in Effect
      BY <2>1
    <2>3. QED
      BY <2>1, <2>2 DEF Effect
  <1>4. PICK k \in 1..Len(ledger) : /\ ledger[k].id = effects[j].id /\ ledger[k].event = "turn"
                                    /\ ledger[k].turn = effects[j].turn
    BY <1>1, <1>3 DEF Good, OnRecord
  <1>5. ASSUME OneProcess, ~RestoredSince(i)
        PROVE  ledger[i].id = effects[j].id
    <2>1. i \in 1..Len(ledger) /\ ~Restored(ledger, i) /\ ledger[i].event = "turn"
      BY <1>2, <1>5 DEF RowsOf, SameRow, Restored, RestoredSince
    <2>2. PICK k2 \in DOMAIN effects :
              /\ effects[k2].id = ledger[i].id /\ effects[k2].kind = ledger[i].event
              /\ effects[k2].turn = ledger[i].turn
      BY <1>1, <1>5, <2>1 DEF Kept
    <2>3. k2 \in Turns(effects) /\ effects[k2].turn = effects[j].turn
      BY <1>2, <2>1, <2>2 DEF Turns
    <2>4. k2 = j
      BY <1>1, <2>3 DEF Good, Numbered
    <2>5. QED
      BY <2>2, <2>4
  <1>6. AnswerFits(Said(c, effects[j].id))
    BY <1>2, <1>4, <1>5 DEF AnswerFits, Said, SameRow
  <1>7. QED
    BY <1>3, <1>6

LEMMA ReportStep ==
    ASSUME ServiceInv, NEW t \in Clients, ReplayReport(t)
    PROVE  ServiceInv'
  <1>1. /\ client[t].step = "report" /\ Inside(client[t])
        /\ UNCHANGED <<home, session, ledger, spent>>
    BY DEF ReplayReport, At, Inside
  <1>2. CASE Refuse(t)
    BY <1>1, <1>2, RefuseStep
  <1>3. CASE /\ session.live
             /\ \E j \in Turns(session.effects) :
                   /\ session.effects[j].turn = client[t].turn
                   /\ Answer(t, session.effects[j].id)
    BY <1>1, <1>3, ReportFits, AnswerStep
  <1>4. QED
    BY <1>2, <1>3 DEF ReplayReport

LEMMA LoadStep ==
    ASSUME ServiceInv, NEW t \in Clients, Load(t)
    PROVE  ServiceInv'
  <1> DEFINE old == client[t]
             c == [old EXCEPT !.state = session.effects, !.step = "work"]
  <1>1. /\ old.step = "load" /\ Inside(old) /\ UNCHANGED <<home, session, ledger, spent>>
        /\ old \in Call /\ Fits(old) /\ session \in Session
    BY HomeIsProcess DEF Load, At, Inside, ServiceInv, TypeOK
  <1>2. CASE Refuse(t)
    BY <1>1, <1>2, RefuseStep
  <1>3. CASE /\ session.live
             /\ client' = [client EXCEPT ![t].state = session.effects, ![t].step = "work"]
             /\ UNCHANGED <<lock, answers>>
    <2>1. client' = [client EXCEPT ![t] = c]
      BY <1>3 DEF ServiceInv, TypeOK
    <2>2. session.effects \in Seq(Effect)
      BY <1>1 DEF Session
    <2>3. /\ c \in Call /\ c.step = "work" /\ c.kind = old.kind /\ c.id = old.id
          /\ c.request = old.request /\ c.input = old.input /\ c.state = session.effects
      BY <1>1, <2>2 DEF Call
    <2>4. Loaded(session.effects)
      BY <1>3 DEF Loaded, ServiceInv, LedgerInv, SessionsGood, AccountedFor
    <2> HIDE DEF c
    <2>5. Fits(c)
      BY <1>1, <2>3, <2>4 DEF Fits
    <2>6. QED
      BY <1>1, <1>3, <2>1, <2>3, <2>5, OnwardStep
  <1>4. QED
    BY <1>2, <1>3 DEF Load

LEMMA WorkStep ==
    ASSUME ServiceInv, NEW t \in Clients, Work(t)
    PROVE  ServiceInv'
  <1> DEFINE old == client[t]
             state == After(old, old.state)
             c == [old EXCEPT !.step = "save", !.state = state]
  <1>1. /\ old.step = "work" /\ Inside(old) /\ UNCHANGED <<home, session, ledger, spent>>
        /\ old \in Call /\ Fits(old)
    BY HomeIsProcess DEF Work, At, Inside, ServiceInv
  <1>2. CASE Refuse(t)
    BY <1>1, <1>2, RefuseStep
  <1>3. CASE /\ client' = [client EXCEPT ![t].step = "save", ![t].state = state]
             /\ UNCHANGED <<lock, answers>>
    <2>1. client' = [client EXCEPT ![t] = c]
      BY <1>3 DEF ServiceInv, TypeOK
    <2>2. old.state \in Seq(Effect) /\ old.id \in Ids /\ Loaded(old.state)
      BY <1>1 DEF Fits, Call
    <2>3. state \in Seq(Effect)
      BY <1>1, <2>2, EffectIsTyped DEF After
    <2>4. state = After(old, old.state)
      OBVIOUS
    <2> HIDE DEF state
    <2>5. /\ c \in Call /\ c.step = "save" /\ c.kind = old.kind /\ c.id = old.id
          /\ c.request = old.request /\ c.input = old.input /\ c.state = state
      BY <1>1, <2>3 DEF Call
    <2> HIDE DEF c
    <2>6. state = After(c, old.state)
      BY <2>4, <2>5 DEF After, EffectOf
    <2>7. Fits(c)
      BY <1>1, <2>2, <2>5, <2>6 DEF Fits
    <2>8. QED
      BY <1>1, <1>3, <2>1, <2>5, <2>7, OnwardStep
  <1>4. QED
    BY <1>2, <1>3 DEF Work

LEMMA AnchorStep ==
    ASSUME ServiceInv, NEW t \in Clients, AdvanceAnchor(t)
    PROVE  ServiceInv'
  <1> DEFINE c == client[t]
  <1>1. /\ c.step = "anchor" /\ Inside(c) /\ UNCHANGED <<home, session, ledger, spent>>
        /\ Fits(c)
    BY DEF AdvanceAnchor, At, Inside, ServiceInv
  <1>2. CASE Refuse(t)
    BY <1>1, <1>2, RefuseStep
  <1>3. CASE Answer(t, c.id)
    <2>1. c.kind \in Authorized => c.id \in Ids /\ AnswerFits(Said(c, c.id))
      BY <1>1 DEF Fits, AnswerFits, Said, SameRow
    <2>2. QED
      BY <1>1, <1>3, <2>1, AnswerStep
  <1>4. QED
    BY <1>2, <1>3 DEF AdvanceAnchor

LEMMA CrashStep ==
    ASSUME ServiceInv, NEW p \in Processes, Crash(p)
    PROVE  ServiceInv'
  <1>1. /\ TypeOK /\ LocksHeld /\ spent \in Spent /\ lock \in Locks
        /\ client \in [Clients -> Call] /\ \A t \in Clients : Fits(client[t])
        /\ answers \subseteq Answers /\ \A a \in answers : AnswerFits(a)
    BY DEF ServiceInv, TypeOK, Locks, Answers
  <1>2. /\ UNCHANGED <<home, session, ledger, answers>> /\ lock' = [lock EXCEPT ![p] = None]
        /\ spent' = [spent EXCEPT !.crashes = spent.crashes + 1]
        /\ client' = [t \in Clients |-> IF home[t] = p THEN Idle ELSE client[t]]
    BY DEF Crash
  <1>3. LocksHeld'
    BY <1>1, CrashKeepsLocks
  <1>4. spent' \in Spent /\ spent'.restores = spent.restores
    BY <1>1, <1>2 DEF Spent
  <1>5. lock' \in Locks
    BY <1>1, <1>2 DEF Locks
  <1>6. Quiet
    BY <1>2, <1>3, <1>4, <1>5 DEF Quiet
  <1>7. client' \in [Clients -> Call]
    BY <1>1, <1>2, IdleFits
  <1>8. \A t \in Clients : Fits(client'[t])
    BY <1>1, <1>2, IdleFits
  <1>9. QED
    BY <1>1, <1>2, <1>6, <1>7, <1>8, QuietStep

-----------------------------------------------------------------------------
(* Steps that add a row to the ledger.                                     *)

Grows(row) ==
    /\ row \in Row /\ ledger' = Append(ledger, row) /\ UNCHANGED home
    /\ row.request # None => RowsOf(row.request) = {} /\ row.id \in Ids

LEMMA GrowthKeepsRows ==
    ASSUME ledger \in Seq(Row), NEW row, Grows(row)
    PROVE  /\ Len(ledger) \in Nat /\ Len(ledger') = Len(ledger) + 1
           /\ ledger'[Len(ledger) + 1] = row
           /\ \A i \in 1..Len(ledger) :
                 /\ i \in 1..Len(ledger') /\ ledger'[i] = ledger[i]
                 /\ RestoredSince(i) => RestoredSince(i)'
           /\ OneProcess' = OneProcess
  <1>1. /\ Len(ledger) \in Nat /\ Len(ledger') = Len(ledger) + 1
        /\ ledger'[Len(ledger) + 1] = row
        /\ \A i \in 1..Len(ledger) : i \in 1..Len(ledger') /\ ledger'[i] = ledger[i]
    BY RowIsAppended DEF Grows
  <1>2. \A i \in 1..Len(ledger) : RestoredSince(i) => RestoredSince(i)'
    BY <1>1 DEF RestoredSince
  <1>3. OneProcess' = OneProcess
    BY DEF OneProcess, Grows
  <1>4. QED
    BY <1>1, <1>2, <1>3

LEMMA GrowthKeepsAnswers ==
    ASSUME ledger \in Seq(Row), NEW row, Grows(row), NEW a, AnswerFits(a)
    PROVE  AnswerFits(a)'
  <1>1. PICK i \in RowsOf(a.request) :
            /\ SameRow(a, ledger[i])
            /\ \/ ledger[i].id = a.id
               \/ /\ a.kind = "turn"
                  /\ ~OneProcess \/ RestoredSince(i)
                  /\ \E j \in 1..Len(ledger) :
                        /\ ledger[j].id = a.id /\ ledger[j].event = "turn"
                        /\ ledger[j].turn = ledger[i].turn
    BY DEF AnswerFits
  <1>2. i \in 1..Len(ledger) /\ a.request # None /\ ledger[i].request = a.request
    BY DEF RowsOf
  <1>3. /\ i \in 1..Len(ledger') /\ ledger'[i] = ledger[i]
        /\ RestoredSince(i) => RestoredSince(i)'
    BY <1>2, GrowthKeepsRows
  <1>4. i \in RowsOf(a.request)'
    BY <1>2, <1>3 DEF RowsOf
  <1>5. CASE ledger[i].id = a.id
    BY <1>1, <1>3, <1>4, <1>5 DEF AnswerFits, SameRow
  <1>6. CASE /\ a.kind = "turn"
             /\ ~OneProcess \/ RestoredSince(i)
             /\ \E j \in 1..Len(ledger) :
                   /\ ledger[j].id = a.id /\ ledger[j].event = "turn"
                   /\ ledger[j].turn = ledger[i].turn
    <2>1. PICK j \in 1..Len(ledger) : /\ ledger[j].id = a.id /\ ledger[j].event = "turn"
                                      /\ ledger[j].turn = ledger[i].turn
      BY <1>6
    <2>2. j \in 1..Len(ledger') /\ ledger'[j] = ledger[j] /\ OneProcess' = OneProcess
      BY GrowthKeepsRows
    <2>3. (~OneProcess \/ RestoredSince(i))'
      BY <1>3, <1>6, <2>2
    <2>4. QED
      BY <1>1, <1>3, <1>4, <1>6, <2>1, <2>2, <2>3 DEF AnswerFits, SameRow
  <1>7. QED
    BY <1>1, <1>5, <1>6

LEMMA GrowthKeepsFits ==
    ASSUME ledger \in Seq(Row), NEW row, Grows(row), NEW c, Fits(c),
           \A base : c.step \in {"work", "save"} /\ Loaded(base) => Loaded(base)'
    PROVE  Fits(c)'
  <1>1. \A i \in RowsOf(c.request) : i \in RowsOf(c.request)' /\ ledger'[i] = ledger[i]
    BY GrowthKeepsRows DEF RowsOf
  <1>2. c.step = "work" => Loaded(c.state)'
    BY DEF Fits
  <1>3. c.step = "save" /\ c.kind # "delete" => \E base : Loaded(base)' /\ c.state = After(c, base)
    BY DEF Fits
  <1>4. c.step = "report" => \E i \in RowsOf(c.request)' :
            c.kind = "turn" /\ SameRow(c, ledger'[i]) /\ ledger'[i].turn = c.turn
    BY <1>1 DEF Fits, SameRow
  <1>5. c.step = "anchor" /\ c.kind \in Authorized => \E i \in RowsOf(c.request)' :
            SameRow(c, ledger'[i]) /\ ledger'[i].id = c.id
    BY <1>1 DEF Fits, SameRow
  <1>6. QED
    BY <1>2, <1>3, <1>4, <1>5 DEF Fits, SameRow

LEMMA GrowthKeepsLedger ==
    ASSUME ledger \in Seq(Row), LedgerInv, NEW row, Grows(row), row.session = session',
           Good(ledger', session'.effects), AccountedFor'
    PROVE  LedgerInv'
  <1> DEFINE n == Len(ledger) + 1
  <1>1. /\ Len(ledger) \in Nat /\ Len(ledger') = n /\ ledger'[n] = row
        /\ \A i \in 1..Len(ledger) : ledger'[i] = ledger[i]
        /\ row \in Row /\ ledger' = Append(ledger, row)
    BY GrowthKeepsRows DEF Grows
  <1>2. Len(ledger') >= 1 /\ ledger'[1].event = "checkpoint"
    BY <1>1 DEF LedgerInv
  <1>3. \A i \in 1..Len(ledger) : ledger[i].request # None => ledger[i].request # row.request
    BY DEF Grows, RowsOf
  <1>4. RequestsUnique'
    <2> SUFFICES ASSUME NEW i \in 1..n, NEW j \in 1..n,
                        ledger'[i].request # None, ledger'[i].request = ledger'[j].request
                 PROVE  i = j
      BY <1>1 DEF RequestsUnique
    <2>1. i \in 1..Len(ledger) \/ i = n
      BY <1>1
    <2>2. j \in 1..Len(ledger) \/ j = n
      BY <1>1
    <2>3. QED
      BY <1>1, <1>3, <2>1, <2>2 DEF LedgerInv, RequestsUnique
  <1>5. CallsNamed'
    BY <1>1 DEF LedgerInv, CallsNamed, Grows
  <1>6. SessionsGood'
    <2>1. \A i \in 1..Len(ledger) : Good(ledger', ledger[i].session.effects)
      BY <1>1, GoodGrows DEF LedgerInv, SessionsGood
    <2>2. \A i \in 1..n : Good(ledger', ledger'[i].session.effects)
      BY <1>1, <2>1
    <2>3. QED
      BY <1>1, <2>2 DEF SessionsGood
  <1>7. QED
    BY <1>2, <1>4, <1>5, <1>6 DEF LedgerInv

LEMMA NewIsGood == \A log : <<>> \in Seq(Effect) /\ Good(log, <<>>)
  <1>1. <<>> \in Seq(Effect) /\ DOMAIN <<>> = {}
    OBVIOUS
  <1>2. Turns(<<>>) = {}
    BY <1>1 DEF Turns
  <1>3. QED
    BY <1>1, <1>2 DEF Good, OnRecord, Numbered, OnceEach

LEMMA CheckpointCommits ==
    ASSUME LedgerInv
    PROVE  Commits(ledger) # {}
  <1>1. 1 \in Commits(ledger)
    BY DEF LedgerInv, Commits
  <1>2. QED
    BY <1>1

LEMMA SaveBothStep ==
    ASSUME ServiceInv, NEW t \in Clients, client[t].step = "save", Verified,
           RowsOf(client[t].request) = {}, session.live, SaveBoth(t), UNCHANGED <<home, spent>>
    PROVE  ServiceInv'
  <1>0. PICK c : c = client[t]
    OBVIOUS
  <1> DEFINE turn == IF c.kind = "turn" THEN Cardinality(Turns(c.state)) ELSE 0
             row == [event |-> c.kind, id |-> c.id, request |-> c.request, input |-> c.input,
                     turn |-> turn, session |-> session']
  <1>1. /\ TypeOK /\ LocksHeld /\ LedgerInv /\ spent \in Spent /\ Fits(c) /\ c \in Call
        /\ Inside(c) /\ c.step = "save" /\ ledger \in Seq(Row) /\ session \in Session
        /\ client \in [Clients -> Call] /\ c.id \in Ids /\ c.id \in 0..MaxCalls
    <2>1. /\ TypeOK /\ LocksHeld /\ LedgerInv /\ spent \in Spent /\ Fits(c) /\ c \in Call
          /\ Inside(c) /\ ledger \in Seq(Row) /\ session \in Session
          /\ client \in [Clients -> Call]
      BY <1>0, HomeIsProcess DEF ServiceInv, TypeOK, Inside
    <2>2. c.id \in Ids
      BY <2>1 DEF Fits, Inside
    <2>3. QED
      BY <1>0, <2>1, <2>2 DEF Call
  <1>2. /\ session' = IF c.kind = "delete" THEN Gone ELSE [live |-> TRUE, effects |-> c.state]
        /\ ledger' = Append(ledger, row)
        /\ client' = [client EXCEPT ![t].step = "anchor", ![t].state = <<>>]
        /\ UNCHANGED <<home, lock, answers, spent>>
    BY <1>0 DEF SaveBoth
  <1>3. c.state \in Seq(Effect) /\ turn \in Nat
    <2>1. c.state \in Seq(Effect)
      BY <1>1 DEF Call
    <2>2. QED
      BY <2>1, TurnsAreFinite
  <1>4. session' \in Session
    BY <1>2, <1>3, NewIsGood DEF Session, Gone
  <1>5. RowFor(row, c, c.state)
    <2>1. /\ c.kind \in AllKinds /\ c.request \in Requests \cup {None}
          /\ c.input \in Inputs \cup {None}
      BY <1>1 DEF Call
    <2> HIDE DEF turn
    <2>2. row \in Row
      BY <1>1, <1>3, <1>4, <2>1 DEF Row
    <2>3. QED
      BY <2>2 DEF RowFor, turn
  <1>6. /\ row \in Row /\ row.event = c.kind /\ row.id = c.id /\ row.request = c.request
        /\ row.input = c.input /\ row.session = session'
    BY <1>5 DEF RowFor
  <1> HIDE DEF row
  <1>7. Grows(row)
    BY <1>0, <1>1, <1>2, <1>6 DEF Grows
  <1>8. Fresh(ledger, c.request)
    BY <1>0 DEF Fresh, RowsOf
  <1>9. ASSUME c.kind # "delete"
        PROVE  /\ Good(ledger', session'.effects)
               /\ OneProcess => Kept(ledger', session'.effects)
               /\ OneProcess /\ spent.restores = 0 /\ c.kind = "controls" => session' = session
    <2>1. PICK base : Loaded(base) /\ c.state = After(c, base)
      BY <1>1, <1>9 DEF Fits
    <2>2. session' = [live |-> TRUE, effects |-> c.state] /\ session'.effects = c.state
      BY <1>2, <1>9
    <2>3. Good(ledger, base) /\ base \in Seq(Effect)
      BY <2>1 DEF Loaded, Good
    <2>4. Good(ledger', c.state)
      BY <1>1, <1>2, <1>5, <1>8, <2>1, <2>3, AfterIsGood
    <2>5. OneProcess => Kept(ledger', c.state)
      BY <1>1, <1>2, <1>5, <2>1, <2>3, AfterIsKept DEF Loaded
    <2>6. ASSUME OneProcess, spent.restores = 0, c.kind = "controls"
          PROVE  session' = session
      <3>1. c.state = session.effects
        BY <2>1, <2>6 DEF Loaded, After
      <3>2. session = [live |-> TRUE, effects |-> session.effects]
        BY <1>1 DEF Session
      <3>3. QED
        BY <2>2, <3>1, <3>2
    <2>7. QED
      BY <2>2, <2>4, <2>5, <2>6
  <1>10. Good(ledger', session'.effects)
    <2>1. CASE c.kind = "delete"
      <3>1. session'.effects = <<>>
        BY <1>2, <2>1 DEF Gone
      <3>2. QED
        BY <3>1, NewIsGood
    <2>2. QED
      BY <1>9, <2>1
  <1>11. AccountedFor'
    <2>1. OneProcess /\ session'.live => Kept(ledger', session'.effects)
      BY <1>2, <1>9 DEF Gone
    <2>2. OneProcess /\ spent.restores = 0 => session' = ExpectedSession(ledger')
      BY <1>1, <1>2, <1>6, <1>9, CheckpointCommits, ExpectedOfMore DEF Verified
    <2>3. OneProcess' = OneProcess
      BY <1>2 DEF OneProcess
    <2>4. QED
      BY <1>2, <2>1, <2>2, <2>3 DEF AccountedFor, Verified
  <1>12. LedgerInv'
    BY <1>1, <1>6, <1>7, <1>10, <1>11, GrowthKeepsLedger
  <1>13. PICK done \in Call :
             /\ client' = [client EXCEPT ![t] = done]
             /\ done.step = "anchor" /\ done.kind = c.kind /\ done.id = c.id
             /\ done.request = c.request /\ done.input = c.input
    <2> DEFINE d == [c EXCEPT !.step = "anchor", !.state = <<>>]
    <2>1. /\ d \in Call /\ d.step = "anchor" /\ d.kind = c.kind /\ d.id = c.id
          /\ d.request = c.request /\ d.input = c.input
      BY <1>1, NewIsGood DEF Call
    <2>2. client' = [client EXCEPT ![t] = d]
      BY <1>0, <1>1, <1>2
    <2> HIDE DEF d
    <2>3. QED
      BY <2>1, <2>2
  <1>14. LocksHeld'
    BY <1>0, <1>1, <1>2, <1>13, MovingKeepsLocks
  <1>15. Fits(done)'
    <2>1. c.kind \in Authorized => \E i \in RowsOf(c.request)' :
             SameRow(c, ledger'[i]) /\ ledger'[i].id = c.id
      <3> SUFFICES ASSUME c.kind \in Authorized
                   PROVE  \E i \in RowsOf(c.request)' :
                             SameRow(c, ledger'[i]) /\ ledger'[i].id = c.id
        OBVIOUS
      <3>1. c.request # None
        BY <1>1, ServiceAssumption DEF Fits, Inside
      <3>2. Len(ledger) + 1 \in RowsOf(c.request)' /\ ledger'[Len(ledger) + 1] = row
        BY <1>1, <1>6, <1>7, <3>1, GrowthKeepsRows DEF RowsOf
      <3>3. QED
        BY <1>6, <3>2 DEF SameRow
    <2>2. QED
      BY <1>1, <1>13, <2>1 DEF Fits, SameRow
  <1>16. ASSUME NEW u \in Clients, u # t PROVE Fits(client[u])'
    <2>0. PICK d : d = client[u]
      OBVIOUS
    <2>1. Fits(d) /\ client'[u] = d
      BY <1>1, <1>13, <1>16, <2>0 DEF ServiceInv
    <2>2. OneProcess => ~Inside(d)
      BY <1>0, <1>1, <1>16, <2>0 DEF LocksHeld, OneProcess
    <2>3. \A base : d.step \in {"work", "save"} /\ Loaded(base) => Loaded(base)'
      <3> SUFFICES ASSUME NEW base, d.step \in {"work", "save"}, Loaded(base)
                   PROVE  Loaded(base)'
        OBVIOUS
      <3>1. ~OneProcess
        BY <2>2 DEF Inside
      <3>2. ~OneProcess'
        BY <1>1, <1>7, <3>1, GrowthKeepsRows
      <3>3. Good(ledger', base)
        BY <1>1, <1>2, <1>6, GoodGrows DEF Loaded
      <3>4. QED
        BY <3>2, <3>3 DEF Loaded
    <2>4. Fits(d)'
      BY <1>1, <1>7, <2>1, <2>3, GrowthKeepsFits
    <2>5. QED
      BY <2>1, <2>4
  <1>17. \A u \in Clients : Fits(client[u])'
    <2>1. client'[t] = done
      BY <1>1, <1>13
    <2>2. Fits(client[t])'
      BY <1>15, <2>1
    <2>3. QED
      BY <1>16, <2>2
  <1>18. \A a \in answers' : AnswerFits(a)'
    BY <1>1, <1>2, <1>7, GrowthKeepsAnswers DEF ServiceInv
  <1>19. TypeOK'
    <2>1. ledger' \in Seq(Row)
      BY <1>1, <1>2, <1>6
    <2>2. client' \in [Clients -> Call]
      BY <1>1, <1>13
    <2>3. QED
      BY <1>1, <1>2, <1>4, <2>1, <2>2 DEF TypeOK
  <1>20. spent' \in Spent
    BY <1>1, <1>2
  <1>21. QED
    BY <1>12, <1>14, <1>17, <1>18, <1>19, <1>20 DEF ServiceInv

LEMMA SaveStep ==
    ASSUME ServiceInv, NEW t \in Clients, Save(t)
    PROVE  ServiceInv'
  <1>1. client[t].step = "save" /\ Inside(client[t]) /\ UNCHANGED <<home, spent>>
    BY DEF Save, At, Inside
  <1>2. CASE Refuse(t) /\ UNCHANGED <<session, ledger>>
    BY <1>1, <1>2, RefuseStep
  <1>3. CASE /\ \E i \in RowsOf(client[t].request) : Replay(t, ledger[i])
             /\ UNCHANGED <<session, ledger>>
    BY <1>1, <1>3, ReplayStep
  <1>4. CASE Verified /\ RowsOf(client[t].request) = {} /\ session.live /\ SaveBoth(t)
    BY <1>1, <1>4, SaveBothStep
  <1>5. QED
    BY <1>2, <1>3, <1>4 DEF Save

LEMMA RestoreStep ==
    ASSUME ServiceInv, NEW i \in 1..Len(ledger), Restore(i)
    PROVE  ServiceInv'
  <1> DEFINE part == SubSeq(ledger, 1, i)
  <1>1. /\ TypeOK /\ LocksHeld /\ LedgerInv /\ spent \in Spent /\ ledger \in Seq(Row)
        /\ session \in Session /\ client \in [Clients -> Call]
    BY DEF ServiceInv, TypeOK
  <1>2. PICK old : old = ExpectedSession(part)
    OBVIOUS
  <1>3. PICK row : row = [event |-> "restore", id |-> 0, request |-> None, input |-> None,
                          turn |-> 0, session |-> old]
    OBVIOUS
  <1>4. /\ session' = old /\ ledger' = Append(ledger, row)
        /\ spent' = [spent EXCEPT !.restores = spent.restores + 1]
        /\ UNCHANGED <<home, lock, client, answers>>
    BY <1>2, <1>3 DEF Restore
  <1>5. spent' \in Spent /\ spent'.restores # 0
    BY SMTT(20), <1>1, <1>4 DEF Spent
  <1>6. \E k \in 1..Len(ledger) : old = ledger[k].session
    <2>1. /\ part \in Seq(Row) /\ Len(part) = i
          /\ \A k \in 1..i : part[k] = ledger[k] /\ k \in 1..Len(ledger)
      BY <1>1
    <2>2. 1 \in Commits(part)
      BY <1>1, <2>1 DEF Commits, LedgerInv
    <2> HIDE DEF part
    <2>3. QED
      BY <1>2, <2>1, <2>2, ExpectedIsOfRow
  <1>7. old \in Session /\ Good(ledger, old.effects)
    <2>1. PICK k \in 1..Len(ledger) : old = ledger[k].session
      BY <1>6
    <2>2. ledger[k] \in Row
      BY <1>1
    <2>3. QED
      BY <1>1, <2>1, <2>2 DEF LedgerInv, SessionsGood, Row
  <1>8. /\ row \in Row /\ row.event = "restore" /\ row.request = None /\ row.session = session'
    <2>1. 0 \in 0..MaxCalls
      BY ServiceAssumption
    <2>2. QED
      BY <1>3, <1>4, <1>7, <2>1 DEF Row
  <1>9. Grows(row)
    BY <1>4, <1>8 DEF Grows
  <1>10. Good(ledger', session'.effects)
    BY <1>1, <1>4, <1>7, <1>8, GoodGrows
  <1>11. \A effects : Kept(ledger', effects)
    BY <1>1, <1>4, <1>8, RestoreKeepsAll
  <1>12. AccountedFor'
    BY <1>5, <1>11 DEF AccountedFor
  <1>13. LedgerInv'
    BY <1>1, <1>8, <1>9, <1>10, <1>12, GrowthKeepsLedger
  <1>14. \A base : Loaded(base) => Loaded(base)'
    <2> SUFFICES ASSUME NEW base, Loaded(base)
                 PROVE  Loaded(base)'
      OBVIOUS
    <2>1. Good(ledger', base)
      BY <1>1, <1>4, <1>8, GoodGrows DEF Loaded
    <2>2. QED
      BY <1>5, <1>11, <2>1 DEF Loaded
  <1>15. ASSUME NEW u \in Clients PROVE Fits(client[u])'
    <2>1. PICK c : c = client[u]
      OBVIOUS
    <2>2. Fits(c) /\ client'[u] = c
      BY <1>4, <2>1 DEF ServiceInv
    <2>3. Fits(c)'
      BY <1>1, <1>9, <1>14, <2>2, GrowthKeepsFits
    <2>4. QED
      BY <2>2, <2>3
  <1>16. \A a \in answers' : AnswerFits(a)'
    BY <1>1, <1>4, <1>9, GrowthKeepsAnswers DEF ServiceInv
  <1>17. LocksHeld'
    BY <1>1, <1>4 DEF LocksHeld
  <1>18. TypeOK'
    BY <1>1, <1>4, <1>7, <1>8 DEF TypeOK
  <1>19. QED
    BY <1>5, <1>13, <1>15, <1>16, <1>17, <1>18 DEF ServiceInv

-----------------------------------------------------------------------------
(* The theorems.                                                           *)

LEMMA ServiceInvInit ==
    ASSUME Init
    PROVE  ServiceInv
  <1> DEFINE new == [live |-> TRUE, effects |-> <<>>]
             row == [event |-> "checkpoint", id |-> 0, request |-> None, input |-> None,
                     turn |-> 0, session |-> new]
  <1>1. /\ home \in Homes /\ session = new /\ ledger = <<row>>
        /\ lock = [p \in Processes |-> None] /\ client = [t \in Clients |-> Idle]
        /\ answers = {} /\ spent = [calls |-> 0, restores |-> 0, crashes |-> 0]
    BY DEF Init
  <1>2. new \in Session /\ new.effects = <<>>
    BY NewIsGood DEF Session
  <1>3. row \in Row /\ row.session = new /\ row.event = "checkpoint" /\ row.request = None
    BY <1>2, ServiceAssumption DEF Row
  <1> HIDE DEF new, row
  <1>4. Len(ledger) = 1 /\ ledger[1] = row /\ ledger \in Seq(Row)
    BY <1>1, <1>3
  <1>5. TypeOK /\ spent \in Spent
    BY <1>1, <1>2, <1>4, IdleFits, ServiceAssumption DEF TypeOK, Spent
  <1>6. SessionsGood
    BY <1>1, <1>2, <1>3, <1>4, NewIsGood DEF SessionsGood
  <1>7. ExpectedSession(ledger) = session
    <2>1. Commits(ledger) = {1} /\ Commits(ledger) # {}
      BY <1>3, <1>4 DEF Commits
    <2>2. Max(Commits(ledger)) = 1
      BY <2>1, SomeIsLast, <1>4 DEF Commits
    <2>3. QED
      BY <1>1, <1>3, <1>4, <2>1, <2>2, ExpectedIsLatest
  <1>8. AccountedFor
    <2>1. Kept(ledger, session.effects)
      BY <1>3, <1>4 DEF Kept
    <2>2. QED
      BY <1>7, <2>1 DEF AccountedFor, Verified
  <1>9. LedgerInv
    BY <1>3, <1>4, <1>6, <1>8 DEF LedgerInv, RequestsUnique, CallsNamed
  <1>10. LocksHeld
    BY <1>1 DEF LocksHeld, Inside, Idle
  <1>11. QED
    BY <1>1, <1>5, <1>9, <1>10, IdleFits DEF ServiceInv

LEMMA ServiceInvStep ==
    ASSUME ServiceInv, [Next]_vars
    PROVE  ServiceInv'
  <1>1. CASE \E t \in Clients, call \in Calls : Begin(t, call)
    BY <1>1, BeginStep
  <1>2. CASE \E t \in Clients : Step(t)
    BY <1>2, AcquireStep, LookStep, ReportStep, LoadStep, WorkStep, SaveStep, AnchorStep DEF Step
  <1>3. CASE \E i \in 1..Len(ledger) : Restore(i)
    BY <1>3, RestoreStep
  <1>4. CASE \E p \in Processes : Crash(p)
    BY <1>4, CrashStep
  <1>5. CASE UNCHANGED vars
    <2>1. UNCHANGED <<home, session, ledger, lock, client, answers, spent>>
      BY <1>5 DEF vars
    <2>2. Quiet
      BY <2>1 DEF Quiet, ServiceInv, TypeOK, Locks, LocksHeld
    <2>3. /\ client' \in [Clients -> Call] /\ \A t \in Clients : Fits(client'[t])
          /\ answers' \subseteq Answers /\ \A a \in answers' : AnswerFits(a)
      BY <2>1 DEF ServiceInv, TypeOK, Answers
    <2>4. QED
      BY <2>2, <2>3, QuietStep
  <1>6. QED
    BY <1>1, <1>2, <1>3, <1>4, <1>5 DEF Next

LEMMA ServiceInvAlways == Spec => []ServiceInv
  <1>1. Init => ServiceInv
    BY ServiceInvInit
  <1>2. ServiceInv /\ [Next]_vars => ServiceInv'
    BY ServiceInvStep
  <1>3. QED
    BY <1>1, <1>2, PTL DEF Spec

LEMMA OnceFollows ==
    ASSUME ServiceInv
    PROVE  TakesEffectOnce
  <1>1. ASSUME NEW request \in Requests
        PROVE  Cardinality(RowsOf(request)) <= 1
    <2>1. \A i, j \in RowsOf(request) : i = j
      BY DEF ServiceInv, LedgerInv, RequestsUnique, RowsOf
    <2>2. CASE RowsOf(request) = {}
      <3>1. Cardinality(RowsOf(request)) = 0
        BY <2>2, FS_EmptySet
      <3>2. QED
        BY <3>1
    <2>3. CASE RowsOf(request) # {}
      <3>1. PICK i \in RowsOf(request) : TRUE
        BY <2>3
      <3>2. RowsOf(request) = {i}
        BY <2>1, <3>1
      <3>3. Cardinality({i}) = 1
        BY FS_Singleton
      <3>4. Cardinality(RowsOf(request)) = 1
        BY <3>2, <3>3, Zenon
      <3>5. QED
        BY <3>4
    <2>4. QED
      BY <2>2, <2>3
  <1>2. OnceEach(session.effects)
    BY DEF ServiceInv, LedgerInv, SessionsGood, Good
  <1>3. QED
    BY <1>1, <1>2 DEF TakesEffectOnce, OnceEach

\* Whatever the request ids and the processes, and around crashes and restores, a request
\* id has one ledger row and one effect: the column is unique, and a call saves what it
\* made of a session whose effects are all on record (storage/sqlite.py).
THEOREM EffectIsOnlyOnce == Spec => []TakesEffectOnce
  <1>1. ServiceInv => TakesEffectOnce
    BY OnceFollows
  <1>2. QED
    BY <1>1, ServiceInvAlways, PTL

\* Success is only ever told of what the ledger records under the request id, and the
\* answer tells what that request did, unless a restore or another process made its turn
\* number belong to another turn.
THEOREM SuccessIsAlwaysOnRecord == Spec => []SuccessIsOnRecord
  <1>1. ServiceInv => SuccessIsOnRecord
    <2> SUFFICES ASSUME ServiceInv
                 PROVE  SuccessIsOnRecord
      OBVIOUS
    <2>1. TypeOK /\ \A a \in answers : AnswerFits(a)
      BY DEF ServiceInv
    <2>2. QED
      BY <2>1 DEF SuccessIsOnRecord, AnswerFits, SameRow
  <1>2. QED
    BY <1>1, ServiceInvAlways, PTL

\* One process loses no effect that was committed since the last restore: the session
\* lock is held from the look-up to the commit.
THEOREM NothingIsLost == Spec => []NothingLost
  <1>1. ServiceInv => NothingLost
    <2> SUFFICES ASSUME ServiceInv
                 PROVE  NothingLost
      OBVIOUS
    <2>1. AccountedFor
      BY DEF ServiceInv, LedgerInv
    <2>2. \A i : Restored(ledger, i) = RestoredSince(i)
      BY DEF Restored, RestoredSince
    <2>3. QED
      BY <2>1, <2>2 DEF AccountedFor, NothingLost, Kept
  <1>2. QED
    BY <1>1, ServiceInvAlways, PTL

=============================================================================

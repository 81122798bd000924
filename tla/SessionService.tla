---------------------------- MODULE SessionService ----------------------------
(***************************************************************************)
(* The application services over one stored session: turns, verified       *)
(* evidence, contradictions and their resolution, source ingestion, control*)
(* changes and deletion (application/sessions.py,                          *)
(* contradiction_resolution.py, storage/session_deletion.py).  A call takes*)
(* the session lock of its process, looks for an earlier answer to its     *)
(* request id, loads the session, works on it, and saves state and ledger  *)
(* row in one transaction.  Restoring a backup takes no session lock, and  *)
(* another process has locks of its own.                                   *)
(*                                                                         *)
(* A session is the sequence of the calls whose effects it holds.  Anchor  *)
(* and chain verification are the subject of AuditLedger: here advancing   *)
(* the anchor succeeds or fails.                                           *)
(***************************************************************************)
EXTENDS Integers, Sequences, FiniteSets, SequencesExt

CONSTANTS
    Clients, Processes,
    Homes,       \* the ways the clients may be threads of the processes
    Requests,    \* request ids the clients choose
    Inputs,      \* question, seed, source, basis: what else the request carries
    Calls,       \* what they ask for
    None,
    MaxCalls, MaxFaults    \* bounds: calls; restores and crashes together

\* Operations that carry a request id and leave a replayable answer.
Authorized == {"turn", "evidence", "falsify", "resolve"}
AllKinds == Authorized \cup {"ingest", "controls", "delete"}

\* An authorized call names its request (ActorContext).
Asked == {call \in [kind : AllKinds, request : Requests \cup {None},
                    input : Inputs \cup {None}] :
             IF call.kind \in Authorized THEN call.request # None /\ call.input # None
             ELSE call.request = None /\ call.input = None}

ASSUME ServiceAssumption ==
    /\ Homes \subseteq [Clients -> Processes]
    /\ Calls \subseteq Asked
    /\ None \notin Clients \cup Requests \cup Inputs
    /\ MaxCalls \in Nat /\ MaxFaults \in Nat

VARIABLES
    home,      \* the process every client is a thread of
    session,   \* the row of the sessions table
    ledger,    \* production_ledger, from the checkpoint that covers the new session
    lock,      \* who holds the session lock, in every process
    client,    \* what every client is doing
    answers,   \* history: the successful answers to authorized calls
    spent      \* calls, restores and crashes so far

vars == <<home, session, ledger, lock, client, answers, spent>>

Ids == 1..MaxCalls

\* An effect; the report of a turn bears its number.
Effect == [id : Ids, kind : AllKinds, request : Requests \cup {None}, turn : Nat]
Session == [live : BOOLEAN, effects : Seq(Effect)]
Gone == [live |-> FALSE, effects |-> <<>>]

Row == [event : AllKinds \cup {"checkpoint", "restore"}, id : 0..MaxCalls,
        request : Requests \cup {None}, input : Inputs \cup {None},
        turn : Nat, session : Session]

Call == [step : {"idle", "lock", "look", "report", "load", "work", "save", "anchor"},
         id : 0..MaxCalls, kind : AllKinds, request : Requests \cup {None},
         input : Inputs \cup {None}, state : Seq(Effect), turn : Nat]

Idle == [step |-> "idle", id |-> 0, kind |-> "turn", request |-> None, input |-> None,
         state |-> <<>>, turn |-> 0]

At(t, step) == client[t].step = step
Goto(t, step) == client' = [client EXCEPT ![t].step = step]

\* expected_authority_snapshot_from_ledger: control changes commit to no authority.
ExpectedSession(rows) ==
    rows[SelectLastInSeq(rows, LAMBDA row : row.event # "controls")].session

\* initialize, at the head of every repository operation.
Verified == session = ExpectedSession(ledger)

\* The places of the turn reports.
Turns(effects) == {j \in DOMAIN effects : effects[j].kind = "turn"}

\* The rows of a request id.
RowsOf(request) == {i \in 1..Len(ledger) : request # None /\ ledger[i].request = request}

-----------------------------------------------------------------------------
(* Calls begin and end.                                                    *)

Begin(t, call) ==
    /\ At(t, "idle") /\ spent.calls < MaxCalls
    /\ client' = [client EXCEPT ![t] =
                     [step |-> "lock", id |-> spent.calls + 1, kind |-> call.kind,
                      request |-> call.request, input |-> call.input,
                      state |-> <<>>, turn |-> 0]]
    /\ spent' = [spent EXCEPT !.calls = spent.calls + 1]
    /\ UNCHANGED <<home, session, ledger, lock, answers>>

\* An operation that goes ahead whoever holds the lock.
AcquireAnyway(t) ==
    /\ At(t, "lock")
    /\ lock' = [lock EXCEPT ![home[t]] = t]
    /\ Goto(t, IF client[t].kind \in Authorized THEN "look" ELSE "load")
    /\ UNCHANGED <<home, session, ledger, answers, spent>>

\* session_mutation_lock
Acquire(t) ==
    /\ At(t, "lock") /\ lock[home[t]] = None
    /\ lock' = [lock EXCEPT ![home[t]] = t]
    /\ Goto(t, CASE client[t].kind \in Authorized -> "look"
                 [] client[t].kind = "delete" -> "save"
                 [] OTHER -> "load")
    /\ UNCHANGED <<home, session, ledger, answers, spent>>

\* The with statement releases the lock on every way out.
Leave(t) ==
    /\ lock' = [lock EXCEPT ![home[t]] = None]
    /\ client' = [client EXCEPT ![t] = Idle]

\* A way out that forgets the lock.
RefuseHoldingLock(t) ==
    /\ client' = [client EXCEPT ![t] = Idle]
    /\ UNCHANGED <<lock, answers>>

\* An exception.
Refuse(t) == Leave(t) /\ UNCHANGED answers

\* A successful answer, made of what call id did.
Answer(t, id) ==
    /\ Leave(t)
    /\ answers' = IF client[t].kind \notin Authorized THEN answers
                  ELSE answers \cup {[request |-> client[t].request, id |-> id,
                                      kind |-> client[t].kind, input |-> client[t].input]}

-----------------------------------------------------------------------------
(* Replay                                                                  *)

\* A replay that only compares the operation.
SameOperation(t, row) == row.event = client[t].kind

\* The same operation on the same session and seed, with the same fingerprint.
SameRequest(t, row) == row.event = client[t].kind /\ row.input = client[t].input

\* What the ledger kept of an evidence or contradiction request is its answer; the
\* report of a turn is fetched from the session.
Replay(t, row) ==
    IF ~SameRequest(t, row) THEN Refuse(t)
    ELSE IF row.event # "turn" THEN Answer(t, row.id)
    ELSE /\ client' = [client EXCEPT ![t].step = "report", ![t].turn = row.turn]
         /\ UNCHANGED <<lock, answers>>

\* authorized_request_result
LookForAnswer(t) ==
    /\ At(t, "look")
    /\ IF ~Verified THEN Refuse(t)
       ELSE \/ \E i \in RowsOf(client[t].request) : Replay(t, ledger[i])
            \/ /\ RowsOf(client[t].request) = {}
               /\ Goto(t, "load") /\ UNCHANGED <<lock, answers>>
    /\ UNCHANGED <<home, session, ledger, spent>>

\* _replayed_turn_report: the report that bears the turn number.
ReplayReport(t) ==
    LET reports == {j \in Turns(session.effects) : session.effects[j].turn = client[t].turn}
    IN
    /\ At(t, "report")
    /\ \/ /\ Verified /\ session.live
          /\ \E j \in reports : Answer(t, session.effects[j].id)
       \/ ~(Verified /\ session.live /\ reports # {}) /\ Refuse(t)
    /\ UNCHANGED <<home, session, ledger, spent>>

-----------------------------------------------------------------------------
(* Load, work, save.                                                       *)

Load(t) ==
    /\ At(t, "load")
    /\ IF Verified /\ session.live
       THEN /\ client' = [client EXCEPT ![t].state = session.effects, ![t].step = "work"]
            /\ UNCHANGED <<lock, answers>>
       ELSE Refuse(t)
    /\ UNCHANGED <<home, session, ledger, spent>>

\* What a call adds to the session it works on; a turn takes the next number.
EffectOf(call, effects) ==
    [id |-> call.id, kind |-> call.kind, request |-> call.request,
     turn |-> IF call.kind = "turn" THEN Cardinality(Turns(effects)) + 1 ELSE 0]

After(call, effects) ==
    IF call.kind = "controls" THEN effects ELSE Append(effects, EffectOf(call, effects))

\* The runtime works on its copy; a provider may fail and the Gate may refuse.
Work(t) ==
    /\ At(t, "work")
    /\ \/ /\ client' = [client EXCEPT ![t].step = "save",
                          ![t].state = After(client[t], client[t].state)]
          /\ UNCHANGED <<lock, answers>>
       \/ Refuse(t)
    /\ UNCHANGED <<home, session, ledger, spent>>

\* The transaction of the call: state and ledger row.
SaveBoth(t) ==
    /\ session' = IF client[t].kind = "delete" THEN Gone
                  ELSE [live |-> TRUE, effects |-> client[t].state]
    /\ ledger' = Append(ledger,
                    [event |-> client[t].kind, id |-> client[t].id,
                     request |-> client[t].request, input |-> client[t].input,
                     turn |-> IF client[t].kind = "turn"
                              THEN Cardinality(Turns(client[t].state)) ELSE 0,
                     session |-> session'])
    /\ client' = [client EXCEPT ![t].step = "anchor", ![t].state = <<>>]
    /\ UNCHANGED <<lock, answers>>

\* A save that relies on the look-up made before the session was loaded.
SaveWithoutLooking(t) ==
    /\ At(t, "save")
    /\ IF Verified /\ session.live THEN SaveBoth(t)
       ELSE Refuse(t) /\ UNCHANGED <<session, ledger>>
    /\ UNCHANGED <<home, spent>>

\* save_authorized_session, save_session, save_session_configuration and
\* delete_authorized_session: the look-up is repeated inside the transaction, on a
\* column that is unique.
Save(t) ==
    LET rows == RowsOf(client[t].request) IN
    /\ At(t, "save")
    /\ \/ ~Verified /\ Refuse(t) /\ UNCHANGED <<session, ledger>>
       \/ /\ Verified
          /\ \E i \in rows : Replay(t, ledger[i])
          /\ UNCHANGED <<session, ledger>>
       \/ /\ Verified /\ rows = {} /\ ~session.live
          /\ Refuse(t) /\ UNCHANGED <<session, ledger>>
       \/ Verified /\ rows = {} /\ session.live /\ SaveBoth(t)
    /\ UNCHANGED <<home, spent>>

\* _advance_anchor may fail after the transaction has committed.
AdvanceAnchor(t) ==
    /\ At(t, "anchor")
    /\ Answer(t, client[t].id) \/ Refuse(t)
    /\ UNCHANGED <<home, session, ledger, spent>>

-----------------------------------------------------------------------------

FaultsLeft == spent.restores + spent.crashes < MaxFaults

\* restore_production_backup of a backup taken when the ledger had its first i rows.
Restore(i) ==
    LET old == ExpectedSession(SubSeq(ledger, 1, i)) IN
    /\ FaultsLeft /\ Verified
    /\ session' = old
    /\ ledger' = Append(ledger, [event |-> "restore", id |-> 0, request |-> None,
                                 input |-> None, turn |-> 0, session |-> old])
    /\ spent' = [spent EXCEPT !.restores = spent.restores + 1]
    /\ UNCHANGED <<home, lock, client, answers>>

\* A process dies with its threads and its locks.
Crash(p) ==
    /\ FaultsLeft
    /\ \E t \in Clients : home[t] = p /\ ~At(t, "idle")
    /\ client' = [t \in Clients |-> IF home[t] = p THEN Idle ELSE client[t]]
    /\ lock' = [lock EXCEPT ![p] = None]
    /\ spent' = [spent EXCEPT !.crashes = spent.crashes + 1]
    /\ UNCHANGED <<home, session, ledger, answers>>

Init ==
    LET new == [live |-> TRUE, effects |-> <<>>] IN
    /\ home \in Homes
    /\ session = new
    /\ ledger = <<[event |-> "checkpoint", id |-> 0, request |-> None, input |-> None,
                   turn |-> 0, session |-> new]>>
    /\ lock = [p \in Processes |-> None]
    /\ client = [t \in Clients |-> Idle]
    /\ answers = {}
    /\ spent = [calls |-> 0, restores |-> 0, crashes |-> 0]

Step(t) ==
    \/ Acquire(t) \/ LookForAnswer(t) \/ ReplayReport(t)
    \/ Load(t) \/ Work(t) \/ Save(t) \/ AdvanceAnchor(t)

Next ==
    \/ \E t \in Clients :
          \/ \E call \in Calls : Begin(t, call)
          \/ Step(t)
    \/ \E i \in 1..Len(ledger) : Restore(i)
    \/ \E p \in Processes : Crash(p)

Spec == Init /\ [][Next]_vars

\* Threads run, and a provider answers or times out.
Fairness == \A t \in Clients : WF_vars(Step(t))

FairSpec == Spec /\ Fairness

-----------------------------------------------------------------------------

TypeOK ==
    /\ home \in Homes
    /\ session \in Session
    /\ ledger \in Seq(Row)
    /\ lock \in [Processes -> Clients \cup {None}]
    /\ client \in [Clients -> Call]
    /\ answers \subseteq [request : Requests, id : Ids, kind : Authorized, input : Inputs]

\* However often a request id is sent, by whichever process, around crashes and
\* restores, it takes effect at most once: one ledger row, one effect in the session.
TakesEffectOnce ==
    /\ \A request \in Requests : Cardinality(RowsOf(request)) <= 1
    /\ \A i, j \in DOMAIN session.effects :
          session.effects[i].request # None /\ i # j
             => session.effects[i].request # session.effects[j].request

\* The clients are threads of one process.
OneProcess == \A t, u \in Clients : home[t] = home[u]

RestoredSince(i) == \E r \in (i + 1)..Len(ledger) : ledger[r].event = "restore"

\* Whoever is told of success asked for what the ledger records under that request id: the
\* id used again with other content is never answered with success.  The answer tells
\* what that very request did (manual: "Sending the same id again is safe: the action
\* happens once"), with one exception: the report of a turn is found by its turn number,
\* which another turn takes once a restore or another process has put an older session
\* in the place of the one that held it.
SuccessIsOnRecord ==
    /\ TypeOK
    /\ \A answer \in answers : \E i \in RowsOf(answer.request) :
        /\ ledger[i].event = answer.kind /\ ledger[i].input = answer.input
        /\ \/ ledger[i].id = answer.id
           \/ /\ answer.kind = "turn"
              /\ ~OneProcess \/ RestoredSince(i)
              /\ \E j \in 1..Len(ledger) :
                    /\ ledger[j].id = answer.id /\ ledger[j].event = "turn"
                    /\ ledger[j].turn = ledger[i].turn

\* As long as one process works, every effect committed since the last restore is still in
\* the session; and as long as nothing was restored, the session is the one the ledger
\* accounts for.
NothingLost ==
    OneProcess =>
        /\ spent.restores = 0 => Verified
        /\ session.live =>
             \A i \in 1..Len(ledger) :
                ledger[i].event \notin {"checkpoint", "controls", "restore"}
                /\ ~RestoredSince(i) =>
                   \E j \in DOMAIN session.effects : session.effects[j].id = ledger[i].id

\* Every call comes to an end: no failure on the way keeps the session locked.
EveryCallEnds ==
    \A t \in Clients : (client[t].step # "idle") ~> (client[t].step = "idle")
=============================================================================

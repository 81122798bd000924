--------------------------- MODULE WebClientProofs ---------------------------
(***************************************************************************)
(* Proofs about the web application: what is sent again takes effect once, *)
(* what was sent for a seed or a conversation reached it, and the page     *)
(* follows what was chosen last.                                           *)
(*                                                                         *)
(* A handler changes its own slot; to the other slots a step does no more  *)
(* than make their request ids stale (Fades).  What a step does to its own *)
(* slot is one of four things: it begins a call, continues it with another *)
(* request, ends it, or the server answers it.                             *)
(***************************************************************************)
EXTENDS WebClient, FiniteSetTheorems, TLAPS

-----------------------------------------------------------------------------
(* The invariant.                                                          *)

\* The requests each kind of handler makes.
Pairs == {<<"idle", "none">>, <<"refresh", "list">>, <<"refresh", "get">>, <<"select", "get">>,
          <<"open", "seed">>, <<"send", "turn">>, <<"send", "seed">>, <<"send", "list">>,
          <<"act", "action">>, <<"act", "seed">>, <<"create", "create">>, <<"create", "list">>,
          <<"provider", "credential">>, <<"provider", "clear">>, <<"provider", "list">>,
          <<"provider", "get">>}

\* A conversation or a seed is asked for by its id, and answered with it.
Shaped(call) ==
    /\ <<call.kind, call.step>> \in Pairs
    /\ call.step \in {"get", "seed", "turn", "action"} => call.id # 0
    /\ call.step \in {"seed", "action"} => call.seed # 0
    /\ (call.request # 0) <=> (call.kind \in {"send", "act"})
    /\ call.phase = "answered" /\ call.step \in {"get", "seed", "turn", "action"}
          => call.reply.id = call.id
    /\ call.phase = "answered" /\ call.step = "create" => call.reply.id # 0

Retries ==
    /\ turnRetry \in [id : Sessions, request : Nat \ {0}] \cup {None}
    /\ seedRetry \in [id : Sessions, seed : Seeds, request : Nat \ {0}] \cup {None}

\* A request id is issued for what the person means, and for nothing else.
Counted ==
    /\ spent \in [actions : Nat, failures : Nat, requests : Nat]
    /\ asked \in Nat /\ spent.requests = asked

Numbered == \E n \in 0..MaxSessions : Live = 1..n

KnownCall(call) ==
    /\ call.id \in Live \cup {0} /\ call.reply.id \in Live \cup {0}
    /\ call.reply.ids \subseteq Live

\* The page knows of no conversation that is not there.
Known ==
    /\ view.id \in Live \cup {0} /\ list \subseteq Live
    /\ \A c \in Slots : KnownCall(calls[c])

\* A request id is in use for conversation s: it is under way, kept for another attempt, or
\* recorded.
Carries(s, r) ==
    \/ \E c \in Slots : calls[c].id = s /\ calls[c].request = r
    \/ turnRetry # None /\ turnRetry.id = s /\ turnRetry.request = r
    \/ seedRetry # None /\ seedRetry.id = s /\ seedRetry.request = r
    \/ Recorded(s, r)

\* It was issued, and serves one conversation only.
OneHome ==
    \A s \in Sessions : \A r \in Nat \ {0} : Carries(s, r) =>
        /\ r <= asked
        /\ \A t \in Sessions : Carries(t, r) => s = t

\* What was there when the page opened stands first in its log, without a request id.
LogsOnce ==
    \A s \in Sessions : \A i \in 2..Len(server[s]) :
        /\ server[s][i].request = 0 => i = 2 /\ s \in inst.live
        /\ \A j \in 2..Len(server[s]) : server[s][i].request = server[s][j].request => i = j

RequestInv ==
    /\ TypeOK /\ Retries /\ Counted /\ Numbered /\ Known /\ OneHome /\ LogsOnce
    /\ \A c \in Slots : Shaped(calls[c])

\* Calls that will change what is shown.
Lists(call) == call.kind = "refresh" /\ call.step = "list"
Loads(call) == call.kind \in {"refresh", "select"} /\ call.step = "get" /\ call.fresh
Shows(call) == call.step = "seed" /\ call.fresh

\* When the person waits for what the page is doing: what a call b may be while another
\* call, a, is pending,
Beside(a, b) ==
    /\ Lists(a) => b.kind = "idle"
    /\ Loads(a) => /\ b.kind \in {"idle", "open", "refresh", "select"}
                   /\ ~Loads(b) /\ ~Shows(b)
    /\ a.kind \in {"act", "create", "provider"} => b.kind \in {"idle", "open"}
    /\ a.kind = "send" => b.kind \in {"idle", "open", "refresh", "select"} /\ ~Loads(b)

\* and what the page shows while it is.
OnPage(call) ==
    /\ Lists(call) => view.id = 0 /\ list = {} /\ detail = None /\ consent = 0
    /\ Loads(call) => "loading" \in busy /\ detail = None /\ consent = 0
    /\ call.kind \in {"send", "act"} \/ (call.kind = "provider" /\ call.id # 0) \/ Shows(call)
          => call.id = view.id
    /\ call.step = "action" => call.meant = call.id
    /\ call.step = "turn" => /\ call.meant \in {0, call.id}
                             /\ call.id \in inst.external => call.meant = call.id

Together ==
    /\ detail # None => detail.id = view.id
    /\ consent # 0 => consent = view.id
    /\ \A c \in Slots : /\ OnPage(calls[c])
                        /\ \A d \in Slots \ {c} : Beside(calls[c], calls[d])

WebInv == RequestInv /\ (Patient => Together /\ ActionsReachTheirSeed)

-----------------------------------------------------------------------------
(* What a step does to the calls.                                          *)

\* The same call, its request id perhaps no longer the latest.
Fades(new, old) ==
    /\ new \in Call
    /\ new.kind = old.kind /\ new.step = old.step /\ new.phase = old.phase
    /\ new.id = old.id /\ new.seed = old.seed /\ new.meant = old.meant
    /\ new.request = old.request /\ new.reply = old.reply
    /\ new.fresh => old.fresh

Moves(c) == /\ c \in Slots /\ calls' \in [Slots -> Call]
            /\ \A d \in Slots \ {c} : Fades(calls'[d], calls[d])

Asks(call, kind, step, id, seed) ==
    /\ call.kind = kind /\ call.step = step /\ call.id = id /\ call.seed = seed
    /\ call.phase = "sent" /\ call.reply = NoReply /\ call.fresh

\* A handler takes a free slot.
Begins(c, kind, step, id, seed, meant, request) ==
    /\ Moves(c) /\ calls[c].kind = "idle"
    /\ Asks(calls'[c], kind, step, id, seed)
    /\ calls'[c].meant = meant /\ calls'[c].request = request

\* It goes on with another request.
Continues(c, step) ==
    /\ Moves(c) /\ Asks(calls'[c], calls[c].kind, step, calls[c].id, calls[c].seed)
    /\ calls'[c].meant = calls[c].meant /\ calls'[c].request = calls[c].request

Ends(c) ==
    /\ Moves(c) /\ calls'[c] = Idle

\* The server, or the network, has done with its request.
Returns(c, phase) ==
    /\ c \in Slots /\ calls' \in [Slots -> Call]
    /\ \A d \in Slots \ {c} : calls'[d] = calls[d]
    /\ calls'[c].kind = calls[c].kind /\ calls'[c].step = calls[c].step
    /\ calls'[c].id = calls[c].id /\ calls'[c].seed = calls[c].seed
    /\ calls'[c].meant = calls[c].meant /\ calls'[c].request = calls[c].request
    /\ calls'[c].fresh = calls[c].fresh /\ calls'[c].phase = phase

LEMMA WaitingIsCall ==
    ASSUME NEW kind \in Calls,
           NEW step \in {"none", "list", "get", "seed", "turn", "action", "create",
                         "credential", "clear"},
           NEW id \in Sessions \cup {0}, NEW seed \in Seeds \cup {0}
    PROVE  /\ Waiting(kind, step, id, seed) \in Call
           /\ Asks(Waiting(kind, step, id, seed), kind, step, id, seed)
           /\ Waiting(kind, step, id, seed).meant = 0
           /\ Waiting(kind, step, id, seed).request = 0
  <1>1. NoReply \in Reply
    BY DEF NoReply, Reply
  <1>2. QED
    BY <1>1 DEF Waiting, Asks, Call

LEMMA IdleIsCall ==
    /\ Idle \in Call /\ Idle.kind = "idle" /\ Idle.step = "none" /\ Idle.phase = "none"
    /\ Idle.id = 0 /\ Idle.seed = 0 /\ Idle.meant = 0 /\ Idle.request = 0
    /\ Idle.reply = NoReply /\ Idle.fresh = TRUE
  <1>1. NoReply \in Reply
    BY DEF NoReply, Reply
  <1>2. QED
    BY <1>1 DEF Idle, Waiting, Call, Calls

LEMMA FadesAll ==
    /\ \A new \in Call : Fades(new, new)
    /\ \A new, old : Fades(new, old) /\ Loads(new) => Loads(old)
    /\ \A new, old : Fades(new, old) /\ Shows(new) => Shows(old)
  BY DEF Fades, Loads, Shows

LEMMA FadesTwice ==
    ASSUME NEW a, NEW b, NEW d, Fades(a, b), Fades(b, d)
    PROVE  Fades(a, d)
  BY DEF Fades

LEMMA OneFades ==
    ASSUME NEW old \in Call
    PROVE  /\ Fades([old EXCEPT !.fresh = FALSE], old)
           /\ [old EXCEPT !.fresh = FALSE].fresh = FALSE
  BY DEF Fades, Call

LEMMA SessionIdFades ==
    ASSUME NEW cs \in [Slots -> Call]
    PROVE  /\ NewSessionId(cs) \in [Slots -> Call]
           /\ \A d \in Slots : Fades(NewSessionId(cs)[d], cs[d]) /\ ~Loads(NewSessionId(cs)[d])
  <1>1. NewSessionId(cs) = [d \in Slots |->
            IF cs[d].step = "get" /\ cs[d].kind \in {"refresh", "select"}
            THEN [cs[d] EXCEPT !.fresh = FALSE] ELSE cs[d]]
    BY DEF NewSessionId, Stale
  <1>2. ASSUME NEW d \in Slots
        PROVE  Fades(NewSessionId(cs)[d], cs[d]) /\ ~Loads(NewSessionId(cs)[d])
    <2>1. cs[d] \in Call
      OBVIOUS
    <2>2. CASE cs[d].step = "get" /\ cs[d].kind \in {"refresh", "select"}
      <3>1. NewSessionId(cs)[d] = [cs[d] EXCEPT !.fresh = FALSE]
        BY <1>1, <2>2
      <3>2. QED
        BY <2>1, <3>1, OneFades DEF Loads
    <2>3. CASE ~(cs[d].step = "get" /\ cs[d].kind \in {"refresh", "select"})
      <3>1. NewSessionId(cs)[d] = cs[d]
        BY <1>1, <2>3
      <3>2. QED
        BY <2>1, <2>3, <3>1, FadesAll DEF Loads
    <2>4. QED
      BY <2>2, <2>3
  <1>3. QED
    BY <1>1, <1>2 DEF Fades

LEMMA RefreshIdFades ==
    ASSUME NEW cs \in [Slots -> Call]
    PROVE  /\ NewRefreshId(cs) \in [Slots -> Call]
           /\ \A d \in Slots : Fades(NewRefreshId(cs)[d], cs[d])
  <1>1. NewRefreshId(cs) = [d \in Slots |->
            IF cs[d].step = "list" /\ cs[d].kind = "refresh"
            THEN [cs[d] EXCEPT !.fresh = FALSE] ELSE cs[d]]
    BY DEF NewRefreshId, Stale
  <1>2. ASSUME NEW d \in Slots PROVE Fades(NewRefreshId(cs)[d], cs[d])
    <2>1. cs[d] \in Call
      OBVIOUS
    <2>2. \/ NewRefreshId(cs)[d] = [cs[d] EXCEPT !.fresh = FALSE]
          \/ NewRefreshId(cs)[d] = cs[d]
      BY <1>1
    <2>3. QED
      BY <2>1, <2>2, OneFades, FadesAll
  <1>3. QED
    BY <1>1, <1>2 DEF Fades

LEMMA SeedIdFades ==
    ASSUME NEW cs \in [Slots -> Call]
    PROVE  /\ NewSeedId(cs) \in [Slots -> Call]
           /\ \A d \in Slots : Fades(NewSeedId(cs)[d], cs[d]) /\ ~Shows(NewSeedId(cs)[d])
  <1>1. NewSeedId(cs) = [d \in Slots |->
            IF cs[d].step = "seed" THEN [cs[d] EXCEPT !.fresh = FALSE] ELSE cs[d]]
    BY DEF NewSeedId, Stale
  <1>2. ASSUME NEW d \in Slots
        PROVE  Fades(NewSeedId(cs)[d], cs[d]) /\ ~Shows(NewSeedId(cs)[d])
    <2>1. cs[d] \in Call
      OBVIOUS
    <2>2. CASE cs[d].step = "seed"
      <3>1. NewSeedId(cs)[d] = [cs[d] EXCEPT !.fresh = FALSE]
        BY <1>1, <2>2
      <3>2. QED
        BY <2>1, <3>1, OneFades DEF Shows
    <2>3. CASE cs[d].step # "seed"
      <3>1. NewSeedId(cs)[d] = cs[d]
        BY <1>1, <2>3
      <3>2. QED
        BY <2>1, <2>3, <3>1, FadesAll DEF Shows
    <2>4. QED
      BY <2>2, <2>3
  <1>3. QED
    BY <1>1, <1>2 DEF Fades

\* Another conversation is asked for: every other request id is stale.
LEMMA AllIdsFade ==
    ASSUME NEW cs \in [Slots -> Call]
    PROVE  /\ NewSessionId(NewRefreshId(NewSeedId(cs))) \in [Slots -> Call]
           /\ \A d \in Slots :
                /\ Fades(NewSessionId(NewRefreshId(NewSeedId(cs)))[d], cs[d])
                /\ ~Loads(NewSessionId(NewRefreshId(NewSeedId(cs)))[d])
                /\ ~Shows(NewSessionId(NewRefreshId(NewSeedId(cs)))[d])
  <1> DEFINE a == NewSeedId(cs)
             b == NewRefreshId(a)
             e == NewSessionId(b)
  <1>1. a \in [Slots -> Call] /\ \A d \in Slots : Fades(a[d], cs[d]) /\ ~Shows(a[d])
    BY SeedIdFades
  <1> HIDE DEF a
  <1>2. b \in [Slots -> Call] /\ \A d \in Slots : Fades(b[d], a[d])
    BY <1>1, RefreshIdFades
  <1> HIDE DEF b
  <1>3. e \in [Slots -> Call] /\ \A d \in Slots : Fades(e[d], b[d]) /\ ~Loads(e[d])
    BY <1>2, SessionIdFades
  <1> HIDE DEF e
  <1>4. \A d \in Slots : Fades(e[d], cs[d]) /\ ~Shows(e[d])
    BY <1>1, <1>2, <1>3, FadesTwice, FadesAll
  <1>5. QED
    BY <1>3, <1>4 DEF e, b, a

Steps == {"none", "list", "get", "seed", "turn", "action", "create", "credential", "clear"}

LEMMA Replaces ==
    ASSUME TypeOK, NEW c \in Slots, NEW cs \in [Slots -> Call], NEW x \in Call,
           \A d \in Slots : Fades(cs[d], calls[d]), calls' = [cs EXCEPT ![c] = x]
    PROVE  Moves(c) /\ calls'[c] = x
  BY DEF Moves, TypeOK

LEMMA BeginsCall ==
    ASSUME TypeOK, NEW c \in Slots, NEW cs \in [Slots -> Call], Free(c),
           \A d \in Slots : Fades(cs[d], calls[d]),
           NEW kind \in Calls, NEW step \in Steps,
           NEW id \in Sessions \cup {0}, NEW seed \in Seeds \cup {0},
           calls' = [cs EXCEPT ![c] = Waiting(kind, step, id, seed)]
    PROVE  Begins(c, kind, step, id, seed, 0, 0)
  <1> DEFINE x == Waiting(kind, step, id, seed)
  <1>1. /\ x \in Call /\ Asks(x, kind, step, id, seed) /\ x.meant = 0 /\ x.request = 0
    BY WaitingIsCall DEF Steps
  <1> HIDE DEF x
  <1>2. Moves(c) /\ calls'[c] = x
    BY <1>1, Replaces DEF x
  <1>3. calls[c].kind = "idle"
    BY IdleIsCall DEF Free
  <1>4. QED
    BY <1>1, <1>2, <1>3 DEF Begins

LEMMA BeginsRequest ==
    ASSUME TypeOK, NEW c \in Slots, Free(c),
           NEW kind \in Calls, NEW step \in Steps,
           NEW id \in Sessions \cup {0}, NEW seed \in Seeds \cup {0},
           NEW request \in Nat, NEW meant \in Sessions \cup {0},
           calls' = [calls EXCEPT ![c] = [Waiting(kind, step, id, seed)
                                             EXCEPT !.request = request, !.meant = meant]]
    PROVE  Begins(c, kind, step, id, seed, meant, request)
  <1> DEFINE w == Waiting(kind, step, id, seed)
             x == [w EXCEPT !.request = request, !.meant = meant]
  <1>1. w \in Call /\ Asks(w, kind, step, id, seed)
    BY WaitingIsCall DEF Steps
  <1> HIDE DEF w
  <1>2. /\ x \in Call /\ Asks(x, kind, step, id, seed)
        /\ x.meant = meant /\ x.request = request
    BY <1>1 DEF Call, Asks
  <1> HIDE DEF x
  <1>3. \A d \in Slots : Fades(calls[d], calls[d])
    BY FadesAll DEF TypeOK
  <1>4. Moves(c) /\ calls'[c] = x
    BY <1>2, <1>3, Replaces DEF x, w, TypeOK
  <1>5. calls[c].kind = "idle"
    BY IdleIsCall DEF Free
  <1>6. QED
    BY <1>2, <1>4, <1>5 DEF Begins

LEMMA ContinuesCall ==
    ASSUME TypeOK, NEW c \in Slots, NEW cs \in [Slots -> Call],
           \A d \in Slots : Fades(cs[d], calls[d]),
           NEW step \in Steps, calls' = Continue(c, cs, step)
    PROVE  Continues(c, step)
  <1> DEFINE x == [cs[c] EXCEPT !.step = step, !.phase = "sent", !.fresh = TRUE,
                                !.reply = NoReply]
  <1>1. NoReply \in Reply
    BY DEF NoReply, Reply
  <1>2. cs[c] \in Call /\ Fades(cs[c], calls[c])
    OBVIOUS
  <1>3. /\ x \in Call /\ Asks(x, cs[c].kind, step, cs[c].id, cs[c].seed)
        /\ x.meant = cs[c].meant /\ x.request = cs[c].request
    BY <1>1, <1>2 DEF Call, Asks, Steps
  <1>4. calls' = [cs EXCEPT ![c] = x]
    BY DEF Continue
  <1> HIDE DEF x
  <1>5. Moves(c) /\ calls'[c] = x
    BY <1>3, <1>4, Replaces
  <1>6. /\ cs[c].kind = calls[c].kind /\ cs[c].id = calls[c].id
        /\ cs[c].seed = calls[c].seed /\ cs[c].meant = calls[c].meant
        /\ cs[c].request = calls[c].request
    BY <1>2 DEF Fades
  <1>7. QED
    BY <1>3, <1>5, <1>6 DEF Continues

LEMMA EndsCall ==
    ASSUME TypeOK, NEW c \in Slots, NEW cs \in [Slots -> Call],
           \A d \in Slots : Fades(cs[d], calls[d]), calls' = Done(c, cs)
    PROVE  Ends(c)
  BY IdleIsCall, Replaces DEF Done, Ends

LEMMA ReturnsCall ==
    ASSUME TypeOK, NEW c \in Slots, NEW phase \in {"answered", "failed"}, NEW reply \in Reply,
           calls' = [calls EXCEPT ![c].phase = phase, ![c].reply = reply]
    PROVE  Returns(c, phase) /\ calls'[c].reply = reply
  <1> DEFINE x == [calls[c] EXCEPT !.phase = phase, !.reply = reply]
  <1>1. calls \in [Slots -> Call] /\ calls[c] \in Call
    BY DEF TypeOK
  <1>2. /\ x \in Call /\ x.kind = calls[c].kind /\ x.step = calls[c].step
        /\ x.id = calls[c].id /\ x.seed = calls[c].seed
        /\ x.meant = calls[c].meant /\ x.request = calls[c].request
        /\ x.fresh = calls[c].fresh /\ x.phase = phase /\ x.reply = reply
    BY <1>1 DEF Call
  <1>3. calls' = [calls EXCEPT ![c] = x]
    OBVIOUS
  <1> HIDE DEF x
  <1>4. QED
    BY ZenonT(30), <1>1, <1>2, <1>3 DEF Returns

-----------------------------------------------------------------------------
(* Requests: steps of the page that mean nothing new.                      *)

\* A slot whose call began, went on or ended.
Placed(d) ==
    /\ Shaped(calls'[d]) /\ calls'[d].reply = NoReply /\ calls'[d].id \in Live \cup {0}

\* It did so under the request id it had, if any.
Kept(d) ==
    /\ Placed(d)
    /\ \/ calls'[d].request = 0
       \/ calls'[d].request = calls[d].request /\ calls'[d].id = calls[d].id

\* What is kept for another attempt was kept before, or was under way.
TurnRetryKept ==
    \/ turnRetry' \in {None, turnRetry}
    \/ \E c \in Slots : turnRetry' = [id |-> calls[c].id, request |-> calls[c].request]
SeedRetryKept ==
    \/ seedRetry' \in {None, seedRetry}
    \/ \E c \in Slots : seedRetry' = [id |-> calls[c].id, seed |-> calls[c].seed,
                                      request |-> calls[c].request]

LEMMA ViewId ==
    ASSUME TypeOK
    PROVE  /\ view.id \in Sessions \cup {0} /\ (view = None <=> view.id = 0)
           /\ None.id = 0 /\ 0 \notin Sessions
  BY DEF TypeOK, View, None, Sessions

LEMMA FadesShaped ==
    ASSUME NEW new, NEW old, Fades(new, old), Shaped(old)
    PROVE  Shaped(new)
  BY DEF Fades, Shaped

LEMMA CarriedOn ==
    ASSUME RequestInv, UNCHANGED <<server, asked>>, TurnRetryKept, SeedRetryKept,
           \A d \in Slots :
              \/ calls'[d].request = 0
              \/ calls'[d].request = calls[d].request /\ calls'[d].id = calls[d].id
    PROVE  OneHome'
  <1>1. ASSUME NEW s \in Sessions, NEW r \in Nat \ {0}, Carries(s, r)' PROVE Carries(s, r)
    <2>1. CASE \E c \in Slots : calls'[c].id = s /\ calls'[c].request = r
      BY <2>1 DEF Carries
    <2>2. CASE turnRetry' # None /\ turnRetry'.id = s /\ turnRetry'.request = r
      <3>1. CASE turnRetry' \in {None, turnRetry}
        BY <2>2, <3>1 DEF Carries
      <3>2. CASE \E c \in Slots :
                    turnRetry' = [id |-> calls[c].id, request |-> calls[c].request]
        BY <2>2, <3>2 DEF Carries
      <3>3. QED
        BY <3>1, <3>2 DEF TurnRetryKept
    <2>3. CASE seedRetry' # None /\ seedRetry'.id = s /\ seedRetry'.request = r
      <3>1. CASE seedRetry' \in {None, seedRetry}
        BY <2>3, <3>1 DEF Carries
      <3>2. CASE \E c \in Slots : seedRetry' = [id |-> calls[c].id, seed |-> calls[c].seed,
                                                request |-> calls[c].request]
        BY <2>3, <3>2 DEF Carries
      <3>3. QED
        BY <3>1, <3>2 DEF SeedRetryKept
    <2>4. CASE Recorded(s, r)'
      BY <2>4 DEF Recorded, Carries
    <2>5. QED
      BY <1>1, <2>1, <2>2, <2>3, <2>4 DEF Carries
  <1>2. OneHome
    BY DEF RequestInv
  <1>3. QED
    BY <1>1, <1>2 DEF OneHome

\* Steps that leave the server alone: what has to be seen to for the invariant.
LEMMA PageStep ==
    ASSUME RequestInv, UNCHANGED <<who, server, key>>,
           calls' \in [Slots -> Call],
           \A d \in Slots : Fades(calls'[d], calls[d]) \/ Placed(d),
           view' \in View \cup {None}, view'.id \in Live \cup {0}, list' \subseteq Live,
           detail' \in Detail \cup {None}, providers' \in BOOLEAN,
           consent' \in Sessions \cup {0}, busy' \subseteq Flags,
           Retries', Counted', OneHome'
    PROVE  RequestInv'
  <1>1. Live' = Live
    BY DEF Live
  <1>2. TypeOK'
    <2>1. TypeOK /\ list' \subseteq Sessions
      BY DEF RequestInv, Live
    <2>2. QED
      BY <2>1 DEF TypeOK
  <1>3. Numbered' /\ LogsOnce'
    BY <1>1 DEF RequestInv, Numbered, LogsOnce, inst
  <1>4. ASSUME NEW d \in Slots PROVE Shaped(calls'[d]) /\ KnownCall(calls[d])'
    <2>1. CASE Fades(calls'[d], calls[d])
      <3>1. Shaped(calls'[d])
        BY <2>1, FadesShaped DEF RequestInv
      <3>2. KnownCall(calls[d])
        BY DEF RequestInv, Known
      <3>3. QED
        BY <1>1, <2>1, <3>1, <3>2 DEF KnownCall, Fades
    <2>2. CASE Placed(d)
      BY <1>1, <2>2 DEF Placed, KnownCall, NoReply
    <2>3. QED
      BY <1>4, <2>1, <2>2
  <1>5. Known'
    BY <1>1, <1>4 DEF Known
  <1>6. QED
    BY <1>2, <1>3, <1>4, <1>5 DEF RequestInv

LEMMA OrdinaryStep ==
    ASSUME RequestInv, UNCHANGED <<who, server, key, asked>>,
           calls' \in [Slots -> Call],
           \A d \in Slots : Fades(calls'[d], calls[d]) \/ Kept(d),
           view' \in View \cup {None}, view'.id \in Live \cup {0}, list' \subseteq Live,
           detail' \in Detail \cup {None}, providers' \in BOOLEAN,
           consent' \in Sessions \cup {0}, busy' \subseteq Flags,
           Retries', TurnRetryKept, SeedRetryKept,
           \/ UNCHANGED spent
           \/ spent' = [spent EXCEPT !.actions = @ + 1]
           \/ spent' = [spent EXCEPT !.failures = @ + 1]
    PROVE  RequestInv'
  <1>1. Counted'
    BY DEF RequestInv, Counted
  <1>2. \A d \in Slots :
              \/ calls'[d].request = 0
              \/ calls'[d].request = calls[d].request /\ calls'[d].id = calls[d].id
    BY DEF Fades, Kept
  <1>3. OneHome'
    BY <1>2, CarriedOn
  <1>4. \A d \in Slots : Fades(calls'[d], calls[d]) \/ Placed(d)
    BY DEF Kept
  <1>5. QED
    BY <1>1, <1>3, <1>4, PageStep

LEMMA BeginsKept ==
    ASSUME RequestInv, NEW c, NEW kind, NEW step, NEW id \in Live \cup {0}, NEW seed, NEW meant,
           Begins(c, kind, step, id, seed, meant, 0), <<kind, step>> \in Pairs,
           kind \notin {"send", "act"},
           step \in {"get", "seed", "turn", "action"} => id # 0,
           step \in {"seed", "action"} => seed # 0
    PROVE  /\ c \in Slots /\ calls' \in [Slots -> Call]
           /\ \A d \in Slots : Fades(calls'[d], calls[d]) \/ Kept(d)
  <1>1. Shaped(calls'[c])
    BY DEF Begins, Asks, Shaped
  <1>2. Kept(c)
    BY <1>1 DEF Begins, Asks, Placed, Kept
  <1>3. QED
    BY <1>2 DEF Begins, Moves

LEMMA ContinuesKept ==
    ASSUME RequestInv, NEW c, NEW step \in {"list", "get", "seed"}, Continues(c, step),
           <<calls[c].kind, step>> \in Pairs,
           step \in {"get", "seed"} => calls[c].id # 0,
           step = "seed" => calls[c].seed # 0
    PROVE  /\ c \in Slots /\ calls' \in [Slots -> Call]
           /\ \A d \in Slots : Fades(calls'[d], calls[d]) \/ Kept(d)
  <1>1. c \in Slots /\ Shaped(calls[c]) /\ KnownCall(calls[c])
    BY DEF Continues, Moves, RequestInv, Known
  <1>2. (calls[c].request # 0) <=> (calls[c].kind \in {"send", "act"})
    BY <1>1 DEF Shaped
  <1>3. Shaped(calls'[c])
    BY <1>2 DEF Continues, Asks, Shaped
  <1>4. Kept(c)
    BY <1>1, <1>3 DEF Continues, Asks, Placed, Kept, KnownCall
  <1>5. QED
    BY <1>1, <1>4 DEF Continues, Moves

LEMMA EndsKept ==
    ASSUME NEW c, Ends(c)
    PROVE  /\ c \in Slots /\ calls' \in [Slots -> Call]
           /\ \A d \in Slots : Fades(calls'[d], calls[d]) \/ Kept(d)
  <1>1. Shaped(calls'[c]) /\ Kept(c)
    BY IdleIsCall DEF Ends, Shaped, Pairs, Placed, Kept
  <1>2. QED
    BY <1>1 DEF Ends, Moves

LEMMA DoneEnds ==
    ASSUME TypeOK, NEW c \in Slots, calls' = Done(c, calls)
    PROVE  Ends(c)
  BY EndsCall, FadesAll DEF TypeOK

LEMMA ContinuesPlain ==
    ASSUME TypeOK, NEW c \in Slots, NEW step \in Steps, calls' = Continue(c, calls, step)
    PROVE  Continues(c, step)
  BY ContinuesCall, FadesAll DEF TypeOK

-----------------------------------------------------------------------------
(* What the person does.                                                   *)

LEMMA ActSpends ==
    ASSUME NEW kind, Act(kind)
    PROVE  spent' = [spent EXCEPT !.actions = @ + 1]
  BY DEF Act

LEMMA SelectCalls ==
    ASSUME RequestInv, NEW c \in Slots, NEW s \in Sessions, Select(c, s)
    PROVE  /\ Begins(c, "select", "get", s, 0, 0, 0)
           /\ \A d \in Slots \ {c} : ~Loads(calls'[d]) /\ ~Shows(calls'[d])
  <1> DEFINE cs == NewSessionId(NewRefreshId(NewSeedId(calls)))
  <1>1. TypeOK /\ calls \in [Slots -> Call]
    BY DEF RequestInv, TypeOK
  <1>2. /\ cs \in [Slots -> Call]
        /\ \A d \in Slots : Fades(cs[d], calls[d]) /\ ~Loads(cs[d]) /\ ~Shows(cs[d])
    BY <1>1, AllIdsFade
  <1>3. Free(c) /\ calls' = [cs EXCEPT ![c] = Waiting("select", "get", s, 0)]
    BY DEF Select
  <1> HIDE DEF cs
  <1>4. Begins(c, "select", "get", s, 0, 0, 0)
    BY <1>1, <1>2, <1>3, BeginsCall DEF Calls, Steps
  <1>5. \A d \in Slots \ {c} : calls'[d] = cs[d]
    BY <1>2, <1>3
  <1>6. QED
    BY <1>2, <1>4, <1>5

LEMMA SelectKeeps ==
    ASSUME RequestInv, NEW c \in Slots, NEW s \in Sessions, Select(c, s)
    PROVE  RequestInv'
  <1>1. Begins(c, "select", "get", s, 0, 0, 0)
    BY SelectCalls
  <1>2. s \in Live /\ s # 0
    BY DEF Select, RequestInv, Known, Sessions
  <1>3. /\ calls' \in [Slots -> Call]
        /\ \A d \in Slots : Fades(calls'[d], calls[d]) \/ Kept(d)
    <2>1. <<"select", "get">> \in Pairs
      BY DEF Pairs
    <2>2. QED
      BY <1>1, <1>2, <2>1, BeginsKept
  <1>4. /\ detail' = None /\ consent' = 0 /\ turnRetry' = None /\ seedRetry' = None
        /\ busy' = busy \cup {"loading"}
        /\ UNCHANGED <<who, server, key, view, list, providers, asked>>
        /\ spent' = [spent EXCEPT !.actions = @ + 1]
    BY ActSpends DEF Select, ClearDetail, ClearConsent
  <1>5. TypeOK /\ Retries /\ Known
    BY DEF RequestInv
  <1>6. Retries' /\ TurnRetryKept /\ SeedRetryKept
    BY <1>4 DEF Retries, TurnRetryKept, SeedRetryKept
  <1>7. QED
    BY <1>3, <1>4, <1>5, <1>6, OrdinaryStep DEF TypeOK, Known, Flags

LEMMA OpenCalls ==
    ASSUME RequestInv, NEW c \in Slots, NEW seed \in Seeds, Open(c, seed)
    PROVE  /\ Begins(c, "open", "seed", view.id, seed, 0, 0)
           /\ \A d \in Slots \ {c} : ~Shows(calls'[d])
  <1> DEFINE cs == NewSeedId(calls)
  <1>1. TypeOK /\ calls \in [Slots -> Call]
    BY DEF RequestInv, TypeOK
  <1>2. cs \in [Slots -> Call] /\ \A d \in Slots : Fades(cs[d], calls[d]) /\ ~Shows(cs[d])
    BY <1>1, SeedIdFades
  <1>3. Free(c) /\ calls' = [cs EXCEPT ![c] = Waiting("open", "seed", view.id, seed)]
    BY DEF Open
  <1> HIDE DEF cs
  <1>4. view.id \in Sessions \cup {0}
    BY <1>1, ViewId
  <1>5. Begins(c, "open", "seed", view.id, seed, 0, 0)
    BY <1>1, <1>2, <1>3, <1>4, BeginsCall DEF Calls, Steps
  <1>6. \A d \in Slots \ {c} : calls'[d] = cs[d]
    BY <1>2, <1>3
  <1>7. QED
    BY <1>2, <1>5, <1>6

LEMMA OpenKeeps ==
    ASSUME RequestInv, NEW c \in Slots, NEW seed \in Seeds, Open(c, seed)
    PROVE  RequestInv'
  <1>1. Begins(c, "open", "seed", view.id, seed, 0, 0)
    BY OpenCalls
  <1>2. view.id \in Live /\ view.id # 0 /\ seed # 0
    BY ViewId, WebAssumption DEF Open, RequestInv, Known
  <1>3. /\ calls' \in [Slots -> Call]
        /\ \A d \in Slots : Fades(calls'[d], calls[d]) \/ Kept(d)
    <2>1. <<"open", "seed">> \in Pairs
      BY DEF Pairs
    <2>2. QED
      BY <1>1, <1>2, <2>1, BeginsKept
  <1>4. /\ UNCHANGED <<who, server, key, page, asked>>
        /\ spent' = [spent EXCEPT !.actions = @ + 1]
    BY ActSpends DEF Open
  <1>5. TypeOK /\ Retries /\ Known
    BY DEF RequestInv
  <1>6. Retries' /\ TurnRetryKept /\ SeedRetryKept
    BY <1>4, <1>5 DEF Retries, TurnRetryKept, SeedRetryKept, page
  <1>7. QED
    BY <1>3, <1>4, <1>5, <1>6, OrdinaryStep DEF TypeOK, Known, page

LEMMA CloseCalls ==
    ASSUME RequestInv, Close
    PROVE  /\ calls' \in [Slots -> Call]
           /\ \A d \in Slots : Fades(calls'[d], calls[d]) /\ ~Shows(calls'[d])
  BY SeedIdFades DEF Close, RequestInv, TypeOK

LEMMA CloseKeeps ==
    ASSUME RequestInv, Close
    PROVE  RequestInv'
  <1>1. /\ calls' \in [Slots -> Call]
        /\ \A d \in Slots : Fades(calls'[d], calls[d]) \/ Kept(d)
    BY CloseCalls
  <1>2. /\ detail' = None /\ seedRetry' = None
        /\ UNCHANGED <<who, server, key, view, list, providers, consent, turnRetry, busy, asked>>
        /\ spent' = [spent EXCEPT !.actions = @ + 1]
    BY ActSpends DEF Close
  <1>3. TypeOK /\ Retries /\ Known
    BY DEF RequestInv
  <1>4. Retries' /\ TurnRetryKept /\ SeedRetryKept
    BY <1>2, <1>3 DEF Retries, TurnRetryKept, SeedRetryKept
  <1>5. QED
    BY <1>1, <1>2, <1>3, <1>4, OrdinaryStep DEF TypeOK, Known

LEMMA ConfirmKeeps ==
    ASSUME RequestInv, Confirm
    PROVE  RequestInv'
  <1>1. TypeOK /\ Retries /\ Known
    BY DEF RequestInv
  <1>2. /\ consent' = view.id
        /\ UNCHANGED <<who, server, key, view, list, detail, providers, turnRetry, seedRetry,
                       busy, calls, asked>>
        /\ spent' = [spent EXCEPT !.actions = @ + 1]
    BY ActSpends DEF Confirm
  <1>3. /\ calls' \in [Slots -> Call]
        /\ \A d \in Slots : Fades(calls'[d], calls[d]) \/ Kept(d)
    BY <1>1, <1>2, FadesAll DEF TypeOK
  <1>4. Retries' /\ TurnRetryKept /\ SeedRetryKept
    BY <1>1, <1>2 DEF Retries, TurnRetryKept, SeedRetryKept
  <1>5. consent' \in Sessions \cup {0}
    BY <1>1, <1>2, ViewId
  <1>6. QED
    BY <1>1, <1>2, <1>3, <1>4, <1>5, OrdinaryStep DEF TypeOK, Known

LEMMA EditKeeps ==
    ASSUME RequestInv, Edit
    PROVE  RequestInv'
  <1>1. TypeOK /\ Retries /\ Known
    BY DEF RequestInv
  <1>2. /\ turnRetry' = None
        /\ UNCHANGED <<who, server, key, view, list, detail, providers, consent, seedRetry,
                       busy, calls, asked>>
        /\ spent' = [spent EXCEPT !.actions = @ + 1]
    BY ActSpends DEF Edit
  <1>3. /\ calls' \in [Slots -> Call]
        /\ \A d \in Slots : Fades(calls'[d], calls[d]) \/ Kept(d)
    BY <1>1, <1>2, FadesAll DEF TypeOK
  <1>4. Retries' /\ TurnRetryKept /\ SeedRetryKept
    BY <1>1, <1>2 DEF Retries, TurnRetryKept, SeedRetryKept
  <1>5. QED
    BY <1>1, <1>2, <1>3, <1>4, OrdinaryStep DEF TypeOK, Known

\* A question or an action is sent: under the request id of the last attempt, or a new one.
LEMMA RequestStep ==
    ASSUME RequestInv, NEW c \in Slots, NEW kind \in {"send", "act"}, NEW step, NEW seed, NEW meant,
           NEW request \in Nat \ {0},
           Begins(c, kind, step, view.id, seed, meant, request),
           <<kind, step>> \in Pairs, view.id # 0, step \in {"seed", "action"} => seed # 0,
           UNCHANGED <<who, server, key, view, list, detail, providers, consent,
                       turnRetry, seedRetry>>,
           busy' \subseteq Flags,
           \/ Carries(view.id, request) /\ asked' = asked
           \/ request = asked + 1 /\ asked' = asked + 1,
           spent' = [spent EXCEPT !.actions = @ + 1,
                                  !.requests = IF request > @ THEN request ELSE @]
    PROVE  RequestInv'
  <1>1. TypeOK /\ Retries /\ Counted /\ Known /\ OneHome
    BY DEF RequestInv
  <1>2. view.id \in Live /\ view.id \in Sessions
    BY <1>1, ViewId DEF Known
  <1>3. Placed(c)
    <2>1. Shaped(calls'[c])
      BY DEF Begins, Asks, Shaped
    <2>2. QED
      BY <1>2, <2>1 DEF Begins, Asks, Placed
  <1>4. /\ calls' \in [Slots -> Call]
        /\ \A d \in Slots : Fades(calls'[d], calls[d]) \/ Placed(d)
    BY <1>3 DEF Begins, Moves
  <1>5. ASSUME NEW s \in Sessions, NEW r \in Nat \ {0}, Carries(s, r)'
        PROVE  Carries(s, r) \/ (s = view.id /\ r = request)
    <2>1. CASE \E d \in Slots : calls'[d].id = s /\ calls'[d].request = r
      <3>1. PICK d \in Slots : calls'[d].id = s /\ calls'[d].request = r
        BY <2>1
      <3>2. CASE d = c
        BY <3>1, <3>2 DEF Begins, Asks
      <3>3. CASE d # c
        BY <3>1, <3>3 DEF Begins, Moves, Fades, Carries
      <3>4. QED
        BY <3>2, <3>3
    <2>2. CASE ~\E d \in Slots : calls'[d].id = s /\ calls'[d].request = r
      BY <1>5, <2>2 DEF Carries, Recorded
    <2>3. QED
      BY <2>1, <2>2
  <1>6. ASSUME NEW s \in Sessions, NEW r \in Nat \ {0}, Carries(s, r) PROVE r <= asked
    BY <1>1, <1>6 DEF OneHome
  <1>7. asked \in Nat /\ spent.requests = asked
    BY <1>1 DEF Counted
  <1> DEFINE top == IF request > spent.requests THEN request ELSE spent.requests
  <1>8. ASSUME top = asked', asked' \in Nat PROVE Counted'
    <2>1. spent' = [spent EXCEPT !.actions = @ + 1, !.requests = asked']
      BY <1>8
    <2>2. spent \in [actions : Nat, failures : Nat, requests : Nat]
      BY <1>1 DEF Counted
    <2> HIDE DEF top
    <2>3. spent.actions + 1 \in Nat
      BY <2>2
    <2>4. /\ spent' \in [actions : Nat, failures : Nat, requests : Nat]
          /\ spent'.requests = asked'
      BY <1>8, <2>1, <2>2, <2>3
    <2>5. QED
      BY <1>8, <2>4 DEF Counted
  <1>9. Counted' /\ OneHome'
    <2>1. CASE Carries(view.id, request) /\ asked' = asked
      <3>1. request <= asked
        BY <1>2, <1>6, <2>1
      <3>2. Counted'
        BY <1>7, <1>8, <2>1, <3>1
      <3>3. \A s \in Sessions : \A r \in Nat \ {0} : Carries(s, r)' => Carries(s, r)
        BY <1>5, <2>1
      <3>4. QED
        BY <1>1, <2>1, <3>2, <3>3 DEF OneHome
    <2>2. CASE request = asked + 1 /\ asked' = asked + 1
      <3>1. Counted'
        BY <1>7, <1>8, <2>2
      <3>2. \A s \in Sessions : \A r \in Nat \ {0} :
               Carries(s, r)' => (Carries(s, r) /\ r <= asked) \/ (s = view.id /\ r = asked + 1)
        BY <1>5, <1>6, <2>2
      <3>3. ASSUME NEW s \in Sessions, NEW r \in Nat \ {0}, Carries(s, r)'
            PROVE  r <= asked' /\ \A t \in Sessions : Carries(t, r)' => s = t
        <4>1. r <= asked'
          BY <1>7, <2>2, <3>2, <3>3
        <4>2. ASSUME NEW t \in Sessions, Carries(t, r)' PROVE s = t
          <5>1. CASE r <= asked
            <6>1. r # asked + 1
              BY <1>7, <5>1
            <6>2. Carries(s, r) /\ Carries(t, r)
              BY <3>2, <3>3, <4>2, <6>1
            <6>3. QED
              BY <1>1, <6>2 DEF OneHome
          <5>2. CASE ~(r <= asked)
            BY <3>2, <3>3, <4>2, <5>2
          <5>3. QED
            BY <5>1, <5>2
        <4>3. QED
          BY <4>1, <4>2
      <3>4. QED
        BY <3>1, <3>3 DEF OneHome
    <2>3. QED
      BY <2>1, <2>2
  <1>10. Retries'
    BY <1>1 DEF Retries
  <1>11. QED
    BY <1>1, <1>4, <1>9, <1>10, PageStep DEF TypeOK, Known

SendSeed == IF detail = None THEN 0 ELSE detail.seed
SendMeant == IF view.id \in inst.external THEN consent ELSE 0

LEMMA DetailIds ==
    ASSUME TypeOK, detail # None
    PROVE  detail.id \in Sessions /\ detail.seed \in Seeds /\ detail.seed # 0
  BY WebAssumption DEF TypeOK, Detail

LEMMA TurnRequestIsFit ==
    ASSUME RequestInv
    PROVE  /\ TurnRequest \in Nat \ {0}
           /\ IF turnRetry = None \/ turnRetry.id # view.id
              THEN TurnRequest = asked + 1 ELSE Carries(view.id, TurnRequest)
  <1>1. Retries /\ asked \in Nat /\ spent.requests = asked
    BY DEF RequestInv, Counted
  <1>2. CASE turnRetry # None /\ turnRetry.id = view.id
    <2>1. TurnRequest = turnRetry.request
      BY <1>2 DEF TurnRequest
    <2>2. turnRetry \in [id : Sessions, request : Nat \ {0}]
      BY <1>1, <1>2 DEF Retries
    <2>3. QED
      BY <1>2, <2>1, <2>2 DEF Carries
  <1>3. CASE ~(turnRetry # None /\ turnRetry.id = view.id)
    BY <1>1, <1>3 DEF TurnRequest
  <1>4. QED
    BY <1>2, <1>3

LEMMA SendCalls ==
    ASSUME RequestInv, NEW c \in Slots, Send(c)
    PROVE  Begins(c, "send", "turn", view.id, SendSeed, SendMeant, TurnRequest)
  <1>1. TypeOK
    BY DEF RequestInv
  <1>2. /\ SendSeed \in Seeds \cup {0} /\ SendMeant \in Sessions \cup {0}
        /\ view.id \in Sessions \cup {0} /\ TurnRequest \in Nat
    BY <1>1, DetailIds, ViewId, TurnRequestIsFit DEF SendSeed, SendMeant, TypeOK
  <1>3. /\ Free(c)
        /\ calls' = [calls EXCEPT ![c] =
              [Waiting("send", "turn", view.id, SendSeed)
                  EXCEPT !.request = TurnRequest, !.meant = SendMeant]]
    BY DEF Send, SendSeed, SendMeant
  <1>4. QED
    BY <1>1, <1>2, <1>3, BeginsRequest DEF Calls, Steps

LEMMA SendKeeps ==
    ASSUME RequestInv, NEW c \in Slots, Send(c)
    PROVE  RequestInv'
  <1>1. TypeOK
    BY DEF RequestInv
  <1>2. view.id # 0
    BY <1>1, ViewId DEF Send
  <1>3. /\ UNCHANGED <<who, server, key, view, list, detail, providers, consent,
                       turnRetry, seedRetry>>
        /\ busy' = busy \cup {"sending"}
        /\ asked' = IF turnRetry = None \/ turnRetry.id # view.id THEN asked + 1 ELSE asked
        /\ spent' = [spent EXCEPT !.actions = @ + 1,
                        !.requests = IF TurnRequest > @ THEN TurnRequest ELSE @]
    BY DEF Send
  <1>4. <<"send", "turn">> \in Pairs
    BY DEF Pairs
  <1>5. busy' \subseteq Flags
    BY <1>1, <1>3 DEF TypeOK, Flags
  <1>6. QED
    BY <1>2, <1>3, <1>4, <1>5, SendCalls, TurnRequestIsFit, RequestStep

LEMMA CreateCalls ==
    ASSUME RequestInv, NEW c \in Slots, Create(c)
    PROVE  Begins(c, "create", "create", 0, 0, 0, 0)
  <1>1. TypeOK /\ calls \in [Slots -> Call] /\ \A d \in Slots : Fades(calls[d], calls[d])
    BY FadesAll DEF RequestInv, TypeOK
  <1>2. Free(c) /\ calls' = [calls EXCEPT ![c] = Waiting("create", "create", 0, 0)]
    BY DEF Create
  <1>3. QED
    BY <1>1, <1>2, BeginsCall DEF Calls, Steps

LEMMA CreateKeeps ==
    ASSUME RequestInv, NEW c \in Slots, Create(c)
    PROVE  RequestInv'
  <1>1. <<"create", "create">> \in Pairs
    BY DEF Pairs
  <1>2. /\ calls' \in [Slots -> Call]
        /\ \A d \in Slots : Fades(calls'[d], calls[d]) \/ Kept(d)
    BY <1>1, CreateCalls, BeginsKept
  <1>3. /\ busy' = busy \cup {"creating"}
        /\ UNCHANGED <<who, server, key, view, list, detail, providers, consent, turnRetry,
                       seedRetry, asked>>
        /\ spent' = [spent EXCEPT !.actions = @ + 1]
    BY ActSpends DEF Create
  <1>4. TypeOK /\ Retries /\ Known
    BY DEF RequestInv
  <1>5. Retries' /\ TurnRetryKept /\ SeedRetryKept
    BY <1>3, <1>4 DEF Retries, TurnRetryKept, SeedRetryKept
  <1>6. QED
    BY <1>2, <1>3, <1>4, <1>5, OrdinaryStep DEF TypeOK, Known, Flags

ActRequest(again) == IF again THEN seedRetry.request ELSE spent.requests + 1

LEMMA ActRequestIsFit ==
    ASSUME RequestInv, NEW again \in BOOLEAN, again => SameAction
    PROVE  /\ ActRequest(again) \in Nat \ {0}
           /\ IF again THEN Carries(view.id, ActRequest(again)) ELSE ActRequest(again) = asked + 1
  <1>1. Retries /\ asked \in Nat /\ spent.requests = asked
    BY DEF RequestInv, Counted
  <1>2. CASE again
    <2>1. seedRetry # None /\ seedRetry.id = view.id /\ ActRequest(again) = seedRetry.request
      BY <1>2 DEF SameAction, ActRequest
    <2>2. seedRetry \in [id : Sessions, seed : Seeds, request : Nat \ {0}]
      BY <1>1, <2>1 DEF Retries
    <2>3. QED
      BY <1>2, <2>1, <2>2 DEF Carries
  <1>3. CASE ~again
    BY <1>1, <1>3 DEF ActRequest
  <1>4. QED
    BY <1>2, <1>3

LEMMA ActOnSeedCalls ==
    ASSUME RequestInv, NEW c \in Slots, NEW again \in BOOLEAN, ActOnSeed(c, again)
    PROVE  /\ detail # None
           /\ Begins(c, "act", "action", view.id, detail.seed, detail.id, ActRequest(again))
  <1>1. TypeOK /\ detail # None /\ (again => SameAction)
    BY DEF RequestInv, ActOnSeed
  <1>2. /\ detail.seed \in Seeds \cup {0} /\ detail.id \in Sessions \cup {0}
        /\ view.id \in Sessions \cup {0} /\ ActRequest(again) \in Nat
    BY <1>1, DetailIds, ViewId, ActRequestIsFit
  <1>3. /\ Free(c)
        /\ calls' = [calls EXCEPT ![c] =
              [Waiting("act", "action", view.id, detail.seed)
                  EXCEPT !.request = ActRequest(again), !.meant = detail.id]]
    BY DEF ActOnSeed, ActRequest
  <1>4. QED
    BY <1>1, <1>2, <1>3, BeginsRequest DEF Calls, Steps

LEMMA ActOnSeedKeeps ==
    ASSUME RequestInv, NEW c \in Slots, NEW again \in BOOLEAN, ActOnSeed(c, again)
    PROVE  RequestInv'
  <1>1. TypeOK /\ (again => SameAction)
    BY DEF RequestInv, ActOnSeed
  <1>2. view.id # 0 /\ detail # None /\ detail.seed # 0
    BY <1>1, ViewId, DetailIds DEF ActOnSeed
  <1>3. /\ UNCHANGED <<who, server, key, view, list, detail, providers, consent,
                       turnRetry, seedRetry>>
        /\ busy' = busy \cup {"acting"}
        /\ asked' = IF again THEN asked ELSE asked + 1
        /\ spent' = [spent EXCEPT !.actions = @ + 1,
                        !.requests = IF ActRequest(again) > @ THEN ActRequest(again) ELSE @]
    BY DEF ActOnSeed, ActRequest
  <1>4. <<"act", "action">> \in Pairs
    BY DEF Pairs
  <1>5. busy' \subseteq Flags
    BY <1>1, <1>3 DEF TypeOK, Flags
  <1>6. QED
    BY <1>1, <1>2, <1>3, <1>4, <1>5, ActOnSeedCalls, ActRequestIsFit, RequestStep

LEMMA ChangeKeyCalls ==
    ASSUME RequestInv, NEW c \in Slots, NEW step \in {"credential", "clear"}, ChangeKey(c, step)
    PROVE  Begins(c, "provider", step, view.id, 0, 0, 0)
  <1>1. TypeOK /\ calls \in [Slots -> Call] /\ \A d \in Slots : Fades(calls[d], calls[d])
    BY FadesAll DEF RequestInv, TypeOK
  <1>2. view.id \in Sessions \cup {0} /\ (view = None => view.id = 0)
    BY <1>1, ViewId
  <1>3. Free(c) /\ calls' = [calls EXCEPT ![c] = Waiting("provider", step, view.id, 0)]
    BY <1>2 DEF ChangeKey
  <1>4. QED
    BY <1>1, <1>2, <1>3, BeginsCall DEF Calls, Steps

LEMMA ChangeKeyKeeps ==
    ASSUME RequestInv, NEW c \in Slots, NEW step \in {"credential", "clear"}, ChangeKey(c, step)
    PROVE  RequestInv'
  <1>1. TypeOK /\ Retries /\ Known
    BY DEF RequestInv
  <1>2. <<"provider", step>> \in Pairs /\ view.id \in Live \cup {0}
    BY <1>1 DEF Pairs, Known
  <1>3. /\ calls' \in [Slots -> Call]
        /\ \A d \in Slots : Fades(calls'[d], calls[d]) \/ Kept(d)
    BY <1>2, ChangeKeyCalls, BeginsKept
  <1>4. /\ busy' = busy \cup {"provider"}
        /\ UNCHANGED <<who, server, key, view, list, detail, providers, consent, turnRetry,
                       seedRetry, asked>>
        /\ spent' = [spent EXCEPT !.actions = @ + 1]
    BY ActSpends DEF ChangeKey
  <1>5. Retries' /\ TurnRetryKept /\ SeedRetryKept
    BY <1>1, <1>4 DEF Retries, TurnRetryKept, SeedRetryKept
  <1>6. QED
    BY <1>1, <1>3, <1>4, <1>5, OrdinaryStep DEF TypeOK, Known, Flags

-----------------------------------------------------------------------------
(* The server and the network.                                             *)

\* An answer, or none: what has to be seen to for the invariant.
LEMMA AnswerStep ==
    ASSUME RequestInv, NEW c, NEW phase \in {"answered", "failed"}, Returns(c, phase),
           UNCHANGED <<who, page, asked>>,
           UNCHANGED spent \/ spent' = [spent EXCEPT !.failures = @ + 1],
           server' \in [Sessions -> Seq(Effect)], key' \in BOOLEAN,
           Live \subseteq Live', Numbered', LogsOnce',
           \A s \in Sessions : \A r \in Nat \ {0} : Recorded(s, r)' => Carries(s, r),
           calls'[c].reply.id \in Live' \cup {0}, calls'[c].reply.ids \subseteq Live',
           phase = "answered" =>
              /\ calls[c].step \in {"get", "seed", "turn", "action"}
                    => calls'[c].reply.id = calls[c].id
              /\ calls[c].step = "create" => calls'[c].reply.id # 0
    PROVE  RequestInv'
  <1>1. TypeOK /\ Retries /\ Counted /\ Known /\ OneHome /\ c \in Slots
    BY DEF RequestInv, Returns
  <1>2. Live' \subseteq Sessions
    BY DEF Live
  <1>3. TypeOK'
    <2>1. calls' \in [Slots -> Call]
      BY DEF Returns
    <2>2. QED
      BY <1>1, <2>1 DEF TypeOK, page
  <1>4. Retries' /\ Counted'
    BY <1>1 DEF Retries, Counted, page
  <1>5. ASSUME NEW d \in Slots PROVE Shaped(calls'[d]) /\ KnownCall(calls[d])'
    <2>1. Shaped(calls[d]) /\ KnownCall(calls[d])
      BY <1>1 DEF RequestInv, Known
    <2>2. CASE d # c
      BY <2>1, <2>2 DEF Returns, KnownCall
    <2>3. CASE d = c
      <3>1. Shaped(calls'[c])
        BY <2>1, <2>3 DEF Returns, Shaped
      <3>2. QED
        BY <2>1, <2>3, <3>1 DEF Returns, KnownCall
    <2>4. QED
      BY <2>2, <2>3
  <1>6. Known'
    BY <1>1, <1>5 DEF Known, page
  <1>7. ASSUME NEW s \in Sessions, NEW r \in Nat \ {0}, Carries(s, r)' PROVE Carries(s, r)
    <2>1. CASE Recorded(s, r)'
      BY <2>1
    <2>2. CASE \E d \in Slots : calls'[d].id = s /\ calls'[d].request = r
      BY <2>2 DEF Returns, Carries
    <2>3. CASE ~Recorded(s, r)' /\ ~\E d \in Slots : calls'[d].id = s /\ calls'[d].request = r
      BY <1>7, <2>3 DEF Carries, page
    <2>4. QED
      BY <2>1, <2>2, <2>3
  <1>8. OneHome'
    BY <1>1, <1>7 DEF OneHome
  <1>9. QED
    BY <1>3, <1>4, <1>5, <1>6, <1>8 DEF RequestInv

LEMMA SameLogs ==
    ASSUME RequestInv, UNCHANGED <<who, server>>
    PROVE  /\ server' \in [Sessions -> Seq(Effect)] /\ Live' = Live /\ Numbered' /\ LogsOnce'
           /\ \A s \in Sessions : \A r \in Nat \ {0} : Recorded(s, r)' => Carries(s, r)
  <1>1. Live' = Live
    BY DEF Live
  <1>2. QED
    BY <1>1 DEF RequestInv, TypeOK, Numbered, LogsOnce, inst, Recorded, Carries

LEMMA PayloadIsReply ==
    ASSUME NEW s \in Sessions, NEW version \in Nat, key \in BOOLEAN
    PROVE  /\ SessionPayload(s, version) \in Reply
           /\ SessionPayload(s, version).id = s /\ SessionPayload(s, version).ids = {}
  BY DEF SessionPayload, ProviderReady, Reply

LEMMA AnswerReturns ==
    ASSUME RequestInv, NEW c \in Slots, NEW reply \in Reply, Answer(c, reply)
    PROVE  /\ Returns(c, "answered") /\ calls'[c].reply = reply
           /\ UNCHANGED <<who, page, asked, spent>>
  BY ReturnsCall DEF Answer, RequestInv

LEMMA ReadReturns ==
    ASSUME RequestInv, NEW c \in Slots, Read(c)
    PROVE  \E reply \in Reply :
              /\ Answer(c, reply) /\ reply.id \in {0, calls[c].id} /\ reply.ids \subseteq Live
              /\ calls[c].step \in {"list", "get", "seed"}
              /\ calls[c].step # "list" => reply.id = calls[c].id
  <1>1. TypeOK /\ Shaped(calls[c]) /\ calls[c] \in Call
    BY DEF RequestInv, TypeOK
  <1>2. CASE calls[c].step = "list" /\ Answer(c, [NoReply EXCEPT !.ids = Live])
    <2>1. Live \subseteq Sessions
      BY DEF Live
    <2>2. /\ [NoReply EXCEPT !.ids = Live] \in Reply
          /\ [NoReply EXCEPT !.ids = Live].id = 0 /\ [NoReply EXCEPT !.ids = Live].ids = Live
      BY <2>1 DEF NoReply, Reply
    <2>3. QED
      BY <1>2, <2>2
  <1>3. CASE /\ calls[c].step \in {"get", "seed"}
             /\ Answer(c, SessionPayload(calls[c].id, Version(calls[c].id)))
    <2>1. calls[c].id \in Sessions
      BY <1>1, <1>3 DEF Shaped, Call
    <2>2. Version(calls[c].id) \in Nat /\ key \in BOOLEAN
      BY <1>1, <2>1 DEF Version, TypeOK
    <2>3. QED
      BY <1>3, <2>1, <2>2, PayloadIsReply
  <1>4. QED
    BY <1>2, <1>3 DEF Read

LEMMA ReadKeeps ==
    ASSUME RequestInv, NEW c \in Slots, Read(c)
    PROVE  RequestInv'
  <1>1. PICK reply \in Reply :
              /\ Answer(c, reply) /\ reply.id \in {0, calls[c].id} /\ reply.ids \subseteq Live
              /\ calls[c].step \in {"list", "get", "seed"}
              /\ calls[c].step # "list" => reply.id = calls[c].id
    BY ReadReturns
  <1>2. /\ Returns(c, "answered") /\ calls'[c].reply = reply
        /\ UNCHANGED <<who, page, asked, spent>> /\ UNCHANGED <<server, key>>
    BY <1>1, AnswerReturns DEF Read
  <1>3. calls[c].id \in Live \cup {0} /\ key \in BOOLEAN
    BY DEF RequestInv, Known, KnownCall, TypeOK
  <1>4. QED
    BY <1>1, <1>2, <1>3, SameLogs, AnswerStep

LEMMA LoseReturns ==
    ASSUME RequestInv, NEW c \in Slots, Lose(c)
    PROVE  /\ Returns(c, "failed") /\ calls'[c].reply = NoReply
           /\ spent' = [spent EXCEPT !.failures = @ + 1]
  <1>1. TypeOK /\ NoReply \in Reply
    BY DEF RequestInv, NoReply, Reply
  <1>2. /\ calls' = [calls EXCEPT ![c].phase = "failed", ![c].reply = NoReply]
        /\ spent' = [spent EXCEPT !.failures = @ + 1]
    BY DEF Lose
  <1>3. QED
    BY <1>1, <1>2, ReturnsCall

LEMMA LoseKeeps ==
    ASSUME RequestInv, NEW c \in Slots, Lose(c)
    PROVE  RequestInv'
  <1>1. UNCHANGED <<who, server, key, page, asked>> /\ key \in BOOLEAN
    BY DEF Lose, RequestInv, TypeOK
  <1>2. NoReply.id = 0 /\ NoReply.ids = {}
    BY DEF NoReply
  <1>3. QED
    BY <1>1, <1>2, LoseReturns, SameLogs, AnswerStep

LEMMA RejectReturns ==
    ASSUME RequestInv, NEW c \in Slots, Reject(c)
    PROVE  Returns(c, "failed") /\ calls'[c].reply = calls[c].reply
  <1>1. calls \in [Slots -> Call] /\ calls[c] \in Call
    BY DEF RequestInv, TypeOK
  <1> DEFINE x == [calls[c] EXCEPT !.phase = "failed"]
  <1>2. /\ x \in Call /\ x.kind = calls[c].kind /\ x.step = calls[c].step
        /\ x.id = calls[c].id /\ x.seed = calls[c].seed
        /\ x.meant = calls[c].meant /\ x.request = calls[c].request
        /\ x.fresh = calls[c].fresh /\ x.phase = "failed" /\ x.reply = calls[c].reply
    BY <1>1 DEF Call
  <1>3. calls' = [calls EXCEPT ![c] = x]
    BY DEF Reject
  <1> HIDE DEF x
  <1>4. QED
    BY <1>1, <1>2, <1>3 DEF Returns

LEMMA RejectKeeps ==
    ASSUME RequestInv, NEW c \in Slots, Reject(c)
    PROVE  RequestInv'
  <1>1. UNCHANGED <<who, server, key, page, asked, spent>> /\ key \in BOOLEAN
    BY DEF Reject, RequestInv, TypeOK
  <1>2. calls[c].reply.id \in Live \cup {0} /\ calls[c].reply.ids \subseteq Live
    BY DEF RequestInv, Known, KnownCall
  <1>3. QED
    BY <1>1, <1>2, RejectReturns, SameLogs, AnswerStep

LEMMA SetKeyReturns ==
    ASSUME RequestInv, NEW c \in Slots, SetKey(c)
    PROVE  /\ Returns(c, "answered") /\ calls'[c].reply.id = 0 /\ calls'[c].reply.ids = {}
           /\ calls[c].step \in {"credential", "clear"}
           /\ key' \in BOOLEAN /\ UNCHANGED <<who, server, page, asked, spent>>
  <1>1. key' \in BOOLEAN /\ calls[c].step \in {"credential", "clear"} /\ UNCHANGED server
    BY DEF SetKey
  <1> DEFINE reply == [NoReply EXCEPT !.ready = key']
  <1>2. reply \in Reply /\ reply.id = 0 /\ reply.ids = {}
    BY <1>1 DEF NoReply, Reply
  <1>3. Answer(c, reply)
    BY DEF SetKey
  <1> HIDE DEF reply
  <1>4. QED
    BY <1>1, <1>2, <1>3, AnswerReturns

LEMMA SetKeyKeeps ==
    ASSUME RequestInv, NEW c \in Slots, SetKey(c)
    PROVE  RequestInv'
  BY SetKeyReturns, SameLogs, AnswerStep

LEMMA LiveLogs ==
    ASSUME TypeOK, NEW s \in Sessions
    PROVE  /\ server[s] \in Seq(Effect) /\ Len(server[s]) \in Nat
           /\ s \in Live <=> Len(server[s]) >= 1
  <1>1. server[s] \in Seq(Effect)
    BY DEF TypeOK
  <1>2. server[s] = <<>> <=> Len(server[s]) = 0
    BY <1>1
  <1>3. QED
    BY <1>1, <1>2 DEF Live

\* What is recorded for one conversation: the log of that conversation grows by it, once.
LEMMA RecordOnceLogs ==
    ASSUME RequestInv, NEW c \in Slots, NEW effect \in Effect, RecordOnce(c, effect),
           calls[c].id \in Live, effect.request = calls[c].request, effect.request # 0
    PROVE  /\ \/ server' = server
              \/ /\ ~Recorded(calls[c].id, effect.request)
                 /\ server' = [server EXCEPT ![calls[c].id] = Append(@, effect)]
           /\ server' \in [Sessions -> Seq(Effect)] /\ Live' = Live /\ Numbered' /\ LogsOnce'
           /\ \A t \in Sessions : \A r \in Nat \ {0} : Recorded(t, r)' => Carries(t, r)
           /\ \E version \in Nat : Answer(c, SessionPayload(calls[c].id, version))
           /\ UNCHANGED key
  <1> DEFINE s == calls[c].id
             n == Len(server[s])
  <1>1. TypeOK /\ s \in Sessions /\ UNCHANGED <<who, key>>
    BY DEF RequestInv, Live, RecordOnce, Answer
  <1>2. /\ server[s] \in Seq(Effect) /\ n \in Nat /\ n >= 1
    BY <1>1, LiveLogs
  <1>3. server \in [Sessions -> Seq(Effect)]
    BY <1>1 DEF TypeOK
  <1>4. CASE Recorded(s, effect.request)
    <2>1. server' = server
      BY <1>3, <1>4 DEF RecordOnce
    <2>2. \E version \in Nat : Answer(c, SessionPayload(s, version))
      BY <1>2, <2>1 DEF RecordOnce
    <2>3. QED
      BY <1>1, <2>1, <2>2, SameLogs
  <1>5. CASE ~Recorded(s, effect.request)
    <2>1. server' = [server EXCEPT ![s] = Append(server[s], effect)]
      BY <1>3, <1>5 DEF RecordOnce
    <2>2. /\ server' \in [Sessions -> Seq(Effect)] /\ server'[s] = Append(server[s], effect)
          /\ \A t \in Sessions : t # s => server'[t] = server[t]
      BY <1>1, <1>2, <1>3, <2>1
    <2>3. /\ Len(server'[s]) = n + 1 /\ server'[s][n + 1] = effect
          /\ \A i \in 1..n : server'[s][i] = server[s][i]
      BY <1>2, <2>2
    <2>4. \E version \in Nat : Answer(c, SessionPayload(s, version))
      BY <1>2, <2>3 DEF RecordOnce
    <2>5. \A i \in 2..(n + 1) : i \in 2..n \/ i = n + 1
      BY <1>2
    <2>6. Live' = Live
      <3>1. ASSUME NEW t \in Sessions PROVE server'[t] # <<>> <=> server[t] # <<>>
        <4>1. CASE t = s
          <5>1. server'[s] # <<>>
            BY <1>2, <2>3
          <5>2. server[s] # <<>>
            BY <1>2
          <5>3. QED
            BY <4>1, <5>1, <5>2
        <4>2. CASE t # s
          BY <2>2, <4>2
        <4>3. QED
          BY <4>1, <4>2
      <3>2. QED
        BY <3>1 DEF Live
    <2>7. ASSUME NEW i \in 2..n PROVE server'[s][i] = server[s][i] /\ i # n + 1
      BY <1>2, <2>3
    <2>8. ASSUME NEW i \in 2..n PROVE server[s][i].request # effect.request
      BY <1>5 DEF Recorded
    <2>9. LogsOnce'
      <3>1. LogsOnce /\ inst' = inst
        BY <1>1 DEF RequestInv, inst
      <3>2. ASSUME NEW t \in Sessions, NEW i \in 2..Len(server'[t])
            PROVE  /\ server'[t][i].request = 0 => i = 2 /\ t \in inst.live
                   /\ \A j \in 2..Len(server'[t]) :
                        server'[t][i].request = server'[t][j].request => i = j
        <4>1. CASE t # s
          BY SMTT(20), <2>2, <3>1, <4>1 DEF LogsOnce
        <4>2. CASE t = s /\ i \in 2..n
          <5>1. /\ server[s][i].request = 0 => i = 2 /\ s \in inst.live
                /\ \A j \in 2..n : server[s][i].request = server[s][j].request => i = j
            BY <1>1, <3>1, <4>2 DEF LogsOnce
          <5>2. ASSUME NEW j \in 2..(n + 1), server'[s][i].request = server'[s][j].request
                PROVE  i = j
            BY <2>3, <2>5, <2>7, <2>8, <4>2, <5>1, <5>2
          <5>3. QED
            BY <2>3, <2>7, <4>2, <5>1, <5>2
        <4>3. CASE t = s /\ i = n + 1
          <5>1. server'[s][i] = effect
            BY <2>3, <4>3
          <5>2. ASSUME NEW j \in 2..(n + 1), effect.request = server'[s][j].request
                PROVE  i = j
            BY <2>5, <2>7, <2>8, <4>3, <5>2
          <5>3. QED
            BY <2>3, <4>3, <5>1, <5>2
        <4>4. i \in 2..n \/ i = n + 1 \/ t # s
          BY <2>3, <2>5
        <4>5. QED
          BY <4>1, <4>2, <4>3, <4>4
      <3>3. QED
        BY <3>1, <3>2 DEF LogsOnce
    <2>10. ASSUME NEW t \in Sessions, NEW r \in Nat \ {0}, Recorded(t, r)' PROVE Carries(t, r)
      <3>1. PICK i \in 2..Len(server'[t]) : server'[t][i].request = r
        BY <2>10 DEF Recorded
      <3>2. CASE t # s
        BY <2>2, <3>1, <3>2 DEF Carries, Recorded
      <3>3. CASE t = s /\ i \in 2..n
        BY <2>7, <3>1, <3>3 DEF Carries, Recorded
      <3>4. CASE t = s /\ i = n + 1
        BY <2>3, <3>1, <3>4 DEF Carries
      <3>5. i \in 2..n \/ i = n + 1 \/ t # s
        BY <2>3, <2>5, <3>1
      <3>6. QED
        BY <3>2, <3>3, <3>4, <3>5
    <2>11. Numbered'
      BY <2>6 DEF RequestInv, Numbered
    <2>12. QED
      BY <1>1, <1>5, <2>1, <2>2, <2>4, <2>6, <2>9, <2>10, <2>11
  <1>6. QED
    BY <1>4, <1>5

Records(c) == RunTurn(c) \/ MutateSeed(c)

LEMMA RecordsWhat ==
    ASSUME RequestInv, NEW c \in Slots, Records(c)
    PROVE  \E seed \in Seeds \cup {0} :
              /\ Mutation(c, seed) \in Effect /\ RecordOnce(c, Mutation(c, seed))
              /\ Mutation(c, seed).kind = calls[c].step
              /\ Mutation(c, seed).meant = calls[c].meant
              /\ Mutation(c, seed).request = calls[c].request
              /\ calls[c].request # 0 /\ calls[c].id \in Live
              /\ calls[c].step \in {"turn", "action"}
  <1>1. PICK seed \in Seeds \cup {0} :
              RecordOnce(c, Mutation(c, seed)) /\ calls[c].step \in {"turn", "action"}
    <2>1. calls[c].seed \in Seeds \cup {0}
      BY DEF RequestInv, TypeOK, Call
    <2>2. QED
      BY <2>1 DEF Records, RunTurn, MutateSeed
  <1>2. calls[c] \in Call /\ Shaped(calls[c]) /\ KnownCall(calls[c])
    BY DEF RequestInv, TypeOK, Known
  <1>3. calls[c].request # 0 /\ calls[c].id \in Live
    BY <1>1, <1>2 DEF Shaped, Pairs, KnownCall
  <1>4. /\ calls[c].request \in Nat /\ calls[c].meant \in Sessions \cup {0}
    BY <1>2 DEF Call
  <1>5. Mutation(c, seed) \in Effect
    BY <1>1, <1>4 DEF Mutation, Effect
  <1>6. QED
    BY <1>1, <1>3, <1>5 DEF Mutation

LEMMA RecordsReturns ==
    ASSUME RequestInv, NEW c \in Slots, Records(c)
    PROVE  /\ Returns(c, "answered")
           /\ calls'[c].reply.id = calls[c].id /\ calls'[c].reply.ids = {}
           /\ UNCHANGED <<who, page, asked, spent, key>>
           /\ server' \in [Sessions -> Seq(Effect)] /\ Live' = Live /\ Numbered' /\ LogsOnce'
           /\ \A t \in Sessions : \A r \in Nat \ {0} : Recorded(t, r)' => Carries(t, r)
           /\ calls[c].id \in Live /\ calls[c].step \in {"turn", "action"}
  <1>1. PICK seed \in Seeds \cup {0} :
              /\ Mutation(c, seed) \in Effect /\ RecordOnce(c, Mutation(c, seed))
              /\ Mutation(c, seed).request = calls[c].request
              /\ calls[c].request # 0 /\ calls[c].id \in Live
              /\ calls[c].step \in {"turn", "action"}
    BY RecordsWhat
  <1>2. /\ server' \in [Sessions -> Seq(Effect)] /\ Live' = Live /\ Numbered' /\ LogsOnce'
        /\ \A t \in Sessions : \A r \in Nat \ {0} : Recorded(t, r)' => Carries(t, r)
        /\ \E version \in Nat : Answer(c, SessionPayload(calls[c].id, version))
        /\ UNCHANGED key
    BY <1>1, RecordOnceLogs
  <1>3. PICK version \in Nat : Answer(c, SessionPayload(calls[c].id, version))
    BY <1>2
  <1>4. /\ SessionPayload(calls[c].id, version) \in Reply
        /\ SessionPayload(calls[c].id, version).id = calls[c].id
        /\ SessionPayload(calls[c].id, version).ids = {}
    BY <1>1, PayloadIsReply DEF RequestInv, TypeOK, Live
  <1>5. QED
    BY <1>1, <1>2, <1>3, <1>4, AnswerReturns

LEMMA RecordsKeeps ==
    ASSUME RequestInv, NEW c \in Slots, Records(c)
    PROVE  RequestInv'
  BY RecordsReturns, AnswerStep DEF RequestInv, TypeOK

LEMMA NextNumber ==
    ASSUME Numbered
    PROVE  \E n \in 0..MaxSessions : Live = 1..n /\ NewSession = n + 1 /\ NewSession \notin Live
  <1>1. PICK n \in 0..MaxSessions : Live = 1..n
    BY DEF Numbered
  <1>2. Cardinality(1..n) = n
    <2>1. n \in Int /\ 1 \in Int /\ n >= 0
      BY WebAssumption
    <2>2. Cardinality(1..n) = IF 1 > n THEN 0 ELSE n - 1 + 1
      BY <2>1, FS_Interval
    <2>3. QED
      BY <2>1, <2>2
  <1>3. NewSession = n + 1
    BY <1>1, <1>2 DEF NewSession
  <1>4. n + 1 \notin 1..n
    BY WebAssumption
  <1>5. QED
    BY <1>1, <1>3, <1>4

Birth == [kind |-> "turn", seed |-> 0, request |-> 0, meant |-> 0]

\* A conversation is founded: under a number no conversation has.
LEMMA FoundLogs ==
    ASSUME RequestInv, NEW c \in Slots, Found(c)
    PROVE  /\ server' = [server EXCEPT ![NewSession] = <<Birth>>]
           /\ server' \in [Sessions -> Seq(Effect)] /\ Live' = Live \cup {NewSession}
           /\ NewSession \in Sessions \ Live /\ Numbered' /\ LogsOnce'
           /\ \A t \in Sessions : \A r \in Nat \ {0} : Recorded(t, r)' => Carries(t, r)
  <1>1. PICK n \in 0..MaxSessions : Live = 1..n /\ NewSession = n + 1 /\ NewSession \notin Live
    BY NextNumber DEF RequestInv
  <1>2. /\ NewSession \in Sessions /\ server' = [server EXCEPT ![NewSession] = <<Birth>>]
        /\ UNCHANGED who /\ server \in [Sessions -> Seq(Effect)]
    BY DEF Found, Birth, Answer, RequestInv, TypeOK
  <1> DEFINE s == NewSession
  <1>3. Birth \in Effect
    BY DEF Birth, Effect
  <1> HIDE DEF s
  <1>4. <<Birth>> \in Seq(Effect) /\ Len(<<Birth>>) = 1 /\ <<Birth>> # <<>>
    BY <1>3
  <1>5. /\ server' \in [Sessions -> Seq(Effect)] /\ server'[s] = <<Birth>>
        /\ \A t \in Sessions : t # s => server'[t] = server[t]
    BY <1>2, <1>4 DEF s
  <1>6. s \in Sessions /\ Live' = Live \cup {s}
    BY <1>2, <1>4, <1>5 DEF Live, s
  <1>7. Numbered'
    <2>1. n + 1 \in 0..MaxSessions
      BY <1>1, <1>2, WebAssumption DEF Sessions
    <2>2. 1..(n + 1) = (1..n) \cup {n + 1}
      BY <2>1, WebAssumption
    <2>3. Live' = 1..(n + 1)
      BY <1>1, <1>6, <2>2 DEF s
    <2>4. QED
      BY <2>1, <2>3 DEF Numbered
  <1>8. 2..Len(server'[s]) = {}
    BY <1>4, <1>5
  <1>9. LogsOnce'
    <2>1. LogsOnce /\ inst' = inst
      BY <1>2 DEF RequestInv, inst
    <2>2. QED
      BY <1>5, <1>8, <2>1 DEF LogsOnce
  <1>10. \A t \in Sessions : \A r \in Nat \ {0} : Recorded(t, r)' => Carries(t, r)
    BY <1>5, <1>8 DEF Recorded, Carries
  <1>11. QED
    BY <1>1, <1>2, <1>5, <1>6, <1>7, <1>9, <1>10 DEF s

LEMMA FoundReturns ==
    ASSUME RequestInv, NEW c \in Slots, Found(c)
    PROVE  /\ Returns(c, "answered") /\ calls[c].step = "create"
           /\ calls'[c].reply.id = NewSession /\ calls'[c].reply.ids = {}
           /\ UNCHANGED <<who, page, asked, spent, key>>
  <1>1. /\ NewSession \in Sessions /\ calls[c].step = "create" /\ UNCHANGED key
        /\ Answer(c, SessionPayload(NewSession, 1))
    BY DEF Found
  <1>2. /\ SessionPayload(NewSession, 1) \in Reply
        /\ SessionPayload(NewSession, 1).id = NewSession
        /\ SessionPayload(NewSession, 1).ids = {}
    BY <1>1, PayloadIsReply DEF RequestInv, TypeOK
  <1>3. QED
    BY <1>1, <1>2, AnswerReturns

LEMMA FoundKeeps ==
    ASSUME RequestInv, NEW c \in Slots, Found(c)
    PROVE  RequestInv'
  <1>1. NewSession # 0 /\ key \in BOOLEAN
    BY FoundLogs DEF Sessions, RequestInv, TypeOK
  <1>2. QED
    BY <1>1, FoundLogs, FoundReturns, AnswerStep

LEMMA ServeKeeps ==
    ASSUME RequestInv, NEW c \in Slots, Serve(c)
    PROVE  RequestInv'
  BY ReadKeeps, RecordsKeeps, FoundKeeps, SetKeyKeeps, RejectKeeps DEF Serve, Records

-----------------------------------------------------------------------------
(* What the handlers do with an answer.                                    *)

LEMMA CallFacts ==
    ASSUME RequestInv, NEW c \in Slots
    PROVE  /\ calls[c] \in Call /\ Shaped(calls[c]) /\ KnownCall(calls[c])
           /\ calls[c].id \in Sessions \cup {0} /\ calls[c].seed \in Seeds \cup {0}
           /\ calls[c].reply \in Reply /\ calls[c].request \in Nat
           /\ TypeOK /\ Retries /\ Known
  <1>1. calls[c] \in Call /\ Shaped(calls[c]) /\ KnownCall(calls[c]) /\ TypeOK /\ Retries /\ Known
    BY DEF RequestInv, TypeOK, Known
  <1>2. QED
    BY <1>1 DEF Call

LEMMA AnsweredView ==
    ASSUME RequestInv, NEW c \in Slots, calls[c].phase = "answered",
           calls[c].step \in {"get", "turn", "action", "create"}
    PROVE  /\ ViewOf(calls[c].reply) \in View /\ ViewOf(calls[c].reply).id \in Live
           /\ ViewOf(calls[c].reply).id = calls[c].reply.id
           /\ calls[c].step # "create" => ViewOf(calls[c].reply).id = calls[c].id
  <1>1. calls[c].reply.id \in Live /\ calls[c].reply \in Reply
    BY CallFacts DEF Shaped, KnownCall
  <1>2. calls[c].step # "create" => calls[c].reply.id = calls[c].id
    BY CallFacts DEF Shaped
  <1>3. QED
    BY <1>1, <1>2 DEF ViewOf, View, Reply, Live

\* A list has arrived: its first conversation is read, or there is none.
LEMMA ListedCalls ==
    ASSUME RequestInv, NEW c \in Slots, Listed(c)
    PROVE  \/ /\ calls[c].reply.ids # {} /\ list' = calls[c].reply.ids
              /\ busy' = busy \cup {"loading"} /\ UNCHANGED view
              /\ \E first \in calls[c].reply.ids :
                    /\ Moves(c) /\ Asks(calls'[c], "refresh", "get", first, 0)
                    /\ calls'[c].meant = 0 /\ calls'[c].request = 0
              /\ \A d \in Slots \ {c} : ~Loads(calls'[d])
           \/ /\ Ends(c) /\ list' = {} /\ view' = None /\ busy' = busy \ {"loading"}
           \/ Ends(c) /\ UNCHANGED <<view, list, busy>>
  <1> DEFINE ids == calls[c].reply.ids
             cs == NewSessionId(calls)
  <1>1. TypeOK /\ calls \in [Slots -> Call] /\ ids \subseteq Sessions
    BY CallFacts DEF TypeOK, Reply
  <1>2. cs \in [Slots -> Call] /\ \A d \in Slots : Fades(cs[d], calls[d]) /\ ~Loads(cs[d])
    BY <1>1, SessionIdFades
  <1>3. CASE /\ calls[c].fresh /\ ids # {} /\ list' = ids
             /\ busy' = busy \cup {"loading"} /\ UNCHANGED view
             /\ \E first \in ids :
                   calls' = [cs EXCEPT ![c] = Waiting("refresh", "get", first, 0)]
    <2>1. PICK first \in ids : calls' = [cs EXCEPT ![c] = Waiting("refresh", "get", first, 0)]
      BY <1>3
    <2> HIDE DEF cs
    <2> DEFINE x == Waiting("refresh", "get", first, 0)
    <2>2. first \in Sessions
      BY <1>1
    <2>3. /\ x \in Call /\ Asks(x, "refresh", "get", first, 0) /\ x.meant = 0 /\ x.request = 0
      BY <2>2, WaitingIsCall DEF Calls
    <2> HIDE DEF x
    <2>4. Moves(c) /\ calls'[c] = x
      BY <1>1, <1>2, <2>1, <2>3, Replaces DEF x
    <2>5. \A d \in Slots \ {c} : calls'[d] = cs[d]
      BY <1>2, <2>1
    <2>6. QED
      BY <1>2, <1>3, <2>3, <2>4, <2>5
  <1>4. CASE /\ calls[c].fresh /\ ids = {} /\ list' = ids /\ view' = None
             /\ busy' = busy \ {"loading"} /\ calls' = Done(c, cs)
    <2> HIDE DEF cs
    <2>1. Ends(c)
      BY <1>1, <1>2, <1>4, EndsCall
    <2>2. QED
      BY <1>4, <2>1
  <1>5. CASE ~calls[c].fresh /\ calls' = Done(c, calls) /\ UNCHANGED <<view, list, busy>>
    BY <1>1, <1>5, DoneEnds
  <1>6. QED
    BY <1>3, <1>4, <1>5 DEF Listed

LEMMA ListedKeeps ==
    ASSUME RequestInv, NEW c \in Slots, Listed(c)
    PROVE  RequestInv'
  <1>1. /\ calls[c].reply.ids \subseteq Live /\ calls[c].step = "list"
        /\ calls[c].kind = "refresh" /\ TypeOK /\ Retries /\ Known
    BY CallFacts DEF KnownCall, Listed, Got
  <1>2. UNCHANGED <<who, server, key, asked, spent, detail, providers, consent, turnRetry, seedRetry>>
    BY DEF Listed, Got
  <1>3. Retries' /\ TurnRetryKept /\ SeedRetryKept
    BY <1>1, <1>2 DEF Retries, TurnRetryKept, SeedRetryKept
  <1>4. 0 \notin Live
    BY DEF Live, Sessions
  <1>5. CASE /\ list' = calls[c].reply.ids
             /\ busy' = busy \cup {"loading"} /\ UNCHANGED view
             /\ \E first \in calls[c].reply.ids :
                   /\ Moves(c) /\ Asks(calls'[c], "refresh", "get", first, 0)
                   /\ calls'[c].meant = 0 /\ calls'[c].request = 0
    <2>1. PICK first \in Live :
                   /\ Moves(c) /\ Asks(calls'[c], "refresh", "get", first, 0)
                   /\ calls'[c].meant = 0 /\ calls'[c].request = 0
      BY <1>1, <1>5
    <2>2. Shaped(calls'[c])
      BY <1>4, <2>1 DEF Asks, Shaped, Pairs
    <2>3. Kept(c)
      BY <2>1, <2>2 DEF Asks, Kept, Placed
    <2>4. /\ calls' \in [Slots -> Call]
          /\ \A d \in Slots : Fades(calls'[d], calls[d]) \/ Kept(d)
      BY <2>1, <2>3 DEF Moves
    <2>5. QED
      BY <1>1, <1>2, <1>3, <1>5, <2>4, OrdinaryStep DEF TypeOK, Known, Flags
  <1>6. CASE Ends(c) /\ list' = {} /\ view' = None /\ busy' = busy \ {"loading"}
    <2>1. /\ calls' \in [Slots -> Call]
          /\ \A d \in Slots : Fades(calls'[d], calls[d]) \/ Kept(d)
      BY <1>6, EndsKept
    <2>2. view'.id = 0
      BY <1>6 DEF None
    <2>3. QED
      BY <1>1, <1>2, <1>3, <1>6, <2>1, <2>2, OrdinaryStep DEF TypeOK
  <1>7. CASE Ends(c) /\ UNCHANGED <<view, list, busy>>
    <2>1. /\ calls' \in [Slots -> Call]
          /\ \A d \in Slots : Fades(calls'[d], calls[d]) \/ Kept(d)
      BY <1>7, EndsKept
    <2>2. QED
      BY <1>1, <1>2, <1>3, <1>7, <2>1, OrdinaryStep DEF TypeOK, Known
  <1>8. QED
    BY <1>5, <1>6, <1>7, ListedCalls

\* A call ends, and the page takes over what it has to.
LEMMA EndStep ==
    ASSUME RequestInv, NEW c, Ends(c), UNCHANGED <<who, server, key, asked, spent>>,
           view' \in View \cup {None}, view'.id \in Live \cup {0}, list' \subseteq Live,
           detail' \in Detail \cup {None}, providers' \in BOOLEAN,
           consent' \in Sessions \cup {0}, busy' \subseteq Flags,
           Retries', TurnRetryKept, SeedRetryKept
    PROVE  RequestInv'
  <1>1. /\ calls' \in [Slots -> Call]
        /\ \A d \in Slots : Fades(calls'[d], calls[d]) \/ Kept(d)
    BY EndsKept
  <1>2. QED
    BY <1>1, OrdinaryStep

\* A call goes on, and the page takes over what it has to.
LEMMA ContinueStep ==
    ASSUME RequestInv, NEW c, NEW step \in {"list", "get", "seed"}, Continues(c, step),
           <<calls[c].kind, step>> \in Pairs,
           step \in {"get", "seed"} => calls[c].id # 0, step = "seed" => calls[c].seed # 0,
           UNCHANGED <<who, server, key, asked, spent>>,
           view' \in View \cup {None}, view'.id \in Live \cup {0}, list' \subseteq Live,
           detail' \in Detail \cup {None}, providers' \in BOOLEAN,
           consent' \in Sessions \cup {0}, busy' \subseteq Flags,
           Retries', TurnRetryKept, SeedRetryKept
    PROVE  RequestInv'
  <1>1. /\ calls' \in [Slots -> Call]
        /\ \A d \in Slots : Fades(calls'[d], calls[d]) \/ Kept(d)
    BY ContinuesKept
  <1>2. QED
    BY <1>1, OrdinaryStep

LEMMA SamePage ==
    ASSUME RequestInv
    PROVE  /\ UNCHANGED view => view' \in View \cup {None} /\ view'.id \in Live \cup {0}
           /\ UNCHANGED list => list' \subseteq Live
           /\ UNCHANGED detail => detail' \in Detail \cup {None}
           /\ UNCHANGED providers => providers' \in BOOLEAN
           /\ UNCHANGED consent => consent' \in Sessions \cup {0}
           /\ UNCHANGED busy => busy' \subseteq Flags
           /\ \A flag : busy' = busy \ {flag} => busy' \subseteq Flags
           /\ UNCHANGED turnRetry => TurnRetryKept
           /\ UNCHANGED seedRetry => SeedRetryKept
           /\ turnRetry' \in {None, turnRetry} /\ seedRetry' \in {None, seedRetry} => Retries'
  BY DEF RequestInv, TypeOK, Known, TurnRetryKept, SeedRetryKept, Retries

LEMMA TheseEnd ==
    ASSUME RequestInv, NEW c \in Slots,
           \/ Loaded(c) \/ NotLoaded(c) \/ Opened(c) \/ NotSent(c) \/ ListRefreshed(c)
           \/ NotCreated(c) \/ NotActed(c) \/ NotConfigured(c)
    PROVE  Ends(c) /\ UNCHANGED <<who, server, key, asked, spent>>
  <1>1. calls' = Done(c, calls)
    BY DEF Loaded, NotLoaded, Opened, NotSent, ListRefreshed, NotCreated, NotActed, NotConfigured
  <1>2. UNCHANGED <<who, server, key, asked, spent>>
    BY DEF Loaded, NotLoaded, Opened, NotSent, ListRefreshed, NotCreated, NotActed,
           NotConfigured, Got, Lost
  <1>3. QED
    BY <1>1, <1>2, DoneEnds DEF RequestInv

LEMMA LoadedKeeps ==
    ASSUME RequestInv, NEW c \in Slots, Loaded(c)
    PROVE  RequestInv'
  <1>1. /\ calls[c].phase = "answered" /\ calls[c].step = "get"
        /\ view' = IF calls[c].fresh THEN ViewOf(calls[c].reply) ELSE view
        /\ busy' = IF calls[c].fresh THEN busy \ {"loading"} ELSE busy
        /\ UNCHANGED <<list, detail, providers, consent, turnRetry, seedRetry>>
    BY DEF Loaded, Got
  <1>2. view' \in View \cup {None} /\ view'.id \in Live \cup {0} /\ busy' \subseteq Flags
    BY <1>1, AnsweredView, SamePage
  <1>3. QED
    BY <1>1, <1>2, TheseEnd, SamePage, EndStep

LEMMA NotLoadedKeeps ==
    ASSUME RequestInv, NEW c \in Slots, NotLoaded(c)
    PROVE  RequestInv'
  <1>1. /\ busy' \in {busy, busy \ {"loading"}}
        /\ UNCHANGED <<view, list, detail, providers, consent, turnRetry, seedRetry>>
    BY DEF NotLoaded, Unshown
  <1>2. QED
    BY <1>1, TheseEnd, SamePage, EndStep

\* A seed is shown where it was asked for.
LEMMA ShownSeed ==
    ASSUME RequestInv, NEW c \in Slots, calls[c].step = "seed", ShowSeed(c)
    PROVE  /\ detail' \in Detail \cup {None}
           /\ IF calls[c].fresh THEN detail'.id = calls[c].id ELSE detail' = detail
  <1>1. /\ calls[c].id \in Sessions /\ calls[c].seed \in Seeds
        /\ calls[c].reply.version \in Nat
    BY CallFacts DEF Shaped, Reply
  <1>2. detail \in Detail \cup {None}
    BY DEF RequestInv, TypeOK
  <1>3. QED
    BY <1>1, <1>2 DEF ShowSeed, Detail

LEMMA OpenedKeeps ==
    ASSUME RequestInv, NEW c \in Slots, Opened(c)
    PROVE  RequestInv'
  <1>1. /\ calls[c].step = "seed" /\ (ShowSeed(c) \/ UNCHANGED detail)
        /\ UNCHANGED <<view, list, providers, consent, turnRetry, seedRetry, busy>>
    BY DEF Opened, Got, Lost
  <1>2. detail' \in Detail \cup {None}
    BY <1>1, ShownSeed, SamePage
  <1>3. QED
    BY <1>1, <1>2, TheseEnd, SamePage, EndStep

LEMMA NotSentKeeps ==
    ASSUME RequestInv, NEW c \in Slots, NotSent(c)
    PROVE  RequestInv'
  <1>1. /\ calls[c].kind = "send" /\ calls[c].step = "turn"
        /\ turnRetry' = [id |-> calls[c].id, request |-> calls[c].request]
        /\ busy' = busy \ {"sending"}
        /\ UNCHANGED <<view, list, detail, providers, consent, seedRetry>>
    BY DEF NotSent, Lost
  <1>2. /\ calls[c].id \in Sessions /\ calls[c].request \in Nat \ {0}
        /\ seedRetry \in [id : Sessions, seed : Seeds, request : Nat \ {0}] \cup {None}
    BY <1>1, CallFacts DEF Shaped, Retries
  <1>3. Retries' /\ TurnRetryKept
    BY <1>1, <1>2 DEF Retries, TurnRetryKept
  <1>4. QED
    BY <1>1, <1>3, TheseEnd, SamePage, EndStep

LEMMA NotActedKeeps ==
    ASSUME RequestInv, NEW c \in Slots, NotActed(c)
    PROVE  RequestInv'
  <1>1. /\ calls[c].kind = "act" /\ calls[c].step = "action"
        /\ seedRetry' = [id |-> calls[c].id, seed |-> calls[c].seed,
                         request |-> calls[c].request]
        /\ busy' = busy \ {"acting"}
        /\ UNCHANGED <<view, list, detail, providers, consent, turnRetry>>
    BY DEF NotActed, Lost
  <1>2. /\ calls[c].id \in Sessions /\ calls[c].seed \in Seeds /\ calls[c].request \in Nat \ {0}
        /\ turnRetry \in [id : Sessions, request : Nat \ {0}] \cup {None}
    BY <1>1, CallFacts DEF Shaped, Retries
  <1>3. Retries' /\ SeedRetryKept
    BY <1>1, <1>2 DEF Retries, SeedRetryKept
  <1>4. QED
    BY <1>1, <1>3, TheseEnd, SamePage, EndStep

LEMMA ListRefreshedKeeps ==
    ASSUME RequestInv, NEW c \in Slots, ListRefreshed(c)
    PROVE  RequestInv'
  <1>1. /\ TakeList(c) \/ UNCHANGED list
        /\ busy' \in {busy \ {"sending"}, busy \ {"creating"}}
        /\ UNCHANGED <<view, detail, providers, consent, turnRetry, seedRetry>>
    BY DEF ListRefreshed
  <1>2. list' \subseteq Live
    BY <1>1, CallFacts, SamePage DEF TakeList, KnownCall
  <1>3. QED
    BY <1>1, <1>2, TheseEnd, SamePage, EndStep

LEMMA NotCreatedKeeps ==
    ASSUME RequestInv, NEW c \in Slots, NotCreated(c)
    PROVE  RequestInv'
  <1>1. /\ busy' = busy \ {"creating"}
        /\ UNCHANGED <<view, list, detail, providers, consent, turnRetry, seedRetry>>
    BY DEF NotCreated
  <1>2. QED
    BY <1>1, TheseEnd, SamePage, EndStep

LEMMA NotConfiguredKeeps ==
    ASSUME RequestInv, NEW c \in Slots, NotConfigured(c)
    PROVE  RequestInv'
  <1>1. /\ busy' = busy \ {"provider"}
        /\ UNCHANGED <<view, list, detail, providers, consent, turnRetry, seedRetry>>
    BY DEF NotConfigured
  <1>2. QED
    BY <1>1, TheseEnd, SamePage, EndStep

\* A question was answered: its seed is read again, or the list.
LEMMA SentCalls ==
    ASSUME RequestInv, NEW c \in Slots, Sent(c)
    PROVE  \/ /\ calls[c].seed # 0 /\ Continues(c, "seed")
              /\ \A d \in Slots \ {c} : ~Shows(calls'[d])
              /\ UNCHANGED <<turnRetry, consent>>
           \/ Continues(c, "list") /\ turnRetry' = None /\ UseConsent(c)
  <1>1. TypeOK /\ calls \in [Slots -> Call]
    BY DEF RequestInv, TypeOK
  <1>2. CASE /\ calls[c].seed # 0 /\ calls' = Continue(c, NewSeedId(calls), "seed")
             /\ UNCHANGED <<turnRetry, consent>>
    <2> DEFINE cs == NewSeedId(calls)
    <2>1. cs \in [Slots -> Call] /\ \A d \in Slots : Fades(cs[d], calls[d]) /\ ~Shows(cs[d])
      BY <1>1, SeedIdFades
    <2>2. calls' = Continue(c, cs, "seed")
      BY <1>2
    <2> HIDE DEF cs
    <2>3. Continues(c, "seed")
      BY <1>1, <2>1, <2>2, ContinuesCall DEF Steps
    <2>4. \A d \in Slots \ {c} : calls'[d] = cs[d]
      BY <2>1, <2>2 DEF Continue
    <2>5. QED
      BY <1>2, <2>1, <2>3, <2>4
  <1>3. CASE calls' = Continue(c, calls, "list") /\ turnRetry' = None /\ UseConsent(c)
    BY <1>1, <1>3, ContinuesPlain DEF Steps
  <1>4. QED
    BY <1>2, <1>3 DEF Sent

LEMMA SentKeeps ==
    ASSUME RequestInv, NEW c \in Slots, Sent(c)
    PROVE  RequestInv'
  <1>1. /\ calls[c].kind = "send" /\ calls[c].step = "turn" /\ calls[c].phase = "answered"
        /\ view' = ViewOf(calls[c].reply)
        /\ UNCHANGED <<who, server, key, asked, spent, list, detail, providers, seedRetry, busy>>
    BY DEF Sent, Got
  <1>2. view' \in View \cup {None} /\ view'.id \in Live \cup {0}
    BY <1>1, AnsweredView
  <1>3. calls[c].id # 0 /\ <<"send", "seed">> \in Pairs /\ <<"send", "list">> \in Pairs
    BY <1>1, CallFacts DEF Shaped, Pairs
  <1>4. CASE calls[c].seed # 0 /\ Continues(c, "seed") /\ UNCHANGED <<turnRetry, consent>>
    BY <1>1, <1>2, <1>3, <1>4, SamePage, ContinueStep
  <1>5. CASE Continues(c, "list") /\ turnRetry' = None /\ UseConsent(c)
    <2>1. consent' \in Sessions \cup {0} /\ TurnRetryKept
      BY <1>5, SamePage DEF UseConsent, TurnRetryKept
    <2>2. QED
      BY <1>1, <1>2, <1>3, <1>5, <2>1, SamePage, ContinueStep
  <1>6. QED
    BY <1>4, <1>5, SentCalls

LEMMA RefreshedCalls ==
    ASSUME RequestInv, NEW c \in Slots, Refreshed(c)
    PROVE  /\ calls[c].step = "seed"
           /\ \/ calls[c].kind = "send" /\ Continues(c, "list") /\ turnRetry' = None
                 /\ UseConsent(c) /\ UNCHANGED busy
              \/ calls[c].kind = "act" /\ Ends(c) /\ busy' = busy \ {"acting"}
                 /\ UNCHANGED <<turnRetry, consent>>
  <1>1. calls[c].step = "seed" /\ TypeOK
    BY DEF Refreshed, Got, Lost, RequestInv
  <1>2. CASE /\ calls[c].kind = "send" /\ turnRetry' = None /\ UseConsent(c)
             /\ calls' = Continue(c, calls, "list") /\ UNCHANGED busy
    BY <1>1, <1>2, ContinuesPlain DEF Steps
  <1>3. CASE /\ calls[c].kind = "act" /\ busy' = busy \ {"acting"}
             /\ calls' = Done(c, calls) /\ UNCHANGED <<turnRetry, consent>>
    BY <1>1, <1>3, DoneEnds
  <1>4. QED
    BY <1>1, <1>2, <1>3 DEF Refreshed

LEMMA RefreshedKeeps ==
    ASSUME RequestInv, NEW c \in Slots, Refreshed(c)
    PROVE  RequestInv'
  <1>1. /\ UNCHANGED <<who, server, key, asked, spent, view, list, providers, seedRetry>>
        /\ ShowSeed(c) \/ detail' \in {None, detail}
    BY DEF Refreshed, Got, Lost
  <1>2. calls[c].step = "seed" /\ detail' \in Detail \cup {None}
    BY <1>1, RefreshedCalls, ShownSeed, SamePage
  <1>3. CASE /\ calls[c].kind = "send" /\ Continues(c, "list") /\ turnRetry' = None
             /\ UseConsent(c) /\ UNCHANGED busy
    <2>1. consent' \in Sessions \cup {0} /\ TurnRetryKept /\ <<"send", "list">> \in Pairs
      BY <1>3, SamePage DEF UseConsent, TurnRetryKept, Pairs
    <2>2. QED
      BY <1>1, <1>2, <1>3, <2>1, SamePage, ContinueStep
  <1>4. CASE /\ calls[c].kind = "act" /\ Ends(c) /\ busy' = busy \ {"acting"}
             /\ UNCHANGED <<turnRetry, consent>>
    BY <1>1, <1>2, <1>4, SamePage, EndStep
  <1>5. QED
    BY <1>3, <1>4, RefreshedCalls

LEMMA CreatedCalls ==
    ASSUME RequestInv, NEW c \in Slots, Created(c)
    PROVE  /\ Continues(c, "list")
           /\ \A d \in Slots \ {c} : ~Loads(calls'[d]) /\ ~Shows(calls'[d])
  <1> DEFINE cs == NewSessionId(NewRefreshId(NewSeedId(calls)))
  <1>1. TypeOK /\ calls \in [Slots -> Call]
    BY DEF RequestInv, TypeOK
  <1>2. /\ cs \in [Slots -> Call]
        /\ \A d \in Slots : Fades(cs[d], calls[d]) /\ ~Loads(cs[d]) /\ ~Shows(cs[d])
    BY <1>1, AllIdsFade
  <1>3. calls' = Continue(c, cs, "list")
    BY DEF Created
  <1> HIDE DEF cs
  <1>4. Continues(c, "list")
    BY <1>1, <1>2, <1>3, ContinuesCall DEF Steps
  <1>5. \A d \in Slots \ {c} : calls'[d] = cs[d]
    BY <1>2, <1>3 DEF Continue
  <1>6. QED
    BY <1>2, <1>4, <1>5

LEMMA CreatedKeeps ==
    ASSUME RequestInv, NEW c \in Slots, Created(c)
    PROVE  RequestInv'
  <1>1. /\ calls[c].kind = "create" /\ calls[c].step = "create" /\ calls[c].phase = "answered"
        /\ view' = ViewOf(calls[c].reply) /\ busy' = busy \ {"loading"}
        /\ turnRetry' = None /\ detail' = None /\ seedRetry' = None /\ consent' = 0
        /\ UNCHANGED <<who, server, key, asked, spent, list, providers>>
    BY DEF Created, Got
  <1>2. view' \in View \cup {None} /\ view'.id \in Live \cup {0}
    BY <1>1, AnsweredView
  <1>3. <<"create", "list">> \in Pairs
    BY DEF Pairs
  <1>4. TurnRetryKept /\ SeedRetryKept
    BY <1>1 DEF TurnRetryKept, SeedRetryKept
  <1>5. QED
    BY <1>1, <1>2, <1>3, <1>4, CreatedCalls, SamePage, ContinueStep

LEMMA ActedCalls ==
    ASSUME RequestInv, NEW c \in Slots, Acted(c)
    PROVE  Continues(c, "seed") /\ \A d \in Slots \ {c} : ~Shows(calls'[d])
  <1> DEFINE cs == NewSeedId(calls)
  <1>1. TypeOK /\ calls \in [Slots -> Call]
    BY DEF RequestInv, TypeOK
  <1>2. cs \in [Slots -> Call] /\ \A d \in Slots : Fades(cs[d], calls[d]) /\ ~Shows(cs[d])
    BY <1>1, SeedIdFades
  <1>3. calls' = Continue(c, cs, "seed")
    BY DEF Acted
  <1> HIDE DEF cs
  <1>4. Continues(c, "seed")
    BY <1>1, <1>2, <1>3, ContinuesCall DEF Steps
  <1>5. \A d \in Slots \ {c} : calls'[d] = cs[d]
    BY <1>2, <1>3 DEF Continue
  <1>6. QED
    BY <1>2, <1>4, <1>5

LEMMA ActedKeeps ==
    ASSUME RequestInv, NEW c \in Slots, Acted(c)
    PROVE  RequestInv'
  <1>1. /\ calls[c].kind = "act" /\ calls[c].step = "action" /\ calls[c].phase = "answered"
        /\ view' = ViewOf(calls[c].reply) /\ seedRetry' = None
        /\ UNCHANGED <<who, server, key, asked, spent, list, detail, providers, consent,
                       turnRetry, busy>>
    BY DEF Acted, Got
  <1>2. view' \in View \cup {None} /\ view'.id \in Live \cup {0}
    BY <1>1, AnsweredView
  <1>3. calls[c].id # 0 /\ calls[c].seed # 0 /\ <<"act", "seed">> \in Pairs
    BY <1>1, CallFacts DEF Shaped, Pairs
  <1>4. SeedRetryKept
    BY <1>1 DEF SeedRetryKept
  <1>5. QED
    BY <1>1, <1>2, <1>3, <1>4, ActedCalls, SamePage, ContinueStep

\* The provider's status, then the list, then the conversation shown.
LEMMA ConfiguredCalls ==
    ASSUME RequestInv, NEW c \in Slots, Configured(c)
    PROVE  /\ calls[c].kind = "provider" /\ calls[c].phase = "answered"
           /\ \/ /\ Continues(c, "list") /\ providers' = calls[c].reply.ready
                 /\ UNCHANGED <<view, list, busy>>
              \/ /\ Continues(c, "get") /\ calls[c].id # 0 /\ TakeList(c)
                 /\ UNCHANGED <<view, providers, busy>>
              \/ /\ Ends(c) /\ TakeList(c) /\ busy' = busy \ {"provider"}
                 /\ UNCHANGED <<view, providers>>
              \/ /\ Ends(c) /\ calls[c].step = "get" /\ view' = ViewOf(calls[c].reply)
                 /\ busy' = busy \ {"provider"} /\ UNCHANGED <<list, providers>>
  <1>1. calls[c].kind = "provider" /\ calls[c].phase = "answered" /\ TypeOK
    BY DEF Configured, Got, RequestInv
  <1>2. CASE /\ providers' = calls[c].reply.ready /\ calls' = Continue(c, calls, "list")
             /\ UNCHANGED <<view, list, busy>>
    BY <1>1, <1>2, ContinuesPlain DEF Steps
  <1>3. CASE /\ TakeList(c) /\ calls[c].id # 0 /\ calls' = Continue(c, calls, "get")
             /\ UNCHANGED <<view, providers, busy>>
    BY <1>1, <1>3, ContinuesPlain DEF Steps
  <1>4. CASE /\ TakeList(c) /\ calls' = Done(c, calls) /\ busy' = busy \ {"provider"}
             /\ UNCHANGED <<view, providers>>
    BY <1>1, <1>4, DoneEnds
  <1>5. CASE /\ calls[c].step = "get" /\ view' = ViewOf(calls[c].reply)
             /\ calls' = Done(c, calls) /\ busy' = busy \ {"provider"}
             /\ UNCHANGED <<list, providers>>
    BY <1>1, <1>5, DoneEnds
  <1>6. QED
    BY <1>1, <1>2, <1>3, <1>4, <1>5 DEF Configured, Got, Sync

LEMMA ConfiguredKeeps ==
    ASSUME RequestInv, NEW c \in Slots, Configured(c)
    PROVE  RequestInv'
  <1>1. /\ UNCHANGED <<who, server, key, asked, spent, detail, consent, turnRetry, seedRetry>>
        /\ calls[c].kind = "provider" /\ calls[c].phase = "answered"
    BY ConfiguredCalls DEF Configured, Got
  <1>2. /\ TakeList(c) => list' \subseteq Live
        /\ calls[c].reply.ready \in BOOLEAN
    BY CallFacts DEF TakeList, KnownCall, Reply
  <1>3. <<"provider", "list">> \in Pairs /\ <<"provider", "get">> \in Pairs
    BY DEF Pairs
  <1>4. CASE /\ Continues(c, "list") /\ providers' = calls[c].reply.ready
             /\ UNCHANGED <<view, list, busy>>
    BY <1>1, <1>2, <1>3, <1>4, SamePage, ContinueStep
  <1>5. CASE /\ Continues(c, "get") /\ calls[c].id # 0 /\ TakeList(c)
             /\ UNCHANGED <<view, providers, busy>>
    BY <1>1, <1>2, <1>3, <1>5, SamePage, ContinueStep
  <1>6. CASE /\ Ends(c) /\ TakeList(c) /\ busy' = busy \ {"provider"}
             /\ UNCHANGED <<view, providers>>
    BY <1>1, <1>2, <1>6, SamePage, EndStep
  <1>7. CASE /\ Ends(c) /\ calls[c].step = "get" /\ view' = ViewOf(calls[c].reply)
             /\ busy' = busy \ {"provider"} /\ UNCHANGED <<list, providers>>
    <2>1. view' \in View \cup {None} /\ view'.id \in Live \cup {0}
      BY <1>1, <1>7, AnsweredView
    <2>2. QED
      BY <1>1, <1>7, <2>1, SamePage, EndStep
  <1>8. QED
    BY <1>4, <1>5, <1>6, <1>7, ConfiguredCalls

LEMMA DeliverKeeps ==
    ASSUME RequestInv, NEW c \in Slots, Deliver(c)
    PROVE  RequestInv'
  BY ListedKeeps, LoadedKeeps, NotLoadedKeeps, OpenedKeeps, SentKeeps, NotSentKeeps,
     RefreshedKeeps, ListRefreshedKeeps, CreatedKeeps, NotCreatedKeeps, ActedKeeps,
     NotActedKeeps, ConfiguredKeeps, NotConfiguredKeeps DEF Deliver

-----------------------------------------------------------------------------
(* Requests take effect once.                                              *)

Person == [live : {1..n : n \in 0..MaxSessions}, external : SUBSET Sessions,
           habits : SUBSET Kinds, impatient : SUBSET (Kinds \X Calls),
           actions : Nat, failures : Nat]

LEMMA LiveAtFirst ==
    ASSUME who \in DOMAIN Persons
    PROVE  /\ inst.live \in {1..n : n \in 0..MaxSessions} /\ inst.live \subseteq Sessions
           /\ inst.external \subseteq Sessions
  <1>1. Persons \in Seq(Person)
    BY WebAssumption DEF Person
  <1>2. Persons[who] \in Person
    BY <1>1
  <1>3. inst.live \in {1..n : n \in 0..MaxSessions} /\ inst.external \subseteq Sessions
    BY <1>2 DEF inst, Person
  <1>4. \A n \in 0..MaxSessions : 1..n \subseteq 1..MaxSessions
    BY WebAssumption
  <1>5. QED
    BY <1>3, <1>4 DEF Sessions

LEMMA RequestInit == Init => RequestInv
  <1> SUFFICES ASSUME Init PROVE RequestInv
    OBVIOUS
  <1>1. /\ who \in DOMAIN Persons /\ inst.live \in {1..n : n \in 0..MaxSessions}
        /\ server = [s \in Sessions |-> IF s \in inst.live THEN <<Birth, Birth>> ELSE <<>>]
    BY LiveAtFirst DEF Init, Birth
  <1>2. Birth \in Effect /\ Birth.request = 0
    BY DEF Birth, Effect
  <1> HIDE DEF Birth
  <1>3. server \in [Sessions -> Seq(Effect)]
    BY <1>1, <1>2
  <1>4. /\ view = None /\ list = {} /\ detail = None /\ consent = 0
        /\ turnRetry = None /\ seedRetry = None /\ busy = {} /\ key = FALSE /\ providers = FALSE
        /\ asked = 0 /\ spent = [actions |-> 0, failures |-> 0, requests |-> 0]
    BY DEF Init
  <1>5. /\ calls \in [Slots -> Call]
        /\ \A c \in Slots : calls[c] = Waiting("refresh", "list", 0, 0) \/ calls[c] = Idle
    BY IdleIsCall, WaitingIsCall DEF Init, Calls
  <1>6. TypeOK
    BY <1>1, <1>3, <1>4, <1>5 DEF TypeOK
  <1>7. Retries /\ Counted
    BY <1>4 DEF Retries, Counted
  <1>8. Live = inst.live
    <2>1. \A s \in Sessions : server[s] # <<>> <=> s \in inst.live
      BY <1>1
    <2>2. QED
      BY <1>1, <2>1, LiveAtFirst DEF Live
  <1>9. Numbered
    BY <1>1, <1>8 DEF Numbered
  <1>10. ASSUME NEW c \in Slots
         PROVE  /\ Shaped(calls[c]) /\ KnownCall(calls[c]) /\ calls[c].request = 0
    <2>1. CASE calls[c] = Waiting("refresh", "list", 0, 0)
      BY <2>1 DEF Waiting, Shaped, Pairs, KnownCall, NoReply
    <2>2. CASE calls[c] = Idle
      BY <2>2, IdleIsCall DEF Shaped, Pairs, KnownCall, NoReply
    <2>3. QED
      BY <1>5, <2>1, <2>2
  <1>11. Known
    BY <1>4, <1>10 DEF Known, None
  <1>12. ASSUME NEW s \in Sessions, NEW i \in 2..Len(server[s])
         PROVE  server[s][i].request = 0 /\ i = 2 /\ s \in inst.live
    <2>1. CASE s \in inst.live
      <3>1. server[s] = <<Birth, Birth>>
        BY <1>1, <2>1
      <3>2. i = 2
        BY <3>1
      <3>3. QED
        BY <1>2, <2>1, <3>1, <3>2
    <2>2. CASE s \notin inst.live
      BY <1>1, <2>2
    <2>3. QED
      BY <2>1, <2>2
  <1>13. LogsOnce
    BY <1>12 DEF LogsOnce
  <1>14. OneHome
    BY <1>4, <1>10, <1>12 DEF OneHome, Carries, Recorded
  <1>15. QED
    BY <1>6, <1>7, <1>9, <1>10, <1>11, <1>13, <1>14 DEF RequestInv

LEMMA RequestStutters ==
    ASSUME RequestInv, UNCHANGED vars
    PROVE  RequestInv'
  <1>1. UNCHANGED <<who, server, key, page, calls, asked, spent>>
    BY DEF vars
  <1>2. Live' = Live /\ inst' = inst
    BY <1>1 DEF Live, inst
  <1>3. TypeOK' /\ Retries' /\ Counted'
    BY <1>1 DEF RequestInv, TypeOK, Retries, Counted, page
  <1>4. Numbered' /\ Known' /\ LogsOnce'
    BY <1>1, <1>2 DEF RequestInv, Numbered, Known, KnownCall, LogsOnce, page
  <1>5. OneHome'
    BY <1>1 DEF RequestInv, OneHome, Carries, Recorded, page
  <1>6. QED
    BY <1>1, <1>3, <1>4, <1>5 DEF RequestInv

LEMMA RequestSteps == RequestInv /\ [Next]_vars => RequestInv'
  <1> SUFFICES ASSUME RequestInv, [Next]_vars PROVE RequestInv'
    OBVIOUS
  <1>1. CASE UNCHANGED vars
    BY <1>1, RequestStutters
  <1>2. CASE Close \/ Confirm \/ Edit
    BY <1>2, CloseKeeps, ConfirmKeeps, EditKeeps
  <1>3. ASSUME NEW c \in Slots,
               \/ \E s \in Sessions : Select(c, s)
               \/ \E seed \in Seeds : Open(c, seed)
               \/ Send(c) \/ Create(c) \/ Configure(c) \/ Clear(c)
               \/ \E again \in BOOLEAN : ActOnSeed(c, again)
        PROVE  RequestInv'
    BY <1>3, SelectKeeps, OpenKeeps, SendKeeps, CreateKeeps, ChangeKeyKeeps, ActOnSeedKeeps
       DEF Configure, Clear
  <1>4. ASSUME NEW c \in Slots, Serve(c) \/ Lose(c) \/ Deliver(c)
        PROVE  RequestInv'
    BY <1>4, ServeKeeps, LoseKeeps, DeliverKeeps
  <1>5. QED
    BY <1>1, <1>2, <1>3, <1>4 DEF Next

LEMMA CountTo ==
    ASSUME NEW n \in Nat
    PROVE  IsFiniteSet(1..n) /\ Cardinality(1..n) = n
  <1>1. IsFiniteSet(1..n) /\ Cardinality(1..n) = IF 1 > n THEN 0 ELSE n - 1 + 1
    BY FS_Interval
  <1>2. QED
    BY <1>1

\* What was there at first is counted by its conversation, everything else by its request id.
LEMMA EffectsAreFew == RequestInv => OncePerRequest
  <1> SUFFICES ASSUME RequestInv PROVE OncePerRequest
    OBVIOUS
  <1>1. TypeOK /\ LogsOnce /\ OneHome /\ asked \in Nat /\ who \in DOMAIN Persons
    BY DEF RequestInv, Counted, TypeOK
  <1>2. PICK n \in 0..MaxSessions : inst.live = 1..n
    BY <1>1, LiveAtFirst
  <1>3. n \in Nat /\ n + asked \in Nat
    BY <1>1, <1>2
  <1> DEFINE Request(e) == server[e[1]][e[2]].request
             f == [e \in Effects |-> IF Request(e) = 0 THEN e[1] ELSE n + Request(e)]
  <1>4. ASSUME NEW e \in Effects
        PROVE  /\ e[1] \in Sessions /\ e[2] \in 2..Len(server[e[1]]) /\ e = <<e[1], e[2]>>
               /\ Request(e) \in Nat
               /\ Request(e) = 0 => e[1] \in 1..n /\ e[2] = 2
               /\ Request(e) # 0 => Request(e) <= asked /\ Carries(e[1], Request(e))
    <2>1. PICK s \in Sessions : \E i \in 2..Len(server[s]) : e = <<s, i>>
      BY <1>4 DEF Effects
    <2>2. PICK i \in 2..Len(server[s]) : e = <<s, i>>
      BY <2>1
    <2>3. e[1] = s /\ e[2] = i
      BY <2>2
    <2>4. server[s] \in Seq(Effect) /\ i \in 1..Len(server[s])
      BY <1>1 DEF TypeOK
    <2>5. server[s][i] \in Effect
      BY <2>4
    <2>6. server[s][i].request \in Nat
      BY <2>5 DEF Effect
    <2>7. server[s][i].request = 0 => i = 2 /\ s \in 1..n
      BY <1>1, <1>2 DEF LogsOnce
    <2>8. server[s][i].request # 0 => Carries(s, server[s][i].request)
      BY DEF Carries, Recorded
    <2>9. server[s][i].request # 0 => server[s][i].request <= asked
      BY <1>1, <2>6, <2>8 DEF OneHome
    <2>10. QED
      BY <2>2, <2>3, <2>6, <2>7, <2>8, <2>9
  <1>5. ASSUME NEW e \in Effects PROVE f[e] \in 1..(n + asked)
    BY <1>1, <1>3, <1>4, <1>5
  <1>6. ASSUME NEW a \in Effects, NEW b \in Effects, f[a] = f[b] PROVE a = b
    <2>1. CASE Request(a) = 0 /\ Request(b) = 0
      BY <1>4, <1>6, <2>1
    <2>2. CASE Request(a) # 0 /\ Request(b) # 0
      <3>1. Request(a) = Request(b)
        <4>1. n + Request(a) = n + Request(b) /\ Request(a) \in Nat /\ Request(b) \in Nat
          BY <1>4, <1>6, <2>2
        <4>2. QED
          BY <1>3, <4>1
      <3>2. Carries(a[1], Request(a)) /\ Carries(b[1], Request(a)) /\ Request(a) \in Nat \ {0}
        BY <1>4, <2>2, <3>1
      <3>3. a[1] \in Sessions /\ b[1] \in Sessions
        BY <1>4
      <3>4. a[1] = b[1]
        BY <1>1, <3>2, <3>3 DEF OneHome
      <3>5. a[2] \in 2..Len(server[a[1]]) /\ b[2] \in 2..Len(server[a[1]])
        BY <1>4, <3>4
      <3>6. a[2] = b[2]
        BY <1>1, <3>1, <3>3, <3>4, <3>5 DEF LogsOnce
      <3>7. QED
        BY <1>4, <3>4, <3>6
    <2>3. CASE ~(Request(a) = 0 <=> Request(b) = 0)
      <3>1. ASSUME NEW x \in Effects, NEW y \in Effects, Request(x) = 0, Request(y) # 0
            PROVE  f[x] # f[y]
        <4>1. f[x] <= n /\ f[x] \in Nat
          BY <1>3, <1>4, <3>1
        <4>2. f[y] = n + Request(y) /\ Request(y) \in Nat /\ Request(y) # 0
          BY <1>4, <3>1
        <4>3. QED
          BY <1>3, <4>1, <4>2
      <3>2. QED
        BY <1>6, <2>3, <3>1
    <2>4. QED
      BY <2>1, <2>2, <2>3
  <1>7. f \in Injection(Effects, 1..(n + asked))
    <2>1. f \in [Effects -> 1..(n + asked)]
      BY <1>5
    <2>2. QED
      BY <1>6, <2>1 DEF Injection, IsInjective
  <1> HIDE DEF f
  <1>8. IsFiniteSet(1..(n + asked)) /\ Cardinality(1..(n + asked)) = n + asked
    BY <1>3, CountTo
  <1>9. IsFiniteSet(Effects) /\ Cardinality(Effects) <= n + asked
    BY <1>7, <1>8, FS_Injection
  <1>10. Cardinality(inst.live) = n
    BY <1>2, <1>3, CountTo
  <1>11. Cardinality(Effects) \in Nat
    BY <1>9, FS_CardinalityType
  <1>12. QED
    BY <1>1, <1>3, <1>9, <1>10, <1>11 DEF OncePerRequest

\* Questions and actions take effect once: whatever is sent again after an error, overtaken
\* or lost, the logs of all conversations together grow by no more than what the person meant.
THEOREM RequestsTakeEffectOnce == Spec => []OncePerRequest
  <1>1. Spec => []RequestInv
    BY RequestInit, RequestSteps, PTL DEF Spec
  <1>2. QED
    BY <1>1, EffectsAreFew, PTL

-----------------------------------------------------------------------------
(* What was sent reaches what it was meant for: what waits beside what.    *)

\* OnPage, of the page after the step.
NextOnPage(call) ==
    /\ Lists(call) => view'.id = 0 /\ list' = {} /\ detail' = None /\ consent' = 0
    /\ Loads(call) => "loading" \in busy' /\ detail' = None /\ consent' = 0
    /\ call.kind \in {"send", "act"} \/ (call.kind = "provider" /\ call.id # 0) \/ Shows(call)
          => call.id = view'.id
    /\ call.step = "action" => call.meant = call.id
    /\ call.step = "turn" => /\ call.meant \in {0, call.id}
                             /\ call.id \in inst'.external => call.meant = call.id

LEMMA FadesBeside ==
    ASSUME NEW a, NEW b, NEW a0, NEW b0, Fades(a, a0), Fades(b, b0), Beside(a0, b0)
    PROVE  Beside(a, b)
  BY DEF Fades, Beside, Lists, Loads, Shows

LEMMA WhoWaits ==
    ASSUME Patient, NEW kind, Ready(kind), NEW d \in Slots
    PROVE  \/ calls[d].kind \in {"idle", "open"}
           \/ kind \in {"select", "close", "send"} /\ calls[d].kind \in {"refresh", "select"}
           \/ kind \in {"open", "close"} /\ calls[d].kind = "send"
  <1>1. CASE calls[d].kind \in {"idle", "open"}
    BY <1>1
  <1>2. CASE <<kind, calls[d].kind>> \in inst.impatient
    <2>1. \/ <<kind, calls[d].kind>> \in {"select", "close", "send"} \X {"refresh", "select"}
          \/ <<kind, calls[d].kind>> \in {"open", "close"} \X {"send"}
      BY <1>2 DEF Patient
    <2>2. QED
      BY <2>1
  <1>3. QED
    BY <1>1, <1>2 DEF Ready

\* What stays true of a call when the page changes beside it.
LEMMA StaysOnPage ==
    ASSUME NEW new, NEW old, Fades(new, old), OnPage(old), UNCHANGED who,
           new.kind \in {"send", "act", "provider"} \/ Shows(new) => view'.id = view.id,
           Lists(new) => /\ view'.id = view.id /\ list' = list
                         /\ detail' \in {None, detail} /\ consent' \in {0, consent},
           Loads(new) => /\ "loading" \in busy => "loading" \in busy'
                         /\ detail' \in {None, detail} /\ consent' \in {0, consent}
    PROVE  NextOnPage(new)
  <1>1. inst' = inst
    BY DEF inst
  <1>2. new.kind = old.kind /\ new.step = old.step /\ new.id = old.id /\ new.meant = old.meant
    BY DEF Fades
  <1>3. /\ Lists(new) => Lists(old)
        /\ Loads(new) => Loads(old)
        /\ Shows(new) => Shows(old)
    BY DEF Fades, Lists, Loads, Shows
  <1>4. QED
    BY <1>1, <1>2, <1>3 DEF OnPage, NextOnPage

LEMMA TogetherStep ==
    ASSUME Together, NEW c, Moves(c), NextOnPage(calls'[c]),
           \A d \in Slots \ {c} : /\ NextOnPage(calls'[d])
                                  /\ Beside(calls'[c], calls'[d])
                                  /\ Beside(calls'[d], calls'[c]),
           detail' # None => detail'.id = view'.id,
           consent' # 0 => consent' = view'.id
    PROVE  Together'
  <1>1. ASSUME NEW d \in Slots PROVE OnPage(calls[d])'
    <2>1. NextOnPage(calls'[d])
      BY DEF Moves
    <2>2. QED
      BY <2>1 DEF OnPage, NextOnPage, Lists, Loads, Shows
  <1>2. ASSUME NEW d \in Slots, NEW e \in Slots \ {d} PROVE Beside(calls'[d], calls'[e])
    <2>1. CASE d = c
      BY <2>1
    <2>2. CASE e = c
      BY <2>2
    <2>3. CASE d # c /\ e # c
      <3>1. Fades(calls'[d], calls[d]) /\ Fades(calls'[e], calls[e])
        BY <2>3 DEF Moves
      <3>2. Beside(calls[d], calls[e])
        BY DEF Together
      <3>3. QED
        BY <3>1, <3>2, FadesBeside
    <2>4. QED
      BY <2>1, <2>2, <2>3
  <1>3. QED
    BY <1>1, <1>2 DEF Together

\* A call that ended is in nobody's way.
LEMMA IdleBeside ==
    /\ \A b : Beside(Idle, b) /\ Beside(b, Idle)
    /\ NextOnPage(Idle)
  BY IdleIsCall DEF Beside, NextOnPage, Lists, Loads, Shows

LEMMA EndsTogether ==
    ASSUME Together, NEW c, Ends(c),
           \A d \in Slots \ {c} : NextOnPage(calls'[d]),
           detail' # None => detail'.id = view'.id,
           consent' # 0 => consent' = view'.id
    PROVE  Together'
  BY IdleBeside, TogetherStep DEF Ends

\* A call that goes on is of the same kind.
LEMMA ContinuesTogether ==
    ASSUME RequestInv, Together, NEW c, NEW step \in {"list", "get", "seed"},
           Continues(c, step), UNCHANGED who,
           calls[c].kind \in {"send", "act", "create", "provider"},
           step = "seed" => calls[c].kind \in {"send", "act"},
           calls[c].kind # "create" => view'.id = view.id,
           \A d \in Slots \ {c} : NextOnPage(calls'[d]),
           detail' # None => detail'.id = view'.id,
           consent' # 0 => consent' = view'.id
    PROVE  Together'
  <1>1. c \in Slots /\ Moves(c) /\ OnPage(calls[c])
    BY DEF Continues, Moves, Together
  <1>2. /\ calls'[c].kind = calls[c].kind /\ calls'[c].step = step /\ calls'[c].id = calls[c].id
    BY DEF Continues, Asks
  <1>3. NextOnPage(calls'[c])
    <2>1. ~Lists(calls'[c]) /\ ~Loads(calls'[c]) /\ (Shows(calls'[c]) => step = "seed")
      BY <1>2 DEF Lists, Loads, Shows
    <2>2. QED
      BY <1>1, <1>2, <2>1 DEF OnPage, NextOnPage
  <1>4. ASSUME NEW d \in Slots \ {c}
        PROVE  Beside(calls'[c], calls'[d]) /\ Beside(calls'[d], calls'[c])
    <2>1. Fades(calls'[d], calls[d])
      BY <1>1 DEF Moves
    <2>2. Beside(calls[c], calls[d]) /\ Beside(calls[d], calls[c])
      BY <1>1 DEF Together
    <2>3. Beside(calls'[c], calls'[d])
      BY <1>2, <2>1, <2>2 DEF Fades, Beside, Lists, Loads, Shows
    <2>4. Beside(calls'[d], calls'[c])
      BY <1>2, <2>1, <2>2 DEF Fades, Beside, Lists, Loads, Shows
    <2>5. QED
      BY <2>3, <2>4
  <1>5. QED
    BY <1>1, <1>3, <1>4, TogetherStep

\* The server and the network change neither what calls are about nor the page.
LEMMA ReturnsTogether ==
    ASSUME Together, NEW c, NEW phase, Returns(c, phase), UNCHANGED <<who, page>>
    PROVE  Together'
  <1>1. inst' = inst /\ UNCHANGED <<view, list, detail, consent, busy>>
    BY DEF inst, page
  <1>2. ASSUME NEW d \in Slots
        PROVE  /\ calls'[d].kind = calls[d].kind /\ calls'[d].step = calls[d].step
               /\ calls'[d].id = calls[d].id /\ calls'[d].meant = calls[d].meant
               /\ calls'[d].fresh = calls[d].fresh
    <2>1. CASE d = c
      BY <2>1 DEF Returns
    <2>2. CASE d # c
      BY <2>2 DEF Returns
    <2>3. QED
      BY <2>1, <2>2
  <1>3. ASSUME NEW d \in Slots PROVE OnPage(calls[d])'
    <2>1. OnPage(calls[d])
      BY DEF Together
    <2>2. QED
      BY <1>1, <1>2, <2>1 DEF OnPage, Lists, Loads, Shows
  <1>4. ASSUME NEW d \in Slots, NEW e \in Slots \ {d} PROVE Beside(calls'[d], calls'[e])
    <2>1. Beside(calls[d], calls[e])
      BY DEF Together
    <2>2. QED
      BY <1>2, <2>1 DEF Beside, Lists, Loads, Shows
  <1>5. QED
    BY <1>1, <1>3, <1>4 DEF Together

LEMMA SelectTogether ==
    ASSUME RequestInv, Patient, Together, NEW c \in Slots, NEW s \in Sessions, Select(c, s)
    PROVE  Together'
  <1>1. /\ Begins(c, "select", "get", s, 0, 0, 0)
        /\ \A d \in Slots \ {c} : ~Loads(calls'[d]) /\ ~Shows(calls'[d])
    BY SelectCalls
  <1>2. /\ Ready("select") /\ s \in list /\ detail' = None /\ consent' = 0
        /\ busy' = busy \cup {"loading"} /\ UNCHANGED <<who, view, list>>
    BY DEF Select, Act, ClearDetail, ClearConsent
  <1>3. Moves(c) /\ calls'[c].kind = "select" /\ calls'[c].step = "get"
    BY <1>1 DEF Begins, Asks
  <1>4. NextOnPage(calls'[c])
    BY <1>2, <1>3 DEF NextOnPage, Lists, Loads, Shows
  <1>5. ASSUME NEW d \in Slots \ {c}
        PROVE  /\ NextOnPage(calls'[d])
               /\ Beside(calls'[c], calls'[d]) /\ Beside(calls'[d], calls'[c])
    <2>1. Fades(calls'[d], calls[d]) /\ OnPage(calls[d])
      BY <1>3 DEF Moves, Together
    <2>2. calls[d].kind \in {"idle", "open", "refresh", "select"}
      BY <1>2, WhoWaits
    <2>3. ~Lists(calls'[d]) /\ calls'[d].kind = calls[d].kind
      BY <1>2, <2>1 DEF Lists, Fades, OnPage
    <2>4. NextOnPage(calls'[d])
      BY <1>2, <2>1, StaysOnPage
    <2>5. Beside(calls'[c], calls'[d]) /\ Beside(calls'[d], calls'[c])
      BY <1>1, <1>3, <2>2, <2>3 DEF Beside, Lists
    <2>6. QED
      BY <2>4, <2>5
  <1>6. QED
    BY <1>2, <1>3, <1>4, <1>5, TogetherStep

LEMMA OpenTogether ==
    ASSUME RequestInv, Patient, Together, NEW c \in Slots, NEW seed \in Seeds, Open(c, seed)
    PROVE  Together'
  <1>1. /\ Begins(c, "open", "seed", view.id, seed, 0, 0)
        /\ \A d \in Slots \ {c} : ~Shows(calls'[d])
    BY OpenCalls
  <1>2. /\ Ready("open") /\ UNCHANGED <<who, view, list, detail, consent, busy>>
    BY DEF Open, Act, page
  <1>3. /\ Moves(c) /\ calls'[c].kind = "open" /\ calls'[c].step = "seed"
        /\ calls'[c].id = view.id
    BY <1>1 DEF Begins, Asks
  <1>4. NextOnPage(calls'[c])
    BY <1>2, <1>3 DEF NextOnPage, Lists, Loads, Shows
  <1>5. ASSUME NEW d \in Slots \ {c}
        PROVE  /\ NextOnPage(calls'[d])
               /\ Beside(calls'[c], calls'[d]) /\ Beside(calls'[d], calls'[c])
    <2>1. Fades(calls'[d], calls[d]) /\ OnPage(calls[d])
      BY <1>3 DEF Moves, Together
    <2>2. calls[d].kind \in {"idle", "open", "send"} /\ calls'[d].kind = calls[d].kind
      BY <1>2, <2>1, WhoWaits DEF Fades
    <2>3. NextOnPage(calls'[d])
      BY <1>2, <2>1, StaysOnPage
    <2>4. Beside(calls'[c], calls'[d]) /\ Beside(calls'[d], calls'[c])
      BY <1>3, <2>2 DEF Beside, Lists, Loads
    <2>5. QED
      BY <2>3, <2>4
  <1>6. QED
    BY <1>2, <1>3, <1>4, <1>5, TogetherStep DEF Together

\* Steps of the person that change no call but its freshness.
LEMMA QuietTogether ==
    ASSUME Together, calls' \in [Slots -> Call],
           \A d \in Slots : Fades(calls'[d], calls[d]) /\ NextOnPage(calls'[d]),
           detail' # None => detail'.id = view'.id,
           consent' # 0 => consent' = view'.id
    PROVE  Together'
  <1>1. ASSUME NEW d \in Slots PROVE OnPage(calls[d])'
    BY DEF OnPage, NextOnPage, Lists, Loads, Shows
  <1>2. ASSUME NEW d \in Slots, NEW e \in Slots \ {d} PROVE Beside(calls'[d], calls'[e])
    BY FadesBeside DEF Together
  <1>3. QED
    BY <1>1, <1>2 DEF Together

LEMMA CloseTogether ==
    ASSUME RequestInv, Patient, Together, Close
    PROVE  Together'
  <1>1. /\ calls' \in [Slots -> Call] /\ \A d \in Slots : Fades(calls'[d], calls[d])
        /\ detail' = None /\ UNCHANGED <<who, view, list, consent, busy>>
    BY CloseCalls DEF Close
  <1>2. \A d \in Slots : NextOnPage(calls'[d])
    BY <1>1, StaysOnPage DEF Together
  <1>3. QED
    BY <1>1, <1>2, QuietTogether DEF Together

LEMMA ConfirmTogether ==
    ASSUME RequestInv, Patient, Together, Confirm
    PROVE  Together'
  <1>1. /\ Ready("confirm") /\ consent' = view.id
        /\ UNCHANGED <<who, view, list, detail, busy, calls>>
    BY DEF Confirm, Act
  <1>2. calls' \in [Slots -> Call] /\ \A d \in Slots : Fades(calls'[d], calls[d])
    BY <1>1, FadesAll DEF RequestInv, TypeOK
  <1>3. ASSUME NEW d \in Slots PROVE NextOnPage(calls'[d])
    <2>1. calls[d].kind \in {"idle", "open"} /\ OnPage(calls[d])
      BY <1>1, WhoWaits DEF Together
    <2>2. ~Lists(calls'[d]) /\ ~Loads(calls'[d])
      BY <1>1, <2>1 DEF Lists, Loads
    <2>3. QED
      BY <1>1, <1>2, <2>1, <2>2, StaysOnPage
  <1>4. QED
    BY <1>1, <1>2, <1>3, QuietTogether DEF Together

LEMMA EditTogether ==
    ASSUME RequestInv, Patient, Together, Edit
    PROVE  Together'
  <1>1. UNCHANGED <<who, view, list, detail, consent, busy, calls>>
    BY DEF Edit
  <1>2. calls' \in [Slots -> Call] /\ \A d \in Slots : Fades(calls'[d], calls[d])
    BY <1>1, FadesAll DEF RequestInv, TypeOK
  <1>3. \A d \in Slots : NextOnPage(calls'[d])
    BY <1>1, <1>2, StaysOnPage DEF Together
  <1>4. QED
    BY <1>1, <1>2, <1>3, QuietTogether DEF Together

LEMMA SendTogether ==
    ASSUME RequestInv, Patient, Together, NEW c \in Slots, Send(c)
    PROVE  Together'
  <1>1. Begins(c, "send", "turn", view.id, SendSeed, SendMeant, TurnRequest)
    BY SendCalls
  <1>2. /\ Ready("send") /\ view # None /\ MaySend /\ busy' = busy \cup {"sending"}
        /\ UNCHANGED <<who, view, list, detail, consent>>
    BY DEF Send
  <1>3. /\ Moves(c) /\ calls'[c].kind = "send" /\ calls'[c].step = "turn"
        /\ calls'[c].id = view.id /\ calls'[c].meant = SendMeant
    BY <1>1 DEF Begins, Asks
  <1>4. view.id # 0 /\ "loading" \notin busy /\ (view.id \in inst.external => consent # 0)
    BY <1>2, ViewId DEF MaySend, RequestInv
  <1>5. NextOnPage(calls'[c])
    <2>1. inst' = inst /\ (consent # 0 => consent = view.id)
      BY <1>2 DEF inst, Together
    <2>2. SendMeant \in {0, view.id} /\ (view.id \in inst.external => SendMeant = view.id)
      BY <1>4, <2>1 DEF SendMeant
    <2>3. QED
      BY <1>2, <1>3, <2>1, <2>2 DEF NextOnPage, Lists, Loads, Shows
  <1>6. ASSUME NEW d \in Slots \ {c}
        PROVE  /\ NextOnPage(calls'[d])
               /\ Beside(calls'[c], calls'[d]) /\ Beside(calls'[d], calls'[c])
    <2>1. Fades(calls'[d], calls[d]) /\ OnPage(calls[d])
      BY <1>3 DEF Moves, Together
    <2>2. /\ calls[d].kind \in {"idle", "open", "refresh", "select"}
          /\ calls'[d].kind = calls[d].kind
      BY <1>2, <2>1, WhoWaits DEF Fades
    <2>3. ~Lists(calls'[d]) /\ ~Loads(calls'[d])
      BY <1>4, <2>1 DEF Lists, Loads, Fades, OnPage
    <2>4. NextOnPage(calls'[d])
      BY <1>2, <2>1, StaysOnPage
    <2>5. Beside(calls'[c], calls'[d]) /\ Beside(calls'[d], calls'[c])
      BY <1>3, <2>2, <2>3 DEF Beside, Lists, Loads
    <2>6. QED
      BY <2>4, <2>5
  <1>7. QED
    BY <1>2, <1>3, <1>5, <1>6, TogetherStep DEF Together

\* Handlers that begin only when nothing but a seed is waited for.
LEMMA AloneTogether ==
    ASSUME Patient, Together, NEW c, NEW kind \in {"create", "act", "provider"}, Ready(kind),
           NEW step, NEW id, NEW seed, NEW meant, NEW request,
           Begins(c, kind, step, id, seed, meant, request), step \notin {"seed", "turn"},
           kind \in {"act", "provider"} => id = view.id,
           step = "action" => meant = id,
           UNCHANGED <<who, view, list, detail, consent>>, busy \subseteq busy'
    PROVE  Together'
  <1>1. /\ Moves(c) /\ calls'[c].kind = kind /\ calls'[c].step = step
        /\ calls'[c].id = id /\ calls'[c].meant = meant
    BY DEF Begins, Asks
  <1>2. NextOnPage(calls'[c])
    BY <1>1 DEF NextOnPage, Lists, Loads, Shows
  <1>3. ASSUME NEW d \in Slots \ {c}
        PROVE  /\ NextOnPage(calls'[d])
               /\ Beside(calls'[c], calls'[d]) /\ Beside(calls'[d], calls'[c])
    <2>1. Fades(calls'[d], calls[d]) /\ OnPage(calls[d])
      BY <1>1 DEF Moves, Together
    <2>2. calls[d].kind \in {"idle", "open"} /\ calls'[d].kind = calls[d].kind
      BY <2>1, WhoWaits DEF Fades
    <2>3. NextOnPage(calls'[d])
      BY <2>1, StaysOnPage
    <2>4. Beside(calls'[c], calls'[d]) /\ Beside(calls'[d], calls'[c])
      BY <1>1, <2>2 DEF Beside, Lists, Loads
    <2>5. QED
      BY <2>3, <2>4
  <1>4. QED
    BY <1>1, <1>2, <1>3, TogetherStep DEF Together

LEMMA CreateTogether ==
    ASSUME RequestInv, Patient, Together, NEW c \in Slots, Create(c)
    PROVE  Together'
  <1>1. /\ Ready("create") /\ busy' = busy \cup {"creating"}
        /\ UNCHANGED <<who, view, list, detail, consent>>
    BY DEF Create, Act
  <1>2. QED
    BY <1>1, CreateCalls, AloneTogether

LEMMA ActOnSeedTogether ==
    ASSUME RequestInv, Patient, Together, NEW c \in Slots, NEW again \in BOOLEAN,
           ActOnSeed(c, again)
    PROVE  Together'
  <1>1. /\ Ready("act") /\ busy' = busy \cup {"acting"}
        /\ UNCHANGED <<who, view, list, detail, consent>>
    BY DEF ActOnSeed
  <1>2. detail # None /\ detail.id = view.id
    BY ActOnSeedCalls DEF Together
  <1>3. Begins(c, "act", "action", view.id, detail.seed, detail.id, ActRequest(again))
    BY ActOnSeedCalls
  <1>4. QED
    BY <1>1, <1>2, <1>3, AloneTogether

LEMMA ChangeKeyTogether ==
    ASSUME RequestInv, Patient, Together, NEW c \in Slots,
           NEW step \in {"credential", "clear"}, ChangeKey(c, step)
    PROVE  Together'
  <1>1. /\ Ready("provider") /\ busy' = busy \cup {"provider"}
        /\ UNCHANGED <<who, view, list, detail, consent>>
    BY DEF ChangeKey, Act
  <1>2. QED
    BY <1>1, ChangeKeyCalls, AloneTogether

\* Beside a pending call of c, another one is not about to change what is shown.
LEMMA NothingLoads ==
    ASSUME Together, NEW c \in Slots, NEW d \in Slots \ {c}, NEW new, Fades(new, calls[d])
    PROVE  /\ calls[c].kind # "idle" => ~Lists(new)
           /\ calls[c].kind \in {"send", "act", "create", "provider"} => ~Loads(new)
           /\ Loads(calls[c]) => ~Loads(new) /\ ~Shows(new)
           /\ Shows(calls[c]) => ~Loads(new)
           /\ calls[c].kind \in {"act", "create", "provider"}
                => new.kind \notin {"send", "act", "provider"}
           /\ Loads(calls[c]) \/ Lists(calls[c])
                => new.kind \notin {"send", "act", "create", "provider"}
           /\ new.kind = "send" \/ new.kind = "act"
                => calls[c].kind \notin {"act", "create", "provider", "send"}
  <1>1. Beside(calls[c], calls[d]) /\ Beside(calls[d], calls[c])
    BY DEF Together
  <1>2. QED
    BY <1>1 DEF Fades, Beside, Lists, Loads, Shows

LEMMA ListedTogether ==
    ASSUME RequestInv, Patient, Together, NEW c \in Slots, Listed(c)
    PROVE  Together'
  <1>1. /\ Lists(calls[c]) /\ UNCHANGED <<who, detail, consent>>
    BY DEF Listed, Got, Lists
  <1>2. /\ view.id = 0 /\ list = {} /\ detail = None /\ consent = 0
        /\ \A d \in Slots \ {c} : calls[d].kind = "idle"
    BY <1>1 DEF Together, OnPage, Beside
  <1>3. ASSUME NEW d \in Slots \ {c}, Moves(c)
        PROVE  /\ NextOnPage(calls'[d]) /\ calls'[d].kind = "idle"
               /\ ~Lists(calls'[d]) /\ ~Loads(calls'[d]) /\ ~Shows(calls'[d])
    <2>1. Fades(calls'[d], calls[d]) /\ calls[d].kind = "idle" /\ Shaped(calls[d])
      BY <1>2, <1>3 DEF Moves, RequestInv
    <2>2. calls'[d].kind = "idle" /\ calls'[d].step = "none"
      BY <2>1 DEF Fades, Shaped, Pairs
    <2>3. QED
      BY <2>2 DEF NextOnPage, Lists, Loads, Shows
  <1>4. CASE /\ busy' = busy \cup {"loading"} /\ UNCHANGED view
             /\ \E first \in calls[c].reply.ids :
                   /\ Moves(c) /\ Asks(calls'[c], "refresh", "get", first, 0)
                   /\ calls'[c].meant = 0 /\ calls'[c].request = 0
    <2>1. /\ Moves(c) /\ calls'[c].kind = "refresh" /\ calls'[c].step = "get"
      BY <1>4 DEF Asks
    <2>2. NextOnPage(calls'[c])
      BY <1>1, <1>2, <1>4, <2>1 DEF NextOnPage, Lists, Loads, Shows
    <2>3. ASSUME NEW d \in Slots \ {c}
          PROVE  /\ NextOnPage(calls'[d])
                 /\ Beside(calls'[c], calls'[d]) /\ Beside(calls'[d], calls'[c])
      BY <1>3, <2>1 DEF Beside, Lists
    <2>4. QED
      BY <1>1, <1>2, <2>1, <2>2, <2>3, TogetherStep
  <1>5. CASE Ends(c)
    <2>1. \A d \in Slots \ {c} : NextOnPage(calls'[d])
      BY <1>3, <1>5 DEF Ends
    <2>2. QED
      BY <1>1, <1>2, <1>5, <2>1, EndsTogether
  <1>6. QED
    BY <1>4, <1>5, ListedCalls

LEMMA LoadedTogether ==
    ASSUME RequestInv, Patient, Together, NEW c \in Slots, Loaded(c)
    PROVE  Together'
  <1>1. /\ Ends(c) /\ calls[c].kind \in {"refresh", "select"} /\ calls[c].step = "get"
        /\ UNCHANGED <<who, list, detail, consent>>
        /\ IF calls[c].fresh THEN busy' = busy \ {"loading"} ELSE UNCHANGED <<view, busy>>
    BY TheseEnd DEF Loaded, Got
  <1>2. CASE calls[c].fresh
    <2>1. Loads(calls[c]) /\ OnPage(calls[c])
      BY <1>1, <1>2 DEF Loads, Together
    <2>2. detail' = None /\ consent' = 0
      BY <1>1, <2>1 DEF OnPage
    <2>3. ASSUME NEW d \in Slots \ {c} PROVE NextOnPage(calls'[d])
      <3>1. Fades(calls'[d], calls[d]) /\ OnPage(calls[d])
        BY <1>1 DEF Ends, Moves, Together
      <3>2. /\ ~Lists(calls'[d]) /\ ~Loads(calls'[d]) /\ ~Shows(calls'[d])
            /\ calls'[d].kind \notin {"send", "act", "provider"}
        BY <1>1, <2>1, <3>1, NothingLoads
      <3>3. QED
        BY <1>1, <3>1, <3>2, StaysOnPage
    <2>4. QED
      BY <1>1, <2>2, <2>3, EndsTogether
  <1>3. CASE ~calls[c].fresh
    <2>1. ASSUME NEW d \in Slots \ {c} PROVE NextOnPage(calls'[d])
      <3>1. Fades(calls'[d], calls[d]) /\ OnPage(calls[d])
        BY <1>1 DEF Ends, Moves, Together
      <3>2. QED
        BY <1>1, <1>3, <3>1, StaysOnPage
    <2>2. QED
      BY <1>1, <1>3, <2>1, EndsTogether DEF Together
  <1>4. QED
    BY <1>2, <1>3

\* A call ends that changes neither the conversation shown nor its seed.
LEMMA EndsPlainly ==
    ASSUME Together, NEW c \in Slots, Ends(c), UNCHANGED <<who, view, detail, consent>>,
           calls[c].kind # "idle",
           "loading" \in busy => "loading" \in busy' \/ Loads(calls[c])
    PROVE  Together'
  <1>1. ASSUME NEW d \in Slots \ {c} PROVE NextOnPage(calls'[d])
    <2>1. Fades(calls'[d], calls[d]) /\ OnPage(calls[d])
      BY DEF Ends, Moves, Together
    <2>2. ~Lists(calls'[d]) /\ (Loads(calls[c]) => ~Loads(calls'[d]))
      BY <2>1, NothingLoads
    <2>3. QED
      BY <2>1, <2>2, StaysOnPage
  <1>2. QED
    BY <1>1, EndsTogether DEF Together

LEMMA PlainEndsTogether ==
    ASSUME RequestInv, Patient, Together, NEW c \in Slots,
           \/ NotLoaded(c) \/ NotSent(c) \/ ListRefreshed(c)
           \/ NotCreated(c) \/ NotActed(c) \/ NotConfigured(c)
    PROVE  Together'
  <1>1. Ends(c)
    BY TheseEnd
  <1>2. UNCHANGED <<who, view, detail, consent>> /\ calls[c].kind # "idle"
    BY DEF NotLoaded, NotSent, ListRefreshed, NotCreated, NotActed, NotConfigured, Unshown,
           Got, Lost
  <1>3. CASE NotLoaded(c)
    <2>1. "loading" \in busy => "loading" \in busy' \/ Loads(calls[c])
      BY <1>3 DEF NotLoaded, Lost, Loads
    <2>2. QED
      BY <1>1, <1>2, <2>1, EndsPlainly
  <1>4. CASE NotSent(c) \/ ListRefreshed(c) \/ NotCreated(c) \/ NotActed(c) \/ NotConfigured(c)
    <2>1. \E flag \in {"sending", "creating", "acting", "provider"} : busy' = busy \ {flag}
      BY <1>4 DEF NotSent, ListRefreshed, NotCreated, NotActed, NotConfigured
    <2>2. "loading" \in busy => "loading" \in busy'
      BY <2>1
    <2>3. QED
      BY <1>1, <1>2, <2>2, EndsPlainly
  <1>5. QED
    BY <1>3, <1>4

\* A seed is shown: of the conversation shown, while no other is about to be.
LEMMA ShowsSeedOfView ==
    ASSUME RequestInv, Together, NEW c \in Slots, calls[c].step = "seed",
           \/ ShowSeed(c) \/ UNCHANGED detail
           \/ detail' = IF calls[c].fresh THEN None ELSE detail
    PROVE  /\ detail' # None => detail'.id = view.id
           /\ \A d \in Slots \ {c} : \A new : Fades(new, calls[d]) =>
                 /\ ~Lists(new)
                 /\ Loads(new) => detail' \in {None, detail}
  <1>1. calls[c].kind # "idle" /\ OnPage(calls[c])
    BY CallFacts DEF Shaped, Pairs, Together
  <1>2. calls[c].fresh => Shows(calls[c]) /\ calls[c].id = view.id
    BY <1>1 DEF Shows, OnPage
  <1>3. detail # None => detail.id = view.id
    BY DEF Together
  <1>4. IF calls[c].fresh THEN detail' \in {None, detail} \/ detail'.id = calls[c].id
                          ELSE detail' = detail
    BY ShownSeed
  <1>5. QED
    BY <1>1, <1>2, <1>3, <1>4, NothingLoads

LEMMA OpenedTogether ==
    ASSUME RequestInv, Patient, Together, NEW c \in Slots, Opened(c)
    PROVE  Together'
  <1>1. /\ Ends(c) /\ calls[c].step = "seed" /\ (ShowSeed(c) \/ UNCHANGED detail)
        /\ UNCHANGED <<who, view, list, consent, busy>>
    BY TheseEnd DEF Opened, Got, Lost
  <1>2. ASSUME NEW d \in Slots \ {c} PROVE NextOnPage(calls'[d])
    <2>1. Fades(calls'[d], calls[d]) /\ OnPage(calls[d])
      BY <1>1 DEF Ends, Moves, Together
    <2>2. ~Lists(calls'[d]) /\ (Loads(calls'[d]) => detail' \in {None, detail})
      BY <1>1, <2>1, ShowsSeedOfView
    <2>3. QED
      BY <1>1, <2>1, <2>2, StaysOnPage
  <1>3. detail' # None => detail'.id = view'.id
    BY <1>1, ShowsSeedOfView
  <1>4. QED
    BY <1>1, <1>2, <1>3, EndsTogether DEF Together

\* A call goes on while the conversation shown stays the same.
LEMMA GoesOnPlainly ==
    ASSUME RequestInv, Together, NEW c \in Slots, NEW step \in {"list", "get", "seed"},
           Continues(c, step), calls[c].kind \in {"send", "act", "provider"},
           step = "seed" => calls[c].kind \in {"send", "act"},
           UNCHANGED <<who, busy>>, view'.id = view.id, consent' \in {0, consent},
           detail' # None => detail'.id = view.id,
           \A d \in Slots \ {c} : Loads(calls'[d]) => detail' \in {None, detail}
    PROVE  Together'
  <1>1. ASSUME NEW d \in Slots \ {c} PROVE NextOnPage(calls'[d])
    <2>1. Fades(calls'[d], calls[d]) /\ OnPage(calls[d])
      BY DEF Continues, Moves, Together
    <2>2. ~Lists(calls'[d])
      BY <2>1, NothingLoads
    <2>3. QED
      BY <2>1, <2>2, StaysOnPage
  <1>2. QED
    BY <1>1, ContinuesTogether DEF Together

LEMMA SentTogether ==
    ASSUME RequestInv, Patient, Together, NEW c \in Slots, Sent(c)
    PROVE  Together'
  <1>1. /\ calls[c].kind = "send" /\ calls[c].step = "turn" /\ calls[c].phase = "answered"
        /\ view' = ViewOf(calls[c].reply) /\ UNCHANGED <<who, detail, busy>>
    BY DEF Sent, Got
  <1>2. view'.id = view.id
    BY <1>1, AnsweredView DEF Together, OnPage
  <1>3. detail' # None => detail'.id = view.id
    BY <1>1 DEF Together
  <1>4. CASE Continues(c, "seed") /\ UNCHANGED <<turnRetry, consent>>
    BY <1>1, <1>2, <1>3, <1>4, GoesOnPlainly
  <1>5. CASE Continues(c, "list") /\ UseConsent(c)
    BY <1>1, <1>2, <1>3, <1>5, GoesOnPlainly DEF UseConsent
  <1>6. QED
    BY <1>4, <1>5, SentCalls

LEMMA RefreshedTogether ==
    ASSUME RequestInv, Patient, Together, NEW c \in Slots, Refreshed(c)
    PROVE  Together'
  <1>1. /\ calls[c].step = "seed" /\ UNCHANGED <<who, view, list>>
        /\ ShowSeed(c) \/ detail' = IF calls[c].fresh THEN None ELSE detail
    BY DEF Refreshed, Got, Lost
  <1>2. /\ detail' # None => detail'.id = view.id
        /\ \A d \in Slots \ {c} : \A new : Fades(new, calls[d]) =>
                 /\ ~Lists(new)
                 /\ Loads(new) => detail' \in {None, detail}
    BY <1>1, ShowsSeedOfView
  <1>3. CASE calls[c].kind = "send" /\ Continues(c, "list") /\ UseConsent(c) /\ UNCHANGED busy
    <2>1. \A d \in Slots \ {c} : Loads(calls'[d]) => detail' \in {None, detail}
      BY <1>2, <1>3 DEF Continues, Moves
    <2>2. QED
      BY <1>1, <1>2, <1>3, <2>1, GoesOnPlainly DEF UseConsent
  <1>4. CASE /\ calls[c].kind = "act" /\ Ends(c) /\ busy' = busy \ {"acting"}
             /\ UNCHANGED consent
    <2>1. ASSUME NEW d \in Slots \ {c} PROVE NextOnPage(calls'[d])
      <3>1. Fades(calls'[d], calls[d]) /\ OnPage(calls[d])
        BY <1>4 DEF Ends, Moves, Together
      <3>2. ~Lists(calls'[d]) /\ (Loads(calls'[d]) => detail' \in {None, detail})
        BY <1>2, <3>1
      <3>3. "loading" \in busy => "loading" \in busy'
        BY <1>4
      <3>4. QED
        BY <1>1, <1>4, <3>1, <3>2, <3>3, StaysOnPage
    <2>2. QED
      BY <1>1, <1>2, <1>4, <2>1, EndsTogether DEF Together
  <1>5. QED
    BY <1>3, <1>4, RefreshedCalls

LEMMA CreatedTogether ==
    ASSUME RequestInv, Patient, Together, NEW c \in Slots, Created(c)
    PROVE  Together'
  <1>1. /\ calls[c].kind = "create" /\ detail' = None /\ consent' = 0 /\ UNCHANGED who
    BY DEF Created, Got
  <1>2. /\ Continues(c, "list")
        /\ \A d \in Slots \ {c} : ~Loads(calls'[d]) /\ ~Shows(calls'[d])
    BY CreatedCalls
  <1>3. ASSUME NEW d \in Slots \ {c} PROVE NextOnPage(calls'[d])
    <2>1. Fades(calls'[d], calls[d]) /\ OnPage(calls[d])
      BY <1>2 DEF Continues, Moves, Together
    <2>2. ~Lists(calls'[d]) /\ calls'[d].kind \notin {"send", "act", "provider"}
      BY <1>1, <2>1, NothingLoads
    <2>3. QED
      BY <1>1, <1>2, <2>1, <2>2, StaysOnPage
  <1>4. QED
    BY <1>1, <1>2, <1>3, ContinuesTogether

LEMMA ActedTogether ==
    ASSUME RequestInv, Patient, Together, NEW c \in Slots, Acted(c)
    PROVE  Together'
  <1>1. /\ calls[c].kind = "act" /\ calls[c].step = "action" /\ calls[c].phase = "answered"
        /\ view' = ViewOf(calls[c].reply) /\ UNCHANGED <<who, detail, consent, busy>>
    BY DEF Acted, Got
  <1>2. view'.id = view.id
    BY <1>1, AnsweredView DEF Together, OnPage
  <1>3. detail' # None => detail'.id = view.id
    BY <1>1 DEF Together
  <1>4. QED
    BY <1>1, <1>2, <1>3, ActedCalls, GoesOnPlainly

LEMMA ConfiguredTogether ==
    ASSUME RequestInv, Patient, Together, NEW c \in Slots, Configured(c)
    PROVE  Together'
  <1>1. /\ UNCHANGED <<who, detail, consent>>
        /\ calls[c].kind = "provider" /\ calls[c].phase = "answered"
    BY ConfiguredCalls DEF Configured, Got
  <1>2. detail' # None => detail'.id = view.id
    BY <1>1 DEF Together
  <1>3. CASE (Continues(c, "list") \/ Continues(c, "get")) /\ UNCHANGED <<view, busy>>
    BY <1>1, <1>2, <1>3, GoesOnPlainly
  <1>4. CASE Ends(c) /\ busy' = busy \ {"provider"} /\ view'.id = view.id
    <2>1. ASSUME NEW d \in Slots \ {c} PROVE NextOnPage(calls'[d])
      <3>1. Fades(calls'[d], calls[d]) /\ OnPage(calls[d])
        BY <1>4 DEF Ends, Moves, Together
      <3>2. ~Lists(calls'[d])
        BY <1>1, <3>1, NothingLoads
      <3>3. "loading" \in busy => "loading" \in busy'
        BY <1>4
      <3>4. QED
        BY <1>1, <1>4, <3>1, <3>2, <3>3, StaysOnPage
    <2>2. QED
      BY <1>1, <1>2, <1>4, <2>1, EndsTogether DEF Together
  <1>5. calls[c].step = "get" /\ view' = ViewOf(calls[c].reply) => view'.id = view.id
    <2>1. calls[c].step = "get" => calls[c].id # 0
      BY CallFacts DEF Shaped
    <2>2. QED
      BY <1>1, <2>1, AnsweredView DEF Together, OnPage
  <1>6. QED
    BY <1>3, <1>4, <1>5, ConfiguredCalls

-----------------------------------------------------------------------------
(* The server records what was meant for the conversation it is recorded   *)
(* in.                                                                     *)

LEMMA SameActions ==
    ASSUME ActionsReachTheirSeed, Patient, UNCHANGED <<who, server>>
    PROVE  ActionsReachTheirSeed'
  BY DEF ActionsReachTheirSeed, Patient, inst

LEMMA RecordsReach ==
    ASSUME RequestInv, Patient, Together, ActionsReachTheirSeed, NEW c \in Slots, Records(c)
    PROVE  ActionsReachTheirSeed'
  <1>1. PICK seed \in Seeds \cup {0} :
              /\ Mutation(c, seed) \in Effect /\ RecordOnce(c, Mutation(c, seed))
              /\ Mutation(c, seed).kind = calls[c].step
              /\ Mutation(c, seed).meant = calls[c].meant
              /\ Mutation(c, seed).request = calls[c].request
              /\ calls[c].request # 0 /\ calls[c].id \in Live
              /\ calls[c].step \in {"turn", "action"}
    BY RecordsWhat
  <1> DEFINE effect == Mutation(c, seed)
             s == calls[c].id
  <1>2. /\ server' = server \/ server' = [server EXCEPT ![s] = Append(@, effect)]
        /\ UNCHANGED who
    <2>1. \E version \in Nat : Answer(c, SessionPayload(calls[c].id, version))
      BY <1>1, RecordOnceLogs
    <2>2. QED
      BY <1>1, <2>1, RecordOnceLogs DEF Answer
  <1>3. CASE server' = server
    BY <1>2, <1>3, SameActions
  <1>4. CASE server' = [server EXCEPT ![s] = Append(@, effect)]
    <2>1. /\ effect.meant \in {0, s}
          /\ (effect.kind = "action" \/ s \in inst.external) => effect.meant = s
      BY <1>1 DEF Together, OnPage
    <2> HIDE DEF effect
    <2>2. s \in Sessions /\ server \in [Sessions -> Seq(Effect)]
      BY <1>1 DEF Live, RequestInv, TypeOK
    <2>3. server[s] \in Seq(Effect) /\ effect \in Effect
      BY <1>1, <2>2 DEF effect
    <2>4. /\ server'[s] = Append(server[s], effect)
          /\ \A t \in Sessions : t # s => server'[t] = server[t]
      BY <1>4, <2>2
    <2>5. ASSUME NEW i \in 2..Len(server'[s])
          PROVE  (i \in 2..Len(server[s]) /\ server'[s][i] = server[s][i]) \/ server'[s][i] = effect
      <3>1. Len(server'[s]) = Len(server[s]) + 1 /\ Len(server[s]) \in Nat
        BY <2>3, <2>4
      <3>2. i \in 2..Len(server[s]) \/ i = Len(server[s]) + 1
        BY <3>1
      <3>3. QED
        BY <2>3, <2>4, <3>2
    <2>6. ASSUME NEW t \in Sessions, NEW i \in 2..Len(server'[t])
          PROVE  /\ server'[t][i].meant \in {0, t}
                 /\ server'[t][i].request # 0
                      /\ (server'[t][i].kind = "action" \/ t \in inst.external)
                      => server'[t][i].meant = t
      <3>1. CASE t # s
        BY <2>4, <3>1 DEF ActionsReachTheirSeed
      <3>2. CASE t = s
        <4>1. CASE server'[s][i] = effect
          BY <2>1, <3>2, <4>1
        <4>2. CASE i \in 2..Len(server[s]) /\ server'[s][i] = server[s][i]
          BY <2>2, <3>2, <4>2 DEF ActionsReachTheirSeed
        <4>3. QED
          BY <2>5, <3>2, <4>1, <4>2
      <3>3. QED
        BY <3>1, <3>2
    <2>7. inst' = inst
      BY <1>2 DEF inst
    <2>8. QED
      BY <2>6, <2>7 DEF ActionsReachTheirSeed
  <1>5. QED
    BY <1>2, <1>3, <1>4

LEMMA FoundReach ==
    ASSUME RequestInv, Patient, ActionsReachTheirSeed, NEW c \in Slots, Found(c)
    PROVE  ActionsReachTheirSeed'
  <1>1. /\ server' = [server EXCEPT ![NewSession] = <<Birth>>] /\ NewSession \in Sessions
        /\ server \in [Sessions -> Seq(Effect)] /\ UNCHANGED who
    BY FoundLogs, FoundReturns DEF RequestInv, TypeOK
  <1>2. Len(server'[NewSession]) = 1
    BY <1>1
  <1>3. 2..Len(server'[NewSession]) = {}
    BY <1>2
  <1>4. \A t \in Sessions : t # NewSession => server'[t] = server[t]
    BY <1>1
  <1>5. inst' = inst
    BY <1>1 DEF inst
  <1>6. QED
    BY <1>3, <1>4, <1>5 DEF ActionsReachTheirSeed

LEMMA WebInit == Init => WebInv
  <1> SUFFICES ASSUME Init PROVE WebInv
    OBVIOUS
  <1>1. RequestInv
    BY RequestInit
  <1>2. /\ view.id = 0 /\ list = {} /\ detail = None /\ consent = 0
    BY DEF Init, None
  <1>3. \A c \in Slots : calls[c] = IF c = 1 THEN Waiting("refresh", "list", 0, 0) ELSE Idle
    BY DEF Init
  <1>4. ASSUME NEW c \in Slots PROVE OnPage(calls[c])
    <2>1. /\ calls[c].kind \in {"refresh", "idle"} /\ calls[c].step \in {"list", "none"}
      BY <1>3, IdleIsCall DEF Waiting
    <2>2. QED
      BY <1>2, <2>1 DEF OnPage, Lists, Loads, Shows
  <1>5. ASSUME NEW c \in Slots, NEW d \in Slots \ {c} PROVE Beside(calls[c], calls[d])
    <2>1. CASE c = 1
      <3>1. calls[d] = Idle
        BY <1>3, <2>1
      <3>2. QED
        BY <3>1, IdleBeside
    <2>2. CASE c # 1
      <3>1. calls[c] = Idle
        BY <1>3, <2>2
      <3>2. QED
        BY <3>1, IdleBeside
    <2>3. QED
      BY <2>1, <2>2
  <1>6. Together
    BY <1>2, <1>4, <1>5 DEF Together
  <1>7. ActionsReachTheirSeed
    <2>1. ASSUME NEW s \in Sessions, NEW i \in 2..Len(server[s])
          PROVE  server[s][i] = Birth
      <3>1. server[s] = <<Birth, Birth>> \/ server[s] = <<>>
        BY DEF Init, Birth
      <3>2. QED
        BY <3>1
    <2>2. Birth.meant = 0 /\ Birth.request = 0
      BY DEF Birth
    <2>3. QED
      BY <2>1, <2>2 DEF ActionsReachTheirSeed
  <1>8. QED
    BY <1>1, <1>6, <1>7 DEF WebInv

LEMMA OthersLeaveLogs ==
    ASSUME NEW c,
           \/ \E s \in Sessions : Select(c, s)
           \/ \E seed \in Seeds : Open(c, seed)
           \/ Send(c) \/ Create(c) \/ Configure(c) \/ Clear(c)
           \/ \E again \in BOOLEAN : ActOnSeed(c, again)
           \/ Lose(c) \/ Deliver(c) \/ Read(c) \/ SetKey(c) \/ Reject(c)
    PROVE  UNCHANGED <<who, server>>
  <1>1. CASE \/ \E s \in Sessions : Select(c, s)
             \/ \E seed \in Seeds : Open(c, seed)
             \/ Send(c) \/ Create(c) \/ Configure(c) \/ Clear(c)
             \/ \E again \in BOOLEAN : ActOnSeed(c, again)
    BY <1>1 DEF Select, Open, Send, Create, Configure, Clear, ChangeKey, ActOnSeed
  <1>2. CASE Lose(c) \/ Read(c) \/ SetKey(c) \/ Reject(c)
    BY <1>2 DEF Lose, Read, SetKey, Reject, Answer
  <1>3. CASE Deliver(c)
    BY <1>3 DEF Deliver, Listed, Loaded, NotLoaded, Opened, Sent, NotSent, Refreshed,
                ListRefreshed, Created, NotCreated, Acted, NotActed, Configured, NotConfigured,
                Got, Lost
  <1>4. QED
    BY <1>1, <1>2, <1>3

LEMMA TogetherSteps ==
    ASSUME RequestInv, Patient, Together, ActionsReachTheirSeed, [Next]_vars
    PROVE  Together' /\ ActionsReachTheirSeed'
  <1>1. CASE UNCHANGED vars
    <2>1. UNCHANGED <<who, server, page, calls>>
      BY <1>1 DEF vars
    <2>2. inst' = inst
      BY <2>1 DEF inst
    <2>3. Together'
      BY <2>1, <2>2 DEF Together, OnPage, page
    <2>4. QED
      BY <2>1, <2>3, SameActions
  <1>2. CASE Close \/ Confirm \/ Edit
    <2>1. UNCHANGED <<who, server>>
      BY <1>2 DEF Close, Confirm, Edit
    <2>2. QED
      BY <1>2, <2>1, SameActions, CloseTogether, ConfirmTogether, EditTogether
  <1>3. ASSUME NEW c \in Slots,
               \/ \E s \in Sessions : Select(c, s)
               \/ \E seed \in Seeds : Open(c, seed)
               \/ Send(c) \/ Create(c) \/ Configure(c) \/ Clear(c)
               \/ \E again \in BOOLEAN : ActOnSeed(c, again)
        PROVE  Together' /\ ActionsReachTheirSeed'
    <2>1. UNCHANGED <<who, server>>
      BY <1>3, OthersLeaveLogs
    <2>2. Together'
      BY <1>3, SelectTogether, OpenTogether, SendTogether, CreateTogether, ChangeKeyTogether,
         ActOnSeedTogether DEF Configure, Clear
    <2>3. QED
      BY <2>1, <2>2, SameActions
  <1>4. ASSUME NEW c \in Slots, Serve(c) \/ Lose(c)
        PROVE  Together' /\ ActionsReachTheirSeed'
    <2>1. CASE Read(c) \/ SetKey(c) \/ Reject(c) \/ Lose(c)
      <3>1. /\ UNCHANGED <<who, server, page>> /\ \E phase : Returns(c, phase)
        <4>1. CASE Read(c)
          BY <4>1, ReadReturns, AnswerReturns DEF Read
        <4>2. CASE SetKey(c)
          BY <4>2, SetKeyReturns
        <4>3. CASE Reject(c)
          BY <4>3, RejectReturns DEF Reject
        <4>4. CASE Lose(c)
          BY <4>4, LoseReturns DEF Lose
        <4>5. QED
          BY <2>1, <4>1, <4>2, <4>3, <4>4
      <3>2. QED
        BY <3>1, ReturnsTogether, SameActions
    <2>2. CASE Records(c)
      BY <2>2, RecordsReturns, RecordsReach, ReturnsTogether
    <2>3. CASE Found(c)
      BY <2>3, FoundReturns, FoundReach, ReturnsTogether
    <2>4. QED
      BY <1>4, <2>1, <2>2, <2>3 DEF Serve, Records
  <1>5. ASSUME NEW c \in Slots, Deliver(c)
        PROVE  Together' /\ ActionsReachTheirSeed'
    <2>1. UNCHANGED <<who, server>>
      BY <1>5, OthersLeaveLogs
    <2>2. Together'
      BY <1>5, ListedTogether, LoadedTogether, OpenedTogether, PlainEndsTogether, SentTogether,
         RefreshedTogether, CreatedTogether, ActedTogether, ConfiguredTogether DEF Deliver
    <2>3. QED
      BY <2>1, <2>2, SameActions
  <1>6. QED
    BY <1>1, <1>2, <1>3, <1>4, <1>5 DEF Next

LEMMA WhoStays == [Next]_vars => UNCHANGED who
  <1> SUFFICES ASSUME [Next]_vars PROVE UNCHANGED who
    OBVIOUS
  <1>1. CASE UNCHANGED vars
    BY <1>1 DEF vars
  <1>2. CASE Close \/ Confirm \/ Edit
    BY <1>2 DEF Close, Confirm, Edit
  <1>3. ASSUME NEW c \in Slots, RunTurn(c) \/ MutateSeed(c) \/ Found(c) PROVE UNCHANGED who
    BY <1>3 DEF RunTurn, MutateSeed, Found, RecordOnce, Answer
  <1>4. QED
    BY <1>1, <1>2, <1>3, OthersLeaveLogs DEF Next, Serve

LEMMA WebSteps == WebInv /\ [Next]_vars => WebInv'
  <1> SUFFICES ASSUME WebInv, [Next]_vars PROVE WebInv'
    OBVIOUS
  <1>1. RequestInv /\ RequestInv'
    BY RequestSteps DEF WebInv
  <1>2. ASSUME Patient' PROVE Together' /\ ActionsReachTheirSeed'
    <2>1. Patient
      BY <1>2, WhoStays DEF Patient, inst
    <2>2. QED
      BY <1>1, <2>1, TogetherSteps DEF WebInv
  <1>3. ActionsReachTheirSeed' \/ Patient'
    BY DEF ActionsReachTheirSeed
  <1>4. QED
    BY <1>1, <1>2, <1>3 DEF WebInv

\* What is open belongs to what is shown, and what a person who waits entered for a seed or
\* confirmed for a conversation was recorded there: whatever overtakes what, the calls in
\* flight never disagree with the page.
THEOREM ActionsAlwaysStayTogether == Spec => []ActionsStayTogether
  <1>1. Spec => []WebInv
    BY WebInit, WebSteps, PTL DEF Spec
  <1>2. WebInv => ActionsStayTogether
    BY DEF WebInv, RequestInv, Together, DetailBelongsToView, ActionsReachTheirSeed,
           ActionsStayTogether
  <1>3. QED
    BY <1>1, <1>2, PTL

-----------------------------------------------------------------------------
(* The page follows what was chosen last: at most one call at a time will  *)
(* change what is shown, and it accounts for everything that is missing.   *)

\* Calls that will change the conversation shown, the list or the provider's status, or
\* have done so and are not through.
Bears(call) ==
    Lists(call) \/ Loads(call) \/ call.kind \in {"send", "act", "create", "provider"}

\* Calls whose answer is the conversation shown next.
Changes(call) ==
    \/ Loads(call) \/ call.step \in {"turn", "action", "create"}
    \/ call.kind = "provider" /\ call.step = "get"

Turns(call) == call.step \in {"credential", "clear"}

\* A conversation was created that the list does not have yet.
Adds(call) == call.kind = "create" /\ (call.step = "list" \/ call.phase = "answered")

\* The key was changed, and the conversation shown is about to be read again.
Rereads(call) ==
    /\ call.kind = "provider" /\ call.id # 0
    /\ call.step \in {"list", "get"} \/ call.phase = "answered"

\* An answer that waits is as good as one given now, and no older than what is shown.
Current(call) ==
    /\ call.phase = "answered" /\ Changes(call) =>
          /\ call.reply.version <= Version(call.reply.id)
          /\ view.id = call.reply.id => view.version <= call.reply.version
          /\ call.reply.ready = ProviderReady(call.reply.id)
    /\ call.phase = "answered" /\ call.step = "list" /\ Bears(call) => call.reply.ids = Live
    /\ call.phase = "answered" /\ Turns(call) => call.reply.ready = key
    /\ call.kind = "provider" /\ call.id = 0 => view.id = 0
    /\ Lists(call) => call.fresh /\ chosen = 0
    /\ Loads(call) => call.id = chosen
    /\ spent.failures = 0 /\ Bears(call) /\ call.phase = "failed" =>
          call.step \in {"seed", "action", "turn", "create"}

\* What the page should show, but for what the call will bring.
Settled(call) ==
    /\ chosen # 0 => view.id = chosen \/ Loads(call)
    /\ list = Live \/ Lists(call) \/ Adds(call)
    /\ providers = key \/ (Turns(call) /\ call.phase = "answered")
    /\ view # None => view.ready = ProviderReady(view.id) \/ Rereads(call)

Behind == view # None => view.version <= Version(view.id)

Follows ==
    /\ Behind
    /\ \A c \in Slots : Current(calls[c])
    /\ spent.failures = 0 => \E c \in Slots : Settled(calls[c])

FollowInv == Patient => Follows

\* Current and Settled, of the page and the server after the step.
NextVersion(s) == Len(server'[s])
NextReady(s) == s \in inst'.external => key'

NextCurrent(call) ==
    /\ call.phase = "answered" /\ Changes(call) =>
          /\ call.reply.version <= NextVersion(call.reply.id)
          /\ view'.id = call.reply.id => view'.version <= call.reply.version
          /\ call.reply.ready = NextReady(call.reply.id)
    /\ call.phase = "answered" /\ call.step = "list" /\ Bears(call) => call.reply.ids = Live'
    /\ call.phase = "answered" /\ Turns(call) => call.reply.ready = key'
    /\ call.kind = "provider" /\ call.id = 0 => view'.id = 0
    /\ Lists(call) => call.fresh /\ chosen' = 0
    /\ Loads(call) => call.id = chosen'
    /\ spent'.failures = 0 /\ Bears(call) /\ call.phase = "failed" =>
          call.step \in {"seed", "action", "turn", "create"}

NextSettled(call) ==
    /\ chosen' # 0 => view'.id = chosen' \/ Loads(call)
    /\ list' = Live' \/ Lists(call) \/ Adds(call)
    /\ providers' = key' \/ (Turns(call) /\ call.phase = "answered")
    /\ view' # None => view'.ready = NextReady(view'.id) \/ Rereads(call)

LEMMA OneBears ==
    ASSUME Together, NEW c \in Slots, NEW d \in Slots \ {c}, Bears(calls[c])
    PROVE  ~Bears(calls[d])
  <1>1. Beside(calls[c], calls[d]) /\ Beside(calls[d], calls[c])
    BY DEF Together
  <1>2. QED
    BY <1>1 DEF Bears, Beside, Lists, Loads, Shows

\* A call that bears nothing owes nothing.
LEMMA OwesNothing ==
    ASSUME NEW call, Shaped(call), ~Bears(call)
    PROVE  /\ NextCurrent(call) /\ ~Changes(call)
           /\ ~Turns(call) /\ ~Adds(call) /\ ~Rereads(call)
  <1>1. call.kind \in {"idle", "refresh", "select", "open"} /\ ~Lists(call) /\ ~Loads(call)
    BY DEF Bears, Shaped, Pairs
  <1>2. <<call.kind, call.step>> \in {<<"idle", "none">>, <<"refresh", "list">>,
                                      <<"refresh", "get">>, <<"select", "get">>,
                                      <<"open", "seed">>}
    BY <1>1 DEF Shaped, Pairs
  <1>3. ~Changes(call) /\ ~Turns(call) /\ ~Adds(call) /\ ~Rereads(call)
    BY <1>1, <1>2 DEF Changes, Turns, Adds, Rereads
  <1>4. QED
    BY <1>1, <1>3 DEF NextCurrent, Bears

\* If something is missing, the call that bears accounts for it.
LEMMA ItSettles ==
    ASSUME RequestInv, Together, NEW c \in Slots, Bears(calls[c]),
           \E d \in Slots : Settled(calls[d])
    PROVE  Settled(calls[c])
  <1>1. PICK d \in Slots : Settled(calls[d])
    OBVIOUS
  <1>2. CASE d # c
    <2>1. ~Bears(calls[d]) /\ Shaped(calls[d])
      BY <1>2, OneBears DEF RequestInv
    <2>2. /\ ~Lists(calls[d]) /\ ~Loads(calls[d])
          /\ ~Turns(calls[d]) /\ ~Adds(calls[d]) /\ ~Rereads(calls[d])
      BY <2>1, OwesNothing DEF Bears
    <2>3. QED
      BY <1>1, <2>2 DEF Settled
  <1>3. QED
    BY <1>1, <1>2

\* When no call bears, nothing is missing.
LEMMA AllSettled ==
    ASSUME RequestInv, \A d \in Slots : ~Bears(calls[d]), \E d \in Slots : Settled(calls[d])
    PROVE  /\ chosen # 0 => view.id = chosen
           /\ list = Live /\ providers = key
           /\ view # None => view.ready = ProviderReady(view.id)
  <1>1. PICK d \in Slots : Settled(calls[d])
    OBVIOUS
  <1>2. ~Bears(calls[d]) /\ Shaped(calls[d])
    BY DEF RequestInv
  <1>3. /\ ~Lists(calls[d]) /\ ~Loads(calls[d])
        /\ ~Turns(calls[d]) /\ ~Adds(calls[d]) /\ ~Rereads(calls[d])
    BY <1>2, OwesNothing DEF Bears
  <1>4. QED
    BY <1>1, <1>3 DEF Settled

LEMMA ReturnsMoves ==
    ASSUME TypeOK, NEW c, NEW phase, Returns(c, phase)
    PROVE  Moves(c)
  BY FadesAll DEF Returns, Moves, TypeOK

\* A step of a call that bears, before or after it.
LEMMA BearingStep ==
    ASSUME RequestInv', Together, Together', NEW c, Moves(c),
           Bears(calls[c]) \/ Bears(calls'[c]),
           Behind', NextCurrent(calls'[c]),
           spent'.failures = 0 => NextSettled(calls'[c])
    PROVE  Follows'
  <1>1. ASSUME NEW d \in Slots \ {c} PROVE NextCurrent(calls'[d])
    <2>1. ~Bears(calls'[d])
      <3>1. CASE Bears(calls[c])
        <4>1. ~Bears(calls[d]) /\ Fades(calls'[d], calls[d])
          BY <3>1, OneBears DEF Moves
        <4>2. QED
          BY <4>1 DEF Bears, Fades, Lists, Loads
      <3>2. CASE Bears(calls'[c])
        <4>1. Beside(calls[c], calls[d])' /\ Beside(calls[d], calls[c])'
          BY DEF Together, Moves
        <4>2. QED
          BY <3>2, <4>1 DEF Bears, Beside, Lists, Loads, Shows
      <3>3. QED
        BY <3>1, <3>2
    <2>2. Shaped(calls'[d])
      BY DEF RequestInv, Shaped
    <2>3. QED
      BY <2>1, <2>2, OwesNothing
  <1>2. c \in Slots
    BY DEF Moves
  <1>3. ASSUME NEW d \in Slots PROVE Current(calls[d])'
    <2>1. NextCurrent(calls'[d])
      BY <1>1
    <2>2. QED
      BY <2>1 DEF NextCurrent, Current, NextReady, NextVersion, Changes, Turns, Bears, Lists, Loads,
                  Version, ProviderReady
  <1>4. spent'.failures = 0 => \E d \in Slots : Settled(calls[d])'
    BY <1>2 DEF NextSettled, Settled, NextReady, Turns, Adds, Rereads, Lists, Loads, ProviderReady
  <1>5. QED
    BY <1>3, <1>4 DEF Follows

\* The same call, as far as what is shown goes.
Same(new, old) ==
    /\ new.kind = old.kind /\ new.step = old.step /\ new.phase = old.phase
    /\ new.id = old.id /\ new.reply = old.reply
    /\ new.step # "seed" => new.fresh = old.fresh

\* A step that changes nothing of what is shown, and no call that bears.
LEMMA QuietStep ==
    ASSUME RequestInv, RequestInv', Follows,
           UNCHANGED <<who, server, key, view, list, providers, chosen>>,
           spent'.failures = 0 => spent.failures = 0,
           \A d \in Slots : \/ ~Bears(calls[d]) /\ ~Bears(calls'[d])
                            \/ Same(calls'[d], calls[d])
    PROVE  Follows'
  <1>1. inst' = inst /\ Live' = Live
    BY DEF inst, Live
  <1>2. ASSUME NEW d \in Slots
        PROVE  /\ Current(calls[d])'
               /\ Settled(calls[d]) => Settled(calls[d])'
    <2>1. Current(calls[d]) /\ Shaped(calls[d]) /\ Shaped(calls'[d])
      BY DEF Follows, RequestInv, Shaped
    <2>2. CASE ~Bears(calls[d]) /\ ~Bears(calls'[d])
      <3>1. NextCurrent(calls'[d])
        BY <2>1, <2>2, OwesNothing
      <3>2. Current(calls[d])'
        BY <3>1 DEF NextCurrent, Current, NextReady, NextVersion, Changes, Turns, Bears, Lists,
                    Loads, Version, ProviderReady
      <3>3. ~Turns(calls[d]) /\ ~Adds(calls[d]) /\ ~Rereads(calls[d])
        BY <2>1, <2>2, OwesNothing
      <3>4. Settled(calls[d]) => Settled(calls[d])'
        BY <1>1, <2>2, <3>3 DEF Settled, Bears, ProviderReady
      <3>5. QED
        BY <3>2, <3>4
    <2>3. CASE Same(calls'[d], calls[d])
      <3>1. /\ Lists(calls[d])' = Lists(calls[d]) /\ Loads(calls[d])' = Loads(calls[d])
            /\ Turns(calls[d])' = Turns(calls[d]) /\ Adds(calls[d])' = Adds(calls[d])
            /\ Rereads(calls[d])' = Rereads(calls[d])
        BY <2>3 DEF Same, Lists, Loads, Turns, Adds, Rereads
      <3>2. Bears(calls[d])' = Bears(calls[d]) /\ Changes(calls[d])' = Changes(calls[d])
        BY <2>3, <3>1 DEF Same, Bears, Changes
      <3>3. Lists(calls[d]) => calls'[d].fresh = calls[d].fresh
        BY <2>3 DEF Same, Lists
      <3>4. Current(calls[d])'
        BY <1>1, <2>1, <2>3, <3>1, <3>2, <3>3 DEF Current, Same, Version, ProviderReady
      <3>5. Settled(calls[d]) => Settled(calls[d])'
        BY <1>1, <2>3, <3>1 DEF Settled, Same, ProviderReady
      <3>6. QED
        BY <3>4, <3>5
    <2>4. QED
      BY <2>2, <2>3
  <1>3. Behind'
    BY DEF Follows, Behind, Version
  <1>4. QED
    BY <1>2, <1>3 DEF Follows

\* A step from a good state to a state of which the other invariants are known already.
Meanwhile ==
    /\ RequestInv /\ RequestInv' /\ Patient /\ Together /\ Together'
    /\ Follows

LEMMA MeanwhileFacts ==
    ASSUME Meanwhile, NEW c \in Slots
    PROVE  /\ RequestInv /\ RequestInv' /\ Patient /\ Together /\ Together' /\ Follows
           /\ TypeOK /\ Behind /\ Current(calls[c]) /\ Shaped(calls[c]) /\ OnPage(calls[c])
           /\ calls \in [Slots -> Call]
  BY DEF Meanwhile, RequestInv, Follows, Together, TypeOK

\* A handler of the person's begins while no call bears.
LEMMA BeginsBearing ==
    ASSUME Meanwhile, NEW c \in Slots, NEW kind \in {"send", "act", "create", "provider"},
           NEW step, NEW id, NEW seed, NEW meant, NEW request,
           Begins(c, kind, step, id, seed, meant, request),
           kind = "provider" => id = view.id,
           \A d \in Slots : ~Bears(calls[d]),
           UNCHANGED <<who, server, key, view, list, providers, chosen>>,
           spent'.failures = spent.failures
    PROVE  Follows'
  <1>1. /\ RequestInv /\ RequestInv' /\ Together /\ Together' /\ Follows /\ Behind
    BY MeanwhileFacts
  <1>2. /\ Moves(c) /\ calls'[c].kind = kind /\ calls'[c].phase = "sent" /\ calls'[c].id = id
    BY DEF Begins, Asks
  <1>3. Bears(calls'[c]) /\ ~Lists(calls'[c]) /\ ~Loads(calls'[c])
    BY <1>2 DEF Bears, Lists, Loads
  <1>4. inst' = inst /\ Live' = Live
    BY DEF inst, Live
  <1>5. Behind'
    BY <1>1 DEF Behind, Version
  <1>6. NextCurrent(calls'[c])
    BY <1>2, <1>3 DEF NextCurrent
  <1>7. ASSUME spent'.failures = 0 PROVE NextSettled(calls'[c])
    <2>1. \E d \in Slots : Settled(calls[d])
      BY <1>1, <1>7 DEF Follows
    <2>2. QED
      BY <1>1, <1>4, <2>1, AllSettled DEF NextSettled, NextReady, ProviderReady
  <1>8. QED
    BY <1>1, <1>2, <1>3, <1>5, <1>6, <1>7, BearingStep

LEMMA NoneBears ==
    ASSUME Patient, NEW kind \in {"create", "act", "provider", "confirm", "edit"}, Ready(kind),
           NEW d \in Slots
    PROVE  ~Bears(calls[d])
  <1>1. calls[d].kind \in {"idle", "open"}
    BY WhoWaits
  <1>2. QED
    BY <1>1 DEF Bears, Lists, Loads

LEMMA SpentOnActions ==
    ASSUME RequestInv
    PROVE  /\ \A kind : Act(kind) => Ready(kind) /\ spent'.failures = spent.failures
           /\ spent' = [spent EXCEPT !.failures = @ + 1] => spent'.failures # 0
  <1>1. spent \in [actions : Nat, failures : Nat, requests : Nat]
    BY DEF RequestInv, Counted
  <1>2. spent' = [spent EXCEPT !.failures = @ + 1] => spent'.failures # 0
    BY <1>1
  <1>3. \A kind : Act(kind) => Ready(kind) /\ spent'.failures = spent.failures
    BY <1>1 DEF Act
  <1>4. QED
    BY <1>2, <1>3

LEMMA SendFollows ==
    ASSUME Meanwhile, NEW c \in Slots, Send(c)
    PROVE  Follows'
  <1>1. RequestInv /\ Patient /\ Together
    BY MeanwhileFacts
  <1>2. Begins(c, "send", "turn", view.id, SendSeed, SendMeant, TurnRequest)
    BY <1>1, SendCalls
  <1>3. /\ Ready("send") /\ view # None /\ MaySend
        /\ UNCHANGED <<who, server, key, view, list, providers, chosen>>
        /\ spent'.failures = spent.failures
    BY <1>1 DEF Send, RequestInv, Counted
  <1>4. view.id # 0 /\ "loading" \notin busy
    BY <1>1, <1>3, ViewId DEF MaySend, RequestInv
  <1>5. ASSUME NEW d \in Slots PROVE ~Bears(calls[d])
    <2>1. calls[d].kind \in {"idle", "open", "refresh", "select"}
      BY <1>1, <1>3, WhoWaits
    <2>2. QED
      BY <1>1, <1>4, <2>1 DEF Together, OnPage, Bears
  <1>6. QED
    BY <1>2, <1>3, <1>5, BeginsBearing

LEMMA CreateFollows ==
    ASSUME Meanwhile, NEW c \in Slots, Create(c)
    PROVE  Follows'
  <1>1. RequestInv /\ Patient
    BY MeanwhileFacts
  <1>2. /\ Ready("create") /\ spent'.failures = spent.failures
        /\ UNCHANGED <<who, server, key, view, list, providers, chosen>>
    BY <1>1, SpentOnActions DEF Create
  <1>3. QED
    BY <1>1, <1>2, CreateCalls, NoneBears, BeginsBearing

LEMMA ActOnSeedFollows ==
    ASSUME Meanwhile, NEW c \in Slots, NEW again \in BOOLEAN, ActOnSeed(c, again)
    PROVE  Follows'
  <1>1. RequestInv /\ Patient
    BY MeanwhileFacts
  <1>2. /\ Ready("act") /\ spent'.failures = spent.failures
        /\ UNCHANGED <<who, server, key, view, list, providers, chosen>>
    BY <1>1 DEF ActOnSeed, RequestInv, Counted
  <1>3. QED
    BY <1>1, <1>2, ActOnSeedCalls, NoneBears, BeginsBearing

LEMMA ChangeKeyFollows ==
    ASSUME Meanwhile, NEW c \in Slots, NEW step \in {"credential", "clear"}, ChangeKey(c, step)
    PROVE  Follows'
  <1>1. RequestInv /\ Patient
    BY MeanwhileFacts
  <1>2. /\ Ready("provider") /\ spent'.failures = spent.failures
        /\ UNCHANGED <<who, server, key, view, list, providers, chosen>>
    BY <1>1, SpentOnActions DEF ChangeKey
  <1>3. QED
    BY <1>1, <1>2, ChangeKeyCalls, NoneBears, BeginsBearing

LEMMA SelectFollows ==
    ASSUME Meanwhile, NEW c \in Slots, NEW s \in Sessions, Select(c, s)
    PROVE  Follows'
  <1>1. RequestInv /\ RequestInv' /\ Patient /\ Together /\ Together' /\ Follows /\ Behind
    BY MeanwhileFacts
  <1>2. Begins(c, "select", "get", s, 0, 0, 0)
    BY <1>1, SelectCalls
  <1>3. /\ Ready("select") /\ s \in list /\ chosen' = s /\ spent'.failures = spent.failures
        /\ UNCHANGED <<who, server, key, view, list, providers>>
    BY <1>1, SpentOnActions DEF Select
  <1>4. /\ Moves(c) /\ calls'[c].kind = "select" /\ calls'[c].step = "get" /\ calls'[c].id = s
        /\ calls'[c].phase = "sent" /\ Loads(calls'[c])
    BY <1>2 DEF Begins, Asks, Loads
  <1>5. inst' = inst /\ Live' = Live
    BY <1>3 DEF inst, Live
  <1>6. Behind'
    BY <1>1, <1>3 DEF Behind, Version
  <1>7. NextCurrent(calls'[c]) /\ Bears(calls'[c])
    BY <1>3, <1>4 DEF NextCurrent, Bears, Lists
  <1>8. ASSUME spent'.failures = 0 PROVE NextSettled(calls'[c])
    <2>1. PICK d \in Slots : Settled(calls[d])
      BY <1>1, <1>3, <1>8 DEF Follows
    <2>2. /\ calls[d].kind \in {"idle", "open", "refresh", "select"}
          /\ OnPage(calls[d]) /\ Shaped(calls[d])
      BY <1>1, <1>3, WhoWaits DEF Together, RequestInv
    <2>3. ~Lists(calls[d]) /\ ~Adds(calls[d]) /\ ~Turns(calls[d]) /\ ~Rereads(calls[d])
      BY <1>3, <2>2 DEF OnPage, Adds, Turns, Rereads, Shaped, Pairs
    <2>4. QED
      BY <1>3, <1>4, <1>5, <2>1, <2>3 DEF NextSettled, Settled, NextReady, ProviderReady
  <1>9. QED
    BY <1>1, <1>4, <1>6, <1>7, <1>8, BearingStep

LEMMA SeedIdSame ==
    ASSUME NEW cs \in [Slots -> Call], NEW d \in Slots
    PROVE  Same(NewSeedId(cs)[d], cs[d])
  BY DEF NewSeedId, Stale, Same, Call

LEMMA OpenFollows ==
    ASSUME Meanwhile, NEW c \in Slots, NEW seed \in Seeds, Open(c, seed)
    PROVE  Follows'
  <1>1. RequestInv /\ RequestInv' /\ Follows /\ calls \in [Slots -> Call]
    BY MeanwhileFacts
  <1>2. /\ UNCHANGED <<who, server, key, view, list, providers, chosen>>
        /\ spent'.failures = spent.failures /\ Free(c)
        /\ calls' = [NewSeedId(calls) EXCEPT ![c] = Waiting("open", "seed", view.id, seed)]
    BY <1>1, SpentOnActions DEF Open, page
  <1>3. ASSUME NEW d \in Slots
        PROVE  \/ ~Bears(calls[d]) /\ ~Bears(calls'[d])
               \/ Same(calls'[d], calls[d])
    <2>1. CASE d = c
      <3>1. calls[d].kind = "idle" /\ calls'[d].kind = "open"
        BY <1>1, <2>1, OpenCalls DEF Begins, Asks
      <3>2. QED
        BY <3>1 DEF Bears, Lists, Loads
    <2>2. CASE d # c
      <3>1. NewSeedId(calls) \in [Slots -> Call]
        BY <1>1, SeedIdFades
      <3>2. calls'[d] = NewSeedId(calls)[d]
        BY <1>2, <2>2, <3>1
      <3>3. QED
        BY <1>1, <3>2, SeedIdSame
    <2>3. QED
      BY <2>1, <2>2
  <1>4. QED
    BY <1>1, <1>2, <1>3, QuietStep

LEMMA AsideFollows ==
    ASSUME Meanwhile, Close \/ Confirm \/ Edit
    PROVE  Follows'
  <1>1. RequestInv /\ RequestInv' /\ Follows /\ calls \in [Slots -> Call]
    BY DEF Meanwhile, RequestInv, TypeOK
  <1>2. /\ UNCHANGED <<who, server, key, view, list, providers, chosen>>
        /\ spent'.failures = spent.failures
        /\ calls' = NewSeedId(calls) \/ calls' = calls
    BY <1>1, SpentOnActions DEF Close, Confirm, Edit
  <1>3. \A d \in Slots : Same(calls'[d], calls[d])
    BY <1>1, <1>2, SeedIdSame DEF Same
  <1>4. QED
    BY <1>1, <1>2, <1>3, QuietStep

\* The server and the network change neither the page nor what a call is about.
LEMMA ReturnsSame ==
    ASSUME NEW c, NEW phase, Returns(c, phase)
    PROVE  /\ Lists(calls'[c]) = Lists(calls[c]) /\ Loads(calls'[c]) = Loads(calls[c])
           /\ Bears(calls'[c]) = Bears(calls[c]) /\ Changes(calls'[c]) = Changes(calls[c])
           /\ Turns(calls'[c]) = Turns(calls[c])
  <1>1. /\ Lists(calls'[c]) = Lists(calls[c]) /\ Loads(calls'[c]) = Loads(calls[c])
        /\ Turns(calls'[c]) = Turns(calls[c])
    BY DEF Returns, Lists, Loads, Turns
  <1>2. QED
    BY <1>1 DEF Returns, Bears, Changes

LEMMA QuietReturns ==
    ASSUME Meanwhile, NEW c \in Slots, NEW phase, Returns(c, phase), ~Bears(calls[c]),
           UNCHANGED <<who, server, key, page, chosen>>,
           spent'.failures = 0 => spent.failures = 0
    PROVE  Follows'
  <1>1. RequestInv /\ RequestInv' /\ Follows
    BY MeanwhileFacts
  <1>2. ASSUME NEW d \in Slots
        PROVE  \/ ~Bears(calls[d]) /\ ~Bears(calls'[d])
               \/ Same(calls'[d], calls[d])
    BY ReturnsSame DEF Returns, Same
  <1>3. UNCHANGED <<view, list, providers>>
    BY DEF page
  <1>4. QED
    BY <1>1, <1>2, <1>3, QuietStep

LEMMA BearingReturns ==
    ASSUME Meanwhile, NEW c \in Slots, NEW phase, Returns(c, phase), Bears(calls[c]),
           UNCHANGED <<who, page, chosen>>,
           view # None => Version(view.id) <= NextVersion(view.id),
           NextCurrent(calls'[c]), spent'.failures = 0 => NextSettled(calls'[c])
    PROVE  Follows'
  <1>1. /\ RequestInv /\ RequestInv' /\ Together /\ Together' /\ Behind /\ TypeOK
    BY MeanwhileFacts
  <1>2. Moves(c)
    BY <1>1, ReturnsMoves
  <1>3. Behind'
    <2>1. SUFFICES ASSUME view # None PROVE view.version <= NextVersion(view.id)
      BY DEF Behind, Version, NextVersion, page
    <2>2. /\ view.id \in Sessions /\ view.version \in Nat
          /\ server[view.id] \in Seq(Effect) /\ server'[view.id] \in Seq(Effect)
      BY <1>1, <2>1 DEF TypeOK, View, RequestInv
    <2>3. Version(view.id) \in Nat /\ NextVersion(view.id) \in Nat
      BY <2>2 DEF Version, NextVersion
    <2>4. QED
      BY <1>1, <2>1, <2>2, <2>3 DEF Behind
  <1>4. QED
    BY <1>1, <1>2, <1>3, BearingStep

LEMMA AnswerIsCurrent ==
    ASSUME Meanwhile, NEW c \in Slots, Returns(c, "answered"), UNCHANGED <<who, page, chosen>>,
           Changes(calls[c]) =>
              /\ calls'[c].reply.version <= NextVersion(calls'[c].reply.id)
              /\ view.id = calls'[c].reply.id => view.version <= calls'[c].reply.version
              /\ calls'[c].reply.ready = NextReady(calls'[c].reply.id),
           calls[c].step = "list" => calls'[c].reply.ids = Live',
           Turns(calls[c]) => calls'[c].reply.ready = key'
    PROVE  NextCurrent(calls'[c])
  <1>1. Current(calls[c])
    BY MeanwhileFacts
  <1>2. /\ Lists(calls'[c]) = Lists(calls[c]) /\ Loads(calls'[c]) = Loads(calls[c])
        /\ Changes(calls'[c]) = Changes(calls[c]) /\ Turns(calls'[c]) = Turns(calls[c])
    BY ReturnsSame
  <1>3. /\ calls'[c].phase = "answered" /\ calls'[c].step = calls[c].step
        /\ calls'[c].kind = calls[c].kind /\ calls'[c].id = calls[c].id
        /\ calls'[c].fresh = calls[c].fresh
    BY DEF Returns
  <1>4. UNCHANGED <<view, chosen>>
    BY DEF page
  <1>5. QED
    BY <1>1, <1>2, <1>3, <1>4 DEF Current, NextCurrent

\* What an answer brings is no older than what is shown.
LEMMA ViewIsTyped ==
    ASSUME Meanwhile
    PROVE  /\ view.id \in Sessions \cup {0} /\ (view = None <=> view.id = 0) /\ 0 \notin Sessions
           /\ view # None => view.id \in Live /\ view.version \in Nat
           /\ view # None => view.version <= Version(view.id)
  <1>1. TypeOK /\ Known /\ Behind
    BY DEF Meanwhile, RequestInv, Follows
  <1>2. QED
    BY <1>1, ViewId DEF TypeOK, View, Known, Behind

LEMMA ReadFollows ==
    ASSUME Meanwhile, NEW c \in Slots, Read(c)
    PROVE  Follows'
  <1>1. /\ RequestInv /\ RequestInv' /\ Together /\ Follows /\ TypeOK /\ Shaped(calls[c])
    BY MeanwhileFacts
  <1>2. PICK reply \in Reply :
              /\ Answer(c, reply) /\ calls[c].step \in {"list", "get", "seed"}
    BY <1>1, ReadReturns
  <1>3. /\ Returns(c, "answered") /\ UNCHANGED <<who, server, key, page, chosen, spent>>
    BY <1>1, <1>2, AnswerReturns DEF Read, Answer
  <1>4. CASE ~Bears(calls[c])
    BY <1>3, <1>4, QuietReturns
  <1>5. CASE Bears(calls[c])
    <2>1. inst' = inst /\ Live' = Live /\ UNCHANGED <<view, list, providers>>
      BY <1>3 DEF inst, Live, page
    <2>2. /\ calls[c].step = "list" => calls'[c].reply.ids = Live
          /\ calls[c].step # "list" =>
                calls'[c].reply = SessionPayload(calls[c].id, Version(calls[c].id))
      <3>1. calls \in [Slots -> Call]
        BY <1>1 DEF TypeOK
      <3>2. \A r : Answer(c, r) => calls'[c].reply = r
        BY <3>1 DEF Answer, Call
      <3>3. [NoReply EXCEPT !.ids = Live].ids = Live
        BY DEF NoReply
      <3>4. QED
        BY <3>2, <3>3 DEF Read
    <2>3. calls[c].step # "list" =>
             /\ calls'[c].reply.id = calls[c].id
             /\ calls'[c].reply.version = Version(calls[c].id)
             /\ calls'[c].reply.ready = ProviderReady(calls[c].id)
      BY <2>2 DEF SessionPayload
    <2>4. Changes(calls[c]) => calls[c].step # "list" /\ calls[c].id \in Sessions
      BY <1>1, <1>2, CallFacts DEF Changes, Loads, Shaped
    <2>5. calls[c].id \in Sessions => Version(calls[c].id) \in Nat
      BY <1>1 DEF Version, TypeOK
    <2>6. NextCurrent(calls'[c])
      <3>1. /\ \A s : NextVersion(s) = Version(s) /\ NextReady(s) = ProviderReady(s)
            /\ ~Turns(calls[c])
        BY <1>2, <1>3, <2>1 DEF NextVersion, Version, NextReady, ProviderReady, Turns
      <3>2. Changes(calls[c]) =>
              /\ calls'[c].reply.version <= NextVersion(calls'[c].reply.id)
              /\ view.id = calls'[c].reply.id => view.version <= calls'[c].reply.version
              /\ calls'[c].reply.ready = NextReady(calls'[c].reply.id)
        BY <2>3, <2>4, <2>5, <3>1, ViewIsTyped
      <3>3. QED
        BY <1>3, <2>1, <2>2, <3>1, <3>2, AnswerIsCurrent
    <2>7. ASSUME spent'.failures = 0 PROVE NextSettled(calls'[c])
      <3>1. Settled(calls[c])
        BY <1>1, <1>3, <1>5, <2>7, ItSettles DEF Follows
      <3>2. /\ Lists(calls'[c]) = Lists(calls[c]) /\ Loads(calls'[c]) = Loads(calls[c])
            /\ Adds(calls[c]) => Adds(calls'[c])
            /\ Rereads(calls[c]) => Rereads(calls'[c])
            /\ ~Turns(calls[c])
        BY <1>2, <1>3, ReturnsSame DEF Returns, Adds, Rereads, Turns
      <3>3. QED
        BY <1>3, <2>1, <3>1, <3>2 DEF Settled, NextSettled, NextReady, ProviderReady
    <2>8. view # None => Version(view.id) <= NextVersion(view.id)
      <3>1. view # None => Version(view.id) \in Nat
        BY <1>1, ViewIsTyped DEF Version, TypeOK
      <3>2. QED
        BY <1>3, <3>1 DEF Version, NextVersion
    <2>9. QED
      BY <1>3, <1>5, <2>6, <2>7, <2>8, BearingReturns
  <1>6. QED
    BY <1>4, <1>5

LEMMA SameVersions ==
    ASSUME Meanwhile, UNCHANGED <<who, server>>
    PROVE  /\ inst' = inst /\ Live' = Live
           /\ \A s : NextVersion(s) = Version(s)
           /\ view # None => Version(view.id) <= NextVersion(view.id)
  <1>1. /\ inst' = inst /\ Live' = Live /\ \A s : NextVersion(s) = Version(s)
    BY DEF inst, Live, NextVersion, Version
  <1>2. view # None => Version(view.id) \in Nat
    BY ViewIsTyped DEF Meanwhile, RequestInv, TypeOK, Version
  <1>3. QED
    BY <1>1, <1>2

LEMMA LoseFollows ==
    ASSUME Meanwhile, NEW c \in Slots, Lose(c)
    PROVE  Follows'
  <1>1. RequestInv /\ Current(calls[c])
    BY MeanwhileFacts
  <1>2. /\ Returns(c, "failed") /\ spent'.failures # 0
        /\ UNCHANGED <<who, server, key, page, chosen>>
    BY <1>1, LoseReturns, SpentOnActions DEF Lose
  <1>3. CASE ~Bears(calls[c])
    BY <1>2, <1>3, QuietReturns
  <1>4. CASE Bears(calls[c])
    <2>1. NextCurrent(calls'[c])
      <3>1. /\ Lists(calls'[c]) = Lists(calls[c]) /\ Loads(calls'[c]) = Loads(calls[c])
            /\ calls'[c].phase = "failed" /\ calls'[c].kind = calls[c].kind
            /\ calls'[c].id = calls[c].id /\ calls'[c].fresh = calls[c].fresh
        BY <1>2, ReturnsSame DEF Returns
      <3>2. UNCHANGED <<view, chosen>>
        BY <1>2 DEF page
      <3>3. QED
        BY <1>1, <1>2, <3>1, <3>2 DEF Current, NextCurrent
    <2>2. QED
      BY <1>2, <1>4, <2>1, SameVersions, BearingReturns
  <1>5. QED
    BY <1>3, <1>4

LEMMA RejectFollows ==
    ASSUME Meanwhile, NEW c \in Slots, Reject(c)
    PROVE  Follows'
  <1>1. /\ RequestInv /\ Current(calls[c]) /\ Shaped(calls[c]) /\ Together /\ Follows
    BY MeanwhileFacts
  <1>2. /\ Returns(c, "failed") /\ UNCHANGED <<who, server, key, page, chosen, spent>>
        /\ calls[c].phase = "sent" /\ calls[c].step \in {"seed", "action", "turn", "create"}
    BY <1>1, RejectReturns DEF Reject
  <1>3. CASE ~Bears(calls[c])
    BY <1>2, <1>3, QuietReturns
  <1>4. CASE Bears(calls[c])
    <2>1. /\ Lists(calls'[c]) = Lists(calls[c]) /\ Loads(calls'[c]) = Loads(calls[c])
          /\ calls'[c].phase = "failed" /\ calls'[c].kind = calls[c].kind
          /\ calls'[c].step = calls[c].step
          /\ calls'[c].id = calls[c].id /\ calls'[c].fresh = calls[c].fresh
      BY <1>2, ReturnsSame DEF Returns
    <2>2. UNCHANGED <<view, list, providers, chosen>> /\ inst' = inst /\ Live' = Live
      BY <1>2, SameVersions DEF page
    <2>3. NextCurrent(calls'[c])
      BY <1>1, <1>2, <2>1, <2>2 DEF Current, NextCurrent
    <2>4. ASSUME spent'.failures = 0 PROVE NextSettled(calls'[c])
      <3>1. Settled(calls[c])
        BY <1>1, <1>2, <1>4, <2>4, ItSettles DEF Follows
      <3>2. ~Adds(calls[c]) /\ ~Turns(calls[c]) /\ ~Rereads(calls[c])
        BY <1>1, <1>2 DEF Adds, Turns, Rereads, Shaped, Pairs
      <3>3. QED
        BY <1>2, <2>1, <2>2, <3>1, <3>2 DEF Settled, NextSettled, NextReady, ProviderReady
    <2>5. QED
      BY <1>2, <1>4, <2>3, <2>4, SameVersions, BearingReturns
  <1>5. QED
    BY <1>3, <1>4

\* What the server records for a call, and how it answers.
LEMMA RecordsAnswers ==
    ASSUME Meanwhile, NEW c \in Slots, Records(c)
    PROVE  /\ calls'[c].reply.id = calls[c].id
           /\ calls'[c].reply.version = NextVersion(calls[c].id)
           /\ calls'[c].reply.ready = ProviderReady(calls[c].id)
           /\ calls[c].id \in Sessions
           /\ \A s \in Sessions : /\ Version(s) \in Nat /\ NextVersion(s) \in Nat
                                  /\ Version(s) <= NextVersion(s)
  <1>1. RequestInv /\ TypeOK
    BY DEF Meanwhile, RequestInv
  <1>2. PICK seed \in Seeds \cup {0} :
              /\ Mutation(c, seed) \in Effect /\ RecordOnce(c, Mutation(c, seed))
              /\ Mutation(c, seed).request = calls[c].request
              /\ calls[c].request # 0 /\ calls[c].id \in Live
    BY <1>1, RecordsWhat
  <1> DEFINE effect == Mutation(c, seed)
             s == calls[c].id
  <1>3. s \in Sessions
    BY <1>2 DEF Live
  <1>4. Answer(c, SessionPayload(s, Len(server'[s])))
    BY <1>2 DEF RecordOnce
  <1>5. calls'[c].reply = SessionPayload(s, Len(server'[s]))
    BY <1>1, <1>4 DEF Answer, Call, TypeOK
  <1>6. \/ server' = server
        \/ server' = [server EXCEPT ![s] = Append(@, effect)]
    BY <1>1, <1>2, RecordOnceLogs
  <1>7. ASSUME NEW t \in Sessions
        PROVE  /\ Version(t) \in Nat /\ NextVersion(t) \in Nat /\ Version(t) <= NextVersion(t)
    <2>1. server[t] \in Seq(Effect) /\ effect \in Effect
      BY <1>1, <1>2 DEF TypeOK
    <2> HIDE DEF effect, s
    <2>2. server'[t] = server[t] \/ server'[t] = Append(server[t], effect)
      BY <1>1, <1>3, <1>6 DEF TypeOK
    <2>3. QED
      BY <2>1, <2>2 DEF Version, NextVersion
  <1>8. QED
    BY <1>3, <1>5, <1>7 DEF SessionPayload, NextVersion

LEMMA RecordsFollows ==
    ASSUME Meanwhile, NEW c \in Slots, Records(c)
    PROVE  Follows'
  <1>1. /\ RequestInv /\ Shaped(calls[c]) /\ Together /\ Follows
    BY MeanwhileFacts
  <1>2. /\ Returns(c, "answered") /\ UNCHANGED <<who, page, spent, key>> /\ Live' = Live
        /\ calls[c].step \in {"turn", "action"}
    BY <1>1, RecordsReturns
  <1>3. UNCHANGED chosen
    BY <1>1, RecordsWhat DEF RecordOnce, Answer
  <1>4. UNCHANGED <<view, list, providers, chosen>> /\ inst' = inst
    BY <1>2, <1>3 DEF page, inst
  <1>5. /\ Bears(calls[c]) /\ ~Turns(calls[c])
        /\ ~Adds(calls[c]) /\ ~Rereads(calls[c])
    BY <1>1, <1>2 DEF Bears, Turns, Adds, Rereads, Shaped, Pairs
  <1>6. view # None => Version(view.id) <= NextVersion(view.id)
    BY ViewIsTyped, RecordsAnswers
  <1>7. NextCurrent(calls'[c])
    <2>1. NextReady(calls[c].id) = ProviderReady(calls[c].id)
      BY <1>2, <1>4 DEF NextReady, ProviderReady
    <2>2. view.id = calls[c].id => view.version <= NextVersion(calls[c].id)
      BY ViewIsTyped, RecordsAnswers
    <2>3. NextVersion(calls[c].id) <= NextVersion(calls[c].id)
      BY RecordsAnswers
    <2>4. QED
      BY <1>2, <1>3, <1>5, <2>1, <2>2, <2>3, RecordsAnswers, AnswerIsCurrent
  <1>8. ASSUME spent'.failures = 0 PROVE NextSettled(calls'[c])
    <2>1. Settled(calls[c])
      BY <1>1, <1>2, <1>5, <1>8, ItSettles DEF Follows
    <2>2. Lists(calls'[c]) = Lists(calls[c]) /\ Loads(calls'[c]) = Loads(calls[c])
      BY <1>2, ReturnsSame
    <2>3. QED
      BY <1>2, <1>4, <1>5, <2>1, <2>2 DEF Settled, NextSettled, NextReady, ProviderReady
  <1>9. QED
    BY <1>2, <1>3, <1>5, <1>6, <1>7, <1>8, BearingReturns

LEMMA FoundFollows ==
    ASSUME Meanwhile, NEW c \in Slots, Found(c)
    PROVE  Follows'
  <1>1. /\ RequestInv /\ Shaped(calls[c]) /\ Together /\ Follows /\ TypeOK
    BY MeanwhileFacts
  <1>2. /\ Returns(c, "answered") /\ UNCHANGED <<who, page, spent, key>>
        /\ calls[c].step = "create" /\ calls'[c].reply.id = NewSession
    BY <1>1, FoundReturns
  <1>3. /\ server' = [server EXCEPT ![NewSession] = <<Birth>>]
        /\ NewSession \in Sessions \ Live
    BY <1>1, FoundLogs
  <1>4. Answer(c, SessionPayload(NewSession, 1))
    BY DEF Found
  <1>5. UNCHANGED chosen /\ calls'[c].reply = SessionPayload(NewSession, 1)
    BY <1>1, <1>4 DEF Answer, Call, TypeOK
  <1>6. UNCHANGED <<view, list, providers, chosen>> /\ inst' = inst
    BY <1>2, <1>5 DEF page, inst
  <1>7. /\ Bears(calls[c]) /\ ~Turns(calls[c]) /\ ~Rereads(calls[c]) /\ calls[c].kind = "create"
    BY <1>1, <1>2 DEF Bears, Turns, Rereads, Shaped, Pairs
  <1> DEFINE s == NewSession
  <1> HIDE DEF s
  <1>8. view # None => view.id # s /\ Version(view.id) <= NextVersion(view.id)
    <2>1. SUFFICES ASSUME view # None
                   PROVE  view.id # s /\ Version(view.id) <= NextVersion(view.id)
      OBVIOUS
    <2>2. view.id \in Live /\ view.id \in Sessions /\ view.id # s
      BY <1>3, <2>1, ViewIsTyped DEF s
    <2>3. server'[view.id] = server[view.id] /\ server[view.id] \in Seq(Effect)
      BY <1>1, <1>3, <2>2 DEF TypeOK, s
    <2>4. QED
      BY <2>2, <2>3 DEF Version, NextVersion
  <1>9. NextCurrent(calls'[c])
    <2>1. NextVersion(s) = 1
      <3>1. server'[s] = <<Birth>>
        BY <1>1, <1>3 DEF TypeOK, s
      <3>2. QED
        BY <3>1 DEF NextVersion
    <2>2. /\ calls'[c].reply.id = s /\ calls'[c].reply.version = 1
          /\ calls'[c].reply.ready = ProviderReady(s)
      BY <1>5 DEF SessionPayload, s
    <2>3. NextReady(s) = ProviderReady(s)
      BY <1>2, <1>6 DEF NextReady, ProviderReady
    <2>4. view.id # s
      BY <1>3, <1>8, ViewIsTyped DEF s
    <2>5. QED
      BY <1>2, <1>5, <1>7, <2>1, <2>2, <2>3, <2>4, AnswerIsCurrent
  <1>10. ASSUME spent'.failures = 0 PROVE NextSettled(calls'[c])
    <2>1. Settled(calls[c])
      BY <1>1, <1>2, <1>7, <1>10, ItSettles DEF Follows
    <2>2. /\ Loads(calls'[c]) = Loads(calls[c])
          /\ Adds(calls'[c])
      BY <1>2, <1>7, ReturnsSame DEF Adds, Returns
    <2>3. QED
      BY <1>2, <1>6, <1>7, <2>1, <2>2 DEF Settled, NextSettled, NextReady, ProviderReady
  <1>11. QED
    BY <1>2, <1>5, <1>7, <1>8, <1>9, <1>10, BearingReturns

LEMMA SetKeyFollows ==
    ASSUME Meanwhile, NEW c \in Slots, SetKey(c)
    PROVE  Follows'
  <1>1. /\ RequestInv /\ Shaped(calls[c]) /\ Together /\ Follows /\ TypeOK /\ Current(calls[c])
    BY MeanwhileFacts
  <1>2. /\ Returns(c, "answered") /\ calls[c].step \in {"credential", "clear"}
        /\ UNCHANGED <<who, server, page, spent>>
    BY <1>1, SetKeyReturns
  <1>3. Answer(c, [NoReply EXCEPT !.ready = key'])
    BY DEF SetKey
  <1>4. UNCHANGED chosen /\ calls'[c].reply.ready = key'
    <2>1. UNCHANGED chosen /\ calls'[c].reply = [NoReply EXCEPT !.ready = key']
      BY <1>1, <1>3 DEF Answer, Call, TypeOK
    <2>2. QED
      BY <2>1 DEF NoReply
  <1>5. UNCHANGED <<view, list, providers, chosen>> /\ inst' = inst /\ Live' = Live
    BY <1>2, <1>4, SameVersions DEF page
  <1>6. /\ Bears(calls[c]) /\ calls[c].kind = "provider" /\ ~Adds(calls[c])
        /\ ~Lists(calls[c]) /\ ~Loads(calls[c]) /\ ~Changes(calls[c])
    BY <1>1, <1>2 DEF Bears, Adds, Lists, Loads, Changes, Shaped, Pairs
  <1>7. NextCurrent(calls'[c])
    BY <1>2, <1>4, <1>6, AnswerIsCurrent
  <1>8. ASSUME spent'.failures = 0 PROVE NextSettled(calls'[c])
    <2>1. Settled(calls[c])
      BY <1>1, <1>2, <1>6, <1>8, ItSettles DEF Follows
    <2>2. /\ Turns(calls'[c]) /\ calls'[c].phase = "answered"
          /\ calls[c].id # 0 => Rereads(calls'[c])
      BY <1>2, <1>6 DEF Turns, Rereads, Returns
    <2>3. calls[c].id = 0 => view = None
      BY <1>1, <1>6, ViewIsTyped DEF Current
    <2>4. QED
      BY <1>5, <1>6, <2>1, <2>2, <2>3 DEF Settled, NextSettled
  <1>9. QED
    BY <1>2, <1>4, <1>6, <1>7, <1>8, SameVersions, BearingReturns

LEMMA ServeFollows ==
    ASSUME Meanwhile, NEW c \in Slots, Serve(c) \/ Lose(c)
    PROVE  Follows'
  BY ReadFollows, RecordsFollows, FoundFollows, SetKeyFollows, RejectFollows, LoseFollows
     DEF Serve, Records

LEMMA DeliverLeaves ==
    ASSUME NEW c \in Slots, Deliver(c)
    PROVE  UNCHANGED <<who, server, key, spent>>
  BY DEF Deliver, Listed, Loaded, NotLoaded, Opened, Sent, NotSent, Refreshed, ListRefreshed,
         Created, NotCreated, Acted, NotActed, Configured, NotConfigured, Got, Lost

LEMMA IdleBearsNothing ==
    /\ NextCurrent(Idle) /\ ~Bears(Idle)
    /\ ~Lists(Idle) /\ ~Loads(Idle) /\ ~Adds(Idle) /\ ~Turns(Idle) /\ ~Rereads(Idle)
  BY IdleIsCall DEF NextCurrent, Bears, Lists, Loads, Adds, Turns, Rereads

\* A call ends that bore nothing, and nothing else changes.
LEMMA QuietEnds ==
    ASSUME Meanwhile, NEW c \in Slots, calls' = Done(c, calls), ~Bears(calls[c]),
           UNCHANGED <<who, server, key, spent, view, list, providers, chosen>>
    PROVE  Follows'
  <1>1. RequestInv /\ RequestInv' /\ Follows /\ calls \in [Slots -> Call]
    BY MeanwhileFacts
  <1>2. ASSUME NEW d \in Slots
        PROVE  \/ ~Bears(calls[d]) /\ ~Bears(calls'[d])
               \/ Same(calls'[d], calls[d])
    <2>1. CASE d = c
      <3>1. calls'[d] = Idle
        BY <1>1, <2>1 DEF Done
      <3>2. QED
        BY <2>1, <3>1, IdleBearsNothing
    <2>2. CASE d # c
      BY <1>1, <2>2 DEF Done, Same
    <2>3. QED
      BY <2>1, <2>2
  <1>3. QED
    BY <1>1, <1>2, QuietStep

LEMMA BearingEnds ==
    ASSUME Meanwhile, NEW c \in Slots, Ends(c), Bears(calls[c]), Behind',
           spent'.failures = 0 => NextSettled(Idle)
    PROVE  Follows'
  BY MeanwhileFacts, IdleBearsNothing, BearingStep DEF Ends

LEMMA BearingContinues ==
    ASSUME Meanwhile, NEW c \in Slots, NEW step, Continues(c, step),
           calls[c].kind \in {"send", "act", "create", "provider"}, Behind',
           calls[c].kind = "provider" => (calls[c].id = 0 => view'.id = 0),
           spent'.failures = 0 => NextSettled(calls'[c])
    PROVE  Follows'
  <1>1. /\ Moves(c) /\ calls'[c].kind = calls[c].kind /\ calls'[c].id = calls[c].id
        /\ calls'[c].phase = "sent"
    BY DEF Continues, Asks
  <1>2. Bears(calls[c]) /\ ~Lists(calls'[c]) /\ ~Loads(calls'[c])
    BY <1>1 DEF Bears, Lists, Loads
  <1>3. NextCurrent(calls'[c])
    BY <1>1, <1>2 DEF NextCurrent
  <1>4. QED
    BY <1>1, <1>2, <1>3, MeanwhileFacts, BearingStep

\* What the call that bears still owes, when nothing was lost.
LEMMA StillOwes ==
    ASSUME Meanwhile, NEW c \in Slots, Bears(calls[c]), spent.failures = 0
    PROVE  Settled(calls[c])
  BY MeanwhileFacts, ItSettles DEF Follows

LEMMA SameBehind ==
    ASSUME Meanwhile, UNCHANGED <<server, view>>
    PROVE  Behind'
  BY MeanwhileFacts DEF Meanwhile, Follows, Behind, Version

\* A call ends that owed nothing; the page stays as it is.
LEMMA EndsOwingNothing ==
    ASSUME Meanwhile, NEW c \in Slots, Ends(c), Bears(calls[c]),
           UNCHANGED <<who, server, key, spent, view, list, providers, chosen>>,
           spent.failures = 0 =>
              /\ ~Lists(calls[c]) /\ ~Loads(calls[c]) /\ ~Adds(calls[c]) /\ ~Rereads(calls[c])
              /\ ~(Turns(calls[c]) /\ calls[c].phase = "answered")
    PROVE  Follows'
  <1>1. inst' = inst /\ Live' = Live /\ Behind'
    BY SameVersions, SameBehind
  <1>2. ASSUME spent'.failures = 0 PROVE NextSettled(Idle)
    <2>1. Settled(calls[c]) /\ spent.failures = 0
      BY <1>2, StillOwes
    <2>2. QED
      BY <1>1, <2>1 DEF Settled, NextSettled, NextReady, ProviderReady
  <1>3. QED
    BY <1>1, <1>2, BearingEnds

\* The answer of a call becomes the conversation shown.
LEMMA AnswerShown ==
    ASSUME Meanwhile, NEW c \in Slots, calls[c].phase = "answered", Changes(calls[c]),
           view' = ViewOf(calls[c].reply), UNCHANGED <<who, server, key>>
    PROVE  /\ Behind' /\ view' # None /\ view'.id = calls[c].reply.id
           /\ view'.ready = NextReady(view'.id)
           /\ view'.id = view.id => view.version <= view'.version
           /\ calls[c].step # "create" => view'.id = calls[c].id
  <1>1. /\ RequestInv /\ Current(calls[c]) /\ Shaped(calls[c])
    BY MeanwhileFacts
  <1>2. calls[c].step \in {"get", "turn", "action", "create"}
    BY DEF Changes, Loads
  <1>3. /\ view'.id = calls[c].reply.id /\ view'.version = calls[c].reply.version
        /\ view'.ready = calls[c].reply.ready
    BY DEF ViewOf
  <1>4. view'.id \in Live /\ (calls[c].step # "create" => view'.id = calls[c].id)
    BY <1>1, <1>2, AnsweredView
  <1>5. view' # None
    BY <1>4 DEF None, Live, Sessions
  <1>6. /\ \A s : NextVersion(s) = Version(s) /\ NextReady(s) = ProviderReady(s)
    BY SameVersions DEF NextReady, ProviderReady
  <1>7. Behind'
    BY <1>1, <1>3, <1>6 DEF Current, Behind, Version, NextVersion
  <1>8. QED
    BY <1>1, <1>3, <1>4, <1>5, <1>6, <1>7 DEF Current

LEMMA OpenedFollows ==
    ASSUME Meanwhile, NEW c \in Slots, Opened(c)
    PROVE  Follows'
  <1>1. /\ UNCHANGED <<who, server, key, spent, view, list, providers, chosen>>
        /\ calls' = Done(c, calls) /\ calls[c].kind = "open"
    BY DEF Opened, Got, Lost
  <1>2. ~Bears(calls[c])
    BY <1>1 DEF Bears, Lists, Loads
  <1>3. QED
    BY <1>1, <1>2, QuietEnds

LEMMA LoadedFollows ==
    ASSUME Meanwhile, NEW c \in Slots, Loaded(c)
    PROVE  Follows'
  <1>1. /\ RequestInv /\ Current(calls[c])
    BY MeanwhileFacts
  <1>2. /\ calls[c].phase = "answered" /\ calls[c].step = "get"
        /\ calls[c].kind \in {"refresh", "select"} /\ calls' = Done(c, calls)
        /\ view' = IF calls[c].fresh THEN ViewOf(calls[c].reply) ELSE view
        /\ UNCHANGED <<who, server, key, spent, list, providers, chosen>>
    BY DEF Loaded, Got
  <1>3. CASE ~calls[c].fresh
    <2>1. ~Bears(calls[c])
      BY <1>2, <1>3 DEF Bears, Lists, Loads
    <2>2. QED
      BY <1>2, <1>3, <2>1, QuietEnds
  <1>4. CASE calls[c].fresh
    <2>1. Loads(calls[c]) /\ Bears(calls[c]) /\ Changes(calls[c])
      BY <1>2, <1>4 DEF Loads, Bears, Changes
    <2>2. /\ Behind' /\ view'.id = calls[c].id /\ view'.ready = NextReady(view'.id)
      BY <1>2, <1>4, <2>1, AnswerShown
    <2>3. Ends(c)
      BY <1>1, <1>2, TheseEnd
    <2>4. ASSUME spent'.failures = 0 PROVE NextSettled(Idle)
      <3>1. Settled(calls[c]) /\ Live' = Live
        BY <1>2, <2>1, <2>4, StillOwes, SameVersions
      <3>2. ~Lists(calls[c]) /\ ~Adds(calls[c]) /\ ~Turns(calls[c])
        BY <1>2 DEF Lists, Adds, Turns
      <3>3. view'.id = chosen
        BY <1>1, <2>1, <2>2 DEF Current
      <3>4. QED
        BY <1>2, <2>2, <3>1, <3>2, <3>3 DEF Settled, NextSettled
    <2>5. QED
      BY <2>1, <2>2, <2>3, <2>4, BearingEnds
  <1>5. QED
    BY <1>3, <1>4

LEMMA NotLoadedFollows ==
    ASSUME Meanwhile, NEW c \in Slots, NotLoaded(c)
    PROVE  Follows'
  <1>1. /\ RequestInv /\ Current(calls[c])
    BY MeanwhileFacts
  <1>2. /\ calls[c].phase = "failed" /\ calls[c].step \in {"get", "list"}
        /\ calls' = Done(c, calls)
        /\ UNCHANGED <<who, server, key, spent, view, list, providers, chosen>>
    BY DEF NotLoaded, Lost, Unshown
  <1>3. CASE ~Bears(calls[c])
    BY <1>2, <1>3, QuietEnds
  <1>4. CASE Bears(calls[c])
    <2>1. spent.failures # 0
      BY <1>1, <1>2, <1>4 DEF Current
    <2>2. Ends(c)
      BY <1>1, TheseEnd
    <2>3. QED
      BY <1>2, <1>4, <2>1, <2>2, EndsOwingNothing
  <1>5. QED
    BY <1>3, <1>4

\* What failed leaves the page as it is: it owed nothing, or something was lost.
LEMMA FailedFollows ==
    ASSUME Meanwhile, NEW c \in Slots,
           NotSent(c) \/ NotCreated(c) \/ NotActed(c) \/ NotConfigured(c)
    PROVE  Follows'
  <1>1. /\ RequestInv /\ Current(calls[c]) /\ Shaped(calls[c])
    BY MeanwhileFacts
  <1>2. /\ calls[c].phase = "failed"
        /\ <<calls[c].kind, calls[c].step>> \in
              {<<"send", "turn">>, <<"create", "create">>, <<"act", "action">>,
               <<"provider", "credential">>, <<"provider", "clear">>, <<"provider", "list">>,
               <<"provider", "get">>}
        /\ UNCHANGED <<who, server, key, spent, view, list, providers, chosen>>
    BY DEF NotSent, NotCreated, NotActed, NotConfigured, Lost
  <1>3. Ends(c)
    BY <1>1, TheseEnd
  <1>4. Bears(calls[c]) /\ ~Lists(calls[c]) /\ ~Loads(calls[c]) /\ ~Adds(calls[c])
    BY <1>2 DEF Bears, Lists, Loads, Adds
  <1>5. spent.failures = 0 => ~Rereads(calls[c])
    <2>1. calls[c].kind = "provider" => spent.failures # 0
      BY <1>1, <1>2, <1>4 DEF Current
    <2>2. QED
      BY <2>1 DEF Rereads
  <1>6. QED
    BY <1>2, <1>3, <1>4, <1>5, EndsOwingNothing

LEMMA SentFollows ==
    ASSUME Meanwhile, NEW c \in Slots, Sent(c)
    PROVE  Follows'
  <1>1. /\ RequestInv /\ OnPage(calls[c])
    BY MeanwhileFacts
  <1>2. /\ calls[c].kind = "send" /\ calls[c].step = "turn" /\ calls[c].phase = "answered"
        /\ view' = ViewOf(calls[c].reply)
        /\ UNCHANGED <<who, server, key, spent, list, providers, chosen>>
    BY DEF Sent, Got
  <1>3. PICK step : Continues(c, step)
    BY <1>1, SentCalls
  <1>4. /\ Bears(calls[c]) /\ Changes(calls[c]) /\ ~Lists(calls[c]) /\ ~Loads(calls[c])
        /\ ~Adds(calls[c]) /\ ~Turns(calls[c])
    BY <1>2 DEF Bears, Changes, Lists, Loads, Adds, Turns
  <1>5. /\ Behind' /\ view'.id = calls[c].id /\ view'.ready = NextReady(view'.id)
    BY <1>2, <1>4, AnswerShown
  <1>6. view'.id = view.id
    BY <1>1, <1>2, <1>5 DEF OnPage
  <1>7. ASSUME spent'.failures = 0 PROVE NextSettled(calls'[c])
    <2>1. Settled(calls[c]) /\ Live' = Live
      BY <1>2, <1>4, <1>7, StillOwes, SameVersions
    <2>2. QED
      BY <1>2, <1>4, <1>5, <1>6, <2>1 DEF Settled, NextSettled
  <1>8. QED
    BY <1>2, <1>3, <1>5, <1>7, BearingContinues

LEMMA ActedFollows ==
    ASSUME Meanwhile, NEW c \in Slots, Acted(c)
    PROVE  Follows'
  <1>1. /\ RequestInv /\ OnPage(calls[c])
    BY MeanwhileFacts
  <1>2. /\ calls[c].kind = "act" /\ calls[c].step = "action" /\ calls[c].phase = "answered"
        /\ view' = ViewOf(calls[c].reply)
        /\ UNCHANGED <<who, server, key, spent, list, providers, chosen>>
    BY DEF Acted, Got
  <1>3. Continues(c, "seed")
    BY <1>1, ActedCalls
  <1>4. /\ Bears(calls[c]) /\ Changes(calls[c]) /\ ~Lists(calls[c]) /\ ~Loads(calls[c])
        /\ ~Adds(calls[c]) /\ ~Turns(calls[c])
    BY <1>2 DEF Bears, Changes, Lists, Loads, Adds, Turns
  <1>5. /\ Behind' /\ view'.id = calls[c].id /\ view'.ready = NextReady(view'.id)
    BY <1>2, <1>4, AnswerShown
  <1>6. view'.id = view.id
    BY <1>1, <1>2, <1>5 DEF OnPage
  <1>7. ASSUME spent'.failures = 0 PROVE NextSettled(calls'[c])
    <2>1. Settled(calls[c]) /\ Live' = Live
      BY <1>2, <1>4, <1>7, StillOwes, SameVersions
    <2>2. QED
      BY <1>2, <1>4, <1>5, <1>6, <2>1 DEF Settled, NextSettled
  <1>8. QED
    BY <1>2, <1>3, <1>5, <1>7, BearingContinues

LEMMA CreatedFollows ==
    ASSUME Meanwhile, NEW c \in Slots, Created(c)
    PROVE  Follows'
  <1>1. RequestInv
    BY MeanwhileFacts
  <1>2. /\ calls[c].kind = "create" /\ calls[c].step = "create" /\ calls[c].phase = "answered"
        /\ view' = ViewOf(calls[c].reply) /\ chosen' = calls[c].reply.id
        /\ UNCHANGED <<who, server, key, spent, list, providers>>
    BY DEF Created, Got
  <1>3. Continues(c, "list")
    BY <1>1, CreatedCalls
  <1>4. /\ Bears(calls[c]) /\ Changes(calls[c]) /\ ~Turns(calls[c])
    BY <1>2 DEF Bears, Changes, Turns
  <1>5. /\ Behind' /\ view'.id = chosen' /\ view'.ready = NextReady(view'.id)
    BY <1>2, <1>4, AnswerShown
  <1>6. Adds(calls'[c])
    BY <1>2, <1>3 DEF Adds, Continues, Asks
  <1>7. ASSUME spent'.failures = 0 PROVE NextSettled(calls'[c])
    <2>1. Settled(calls[c])
      BY <1>2, <1>4, <1>7, StillOwes
    <2>2. QED
      BY <1>2, <1>4, <1>5, <1>6, <2>1 DEF Settled, NextSettled
  <1>8. QED
    BY <1>2, <1>3, <1>5, <1>7, BearingContinues

LEMMA RefreshedFollows ==
    ASSUME Meanwhile, NEW c \in Slots, Refreshed(c)
    PROVE  Follows'
  <1>1. RequestInv
    BY MeanwhileFacts
  <1>2. /\ calls[c].kind \in {"send", "act"} /\ calls[c].step = "seed"
        /\ UNCHANGED <<who, server, key, spent, view, list, providers, chosen>>
    BY DEF Refreshed, Got, Lost
  <1>3. /\ Bears(calls[c]) /\ ~Lists(calls[c]) /\ ~Loads(calls[c])
        /\ ~Adds(calls[c]) /\ ~Turns(calls[c]) /\ ~Rereads(calls[c])
    BY <1>2 DEF Bears, Lists, Loads, Adds, Turns, Rereads
  <1>4. CASE Ends(c)
    BY <1>2, <1>3, <1>4, EndsOwingNothing
  <1>5. CASE Continues(c, "list")
    <2>1. inst' = inst /\ Live' = Live /\ Behind'
      BY <1>2, SameVersions, SameBehind
    <2>2. ASSUME spent'.failures = 0 PROVE NextSettled(calls'[c])
      <3>1. Settled(calls[c])
        BY <1>2, <1>3, <2>2, StillOwes
      <3>2. QED
        BY <1>2, <1>3, <2>1, <3>1 DEF Settled, NextSettled, NextReady, ProviderReady
    <2>3. QED
      BY <1>2, <1>5, <2>1, <2>2, BearingContinues
  <1>6. QED
    BY <1>1, <1>4, <1>5, RefreshedCalls

LEMMA ListRefreshedFollows ==
    ASSUME Meanwhile, NEW c \in Slots, ListRefreshed(c)
    PROVE  Follows'
  <1>1. RequestInv /\ Current(calls[c])
    BY MeanwhileFacts
  <1>2. /\ calls[c].kind \in {"send", "create"} /\ calls[c].step = "list"
        /\ UNCHANGED <<who, server, key, spent, view, providers, chosen>>
        /\ \/ calls[c].phase = "answered" /\ list' = calls[c].reply.ids
           \/ calls[c].phase = "failed" /\ list' = list
    BY DEF ListRefreshed, TakeList, Got, Lost
  <1>3. /\ Bears(calls[c]) /\ ~Lists(calls[c]) /\ ~Loads(calls[c])
        /\ ~Turns(calls[c]) /\ ~Rereads(calls[c])
    BY <1>2 DEF Bears, Lists, Loads, Turns, Rereads
  <1>4. Ends(c)
    BY <1>1, TheseEnd
  <1>5. inst' = inst /\ Live' = Live /\ Behind'
    BY <1>2, SameVersions, SameBehind
  <1>6. ASSUME spent'.failures = 0 PROVE NextSettled(Idle)
    <2>1. Settled(calls[c])
      BY <1>2, <1>3, <1>6, StillOwes
    <2>2. list' = Live'
      BY <1>1, <1>2, <1>3, <1>5, <1>6 DEF Current
    <2>3. QED
      BY <1>2, <1>3, <1>5, <2>1, <2>2 DEF Settled, NextSettled, NextReady, ProviderReady
  <1>7. QED
    BY <1>3, <1>4, <1>5, <1>6, BearingEnds

\* The first list: of everything there is, and the first of it is read.
LEMMA ListedFollows ==
    ASSUME Meanwhile, NEW c \in Slots, Listed(c)
    PROVE  Follows'
  <1>1. /\ RequestInv /\ RequestInv' /\ Together /\ Together' /\ Current(calls[c])
        /\ OnPage(calls[c]) /\ TypeOK
    BY MeanwhileFacts
  <1>2. /\ calls[c].kind = "refresh" /\ calls[c].step = "list" /\ calls[c].phase = "answered"
        /\ UNCHANGED <<who, server, key, spent, providers>>
    BY DEF Listed, Got
  <1>3. /\ Lists(calls[c]) /\ Bears(calls[c]) /\ ~Adds(calls[c]) /\ ~Turns(calls[c])
    BY <1>2 DEF Lists, Bears, Adds, Turns
  <1>4. /\ calls[c].fresh /\ chosen = 0 /\ calls[c].reply.ids = Live /\ view.id = 0
    BY <1>1, <1>2, <1>3 DEF Current, OnPage
  <1>5. inst' = inst /\ Live' = Live /\ view = None /\ None.id = 0
    BY <1>1, <1>2, <1>4, SameVersions, ViewIsTyped DEF None
  <1>6. spent'.failures = 0 => providers' = key'
    <2>1. spent.failures = 0 => Settled(calls[c])
      BY <1>3, StillOwes
    <2>2. QED
      BY <1>2, <1>3, <2>1 DEF Settled
  <1>7. CASE \E first \in Live :
               /\ calls' = [NewSessionId(calls) EXCEPT ![c] = Waiting("refresh", "get", first, 0)]
               /\ list' = Live /\ chosen' = first /\ UNCHANGED view
    <2>1. PICK first \in Live :
             /\ calls' = [NewSessionId(calls) EXCEPT ![c] = Waiting("refresh", "get", first, 0)]
             /\ chosen' = first /\ UNCHANGED view
      BY <1>7
    <2>2. /\ NewSessionId(calls) \in [Slots -> Call]
          /\ \A d \in Slots : Fades(NewSessionId(calls)[d], calls[d])
      BY <1>1, SessionIdFades DEF TypeOK
    <2> DEFINE x == Waiting("refresh", "get", first, 0)
    <2>3. x \in Call /\ Asks(x, "refresh", "get", first, 0)
      BY <2>1, WaitingIsCall DEF Calls, Live
    <2> HIDE DEF x
    <2>4. Moves(c) /\ calls'[c] = x
      BY <1>1, <2>1, <2>2, <2>3, Replaces DEF x
    <2>5. /\ calls'[c].kind = "refresh" /\ calls'[c].step = "get" /\ calls'[c].phase = "sent"
          /\ calls'[c].id = first /\ Loads(calls'[c])
      BY <2>3, <2>4 DEF Asks, Loads
    <2>6. NextCurrent(calls'[c])
      BY <2>1, <2>5 DEF NextCurrent, Lists
    <2>7. spent'.failures = 0 => NextSettled(calls'[c])
      BY <1>5, <1>6, <1>7, <2>1, <2>5 DEF NextSettled
    <2>8. Behind'
      BY <1>2, <2>1, SameBehind
    <2>9. QED
      BY <1>1, <1>3, <2>4, <2>6, <2>7, <2>8, BearingStep
  <1>8. CASE /\ calls' = Done(c, NewSessionId(calls)) /\ list' = Live
             /\ view' = None /\ UNCHANGED chosen
    <2> DEFINE cs == NewSessionId(calls)
    <2>1. cs \in [Slots -> Call] /\ \A d \in Slots : Fades(cs[d], calls[d])
      BY <1>1, SessionIdFades DEF TypeOK
    <2>2. calls' = Done(c, cs)
      BY <1>8
    <2> HIDE DEF cs
    <2>3. Ends(c)
      BY <1>1, <2>1, <2>2, EndsCall
    <2>4. Behind'
      BY <1>8 DEF Behind, None
    <2>5. spent'.failures = 0 => NextSettled(Idle)
      BY <1>4, <1>5, <1>6, <1>8 DEF NextSettled
    <2>6. QED
      BY <1>3, <2>3, <2>4, <2>5, BearingEnds
  <1>9. QED
    BY <1>4, <1>7, <1>8 DEF Listed

\* The provider's status, the list, the conversation shown: each is owed until it is there.
LEMMA ConfiguredFollows ==
    ASSUME Meanwhile, NEW c \in Slots, Configured(c)
    PROVE  Follows'
  <1>1. RequestInv /\ Current(calls[c]) /\ TypeOK /\ Shaped(calls[c]) /\ OnPage(calls[c])
    BY MeanwhileFacts
  <1>2. /\ calls[c].kind = "provider" /\ calls[c].phase = "answered"
        /\ UNCHANGED <<who, server, key, spent, chosen>>
    BY DEF Configured, Got
  <1>3. Bears(calls[c]) /\ ~Lists(calls[c]) /\ ~Loads(calls[c]) /\ ~Adds(calls[c])
    BY <1>2 DEF Bears, Lists, Loads, Adds
  <1>4. inst' = inst /\ Live' = Live /\ (calls[c].id = 0 => view = None /\ view.id = 0)
    BY <1>1, <1>2, SameVersions, ViewIsTyped DEF Current
  <1>5. spent'.failures = 0 => Settled(calls[c])
    BY <1>2, <1>3, StillOwes
  <1>6. CASE /\ calls[c].step \in {"credential", "clear"} /\ providers' = calls[c].reply.ready
             /\ calls' = Continue(c, calls, "list") /\ UNCHANGED <<view, list>>
    <2>1. Continues(c, "list") /\ Behind'
      BY <1>1, <1>2, <1>6, ContinuesPlain, SameBehind DEF Steps
    <2>2. calls[c].id # 0 => Rereads(calls'[c])
      BY <1>2, <2>1 DEF Continues, Asks, Rereads
    <2>3. providers' = key'
      BY <1>1, <1>2, <1>6 DEF Current, Turns
    <2>4. spent'.failures = 0 => NextSettled(calls'[c])
      BY <1>2, <1>3, <1>4, <1>5, <1>6, <2>2, <2>3 DEF Settled, NextSettled
    <2>5. QED
      BY <1>2, <1>4, <1>6, <2>1, <2>4, BearingContinues
  <1>7. CASE calls[c].step = "list" /\ list' = calls[c].reply.ids /\ UNCHANGED <<view, providers>>
    <2>1. list' = Live' /\ ~Turns(calls[c]) /\ Behind'
      BY <1>1, <1>2, <1>3, <1>4, <1>7, SameBehind DEF Current, Turns
    <2>2. CASE calls[c].id # 0 /\ calls' = Continue(c, calls, "get")
      <3>1. Continues(c, "get")
        BY <1>1, <2>2, ContinuesPlain DEF Steps
      <3>2. Rereads(calls'[c])
        BY <1>2, <2>2, <3>1 DEF Continues, Asks, Rereads
      <3>3. spent'.failures = 0 => NextSettled(calls'[c])
        BY <1>2, <1>3, <1>5, <1>7, <2>1, <3>2 DEF Settled, NextSettled
      <3>4. QED
        BY <1>2, <2>1, <2>2, <3>1, <3>3, BearingContinues
    <2>3. CASE calls[c].id = 0 /\ calls' = Done(c, calls)
      <3>1. Ends(c)
        BY <1>1, <2>3, DoneEnds
      <3>2. spent'.failures = 0 => NextSettled(Idle)
        BY <1>2, <1>3, <1>4, <1>5, <1>7, <2>1, <2>3 DEF Settled, NextSettled
      <3>3. QED
        BY <1>3, <2>1, <3>1, <3>2, BearingEnds
    <2>4. QED
      BY <1>7, <2>2, <2>3 DEF Configured, Got, Sync
  <1>8. CASE /\ calls[c].step = "get" /\ view' = ViewOf(calls[c].reply)
             /\ calls' = Done(c, calls) /\ UNCHANGED <<list, providers>>
    <2>1. Ends(c) /\ Changes(calls[c]) /\ ~Turns(calls[c])
      BY <1>1, <1>2, <1>8, DoneEnds DEF Changes, Turns
    <2>2. Behind' /\ view'.id = calls[c].id /\ view'.ready = NextReady(view'.id)
      BY <1>2, <1>8, <2>1, AnswerShown
    <2>3. view'.id = view.id
      BY <1>1, <1>2, <1>8, <2>2 DEF OnPage, Shaped
    <2>4. spent'.failures = 0 => NextSettled(Idle)
      BY <1>2, <1>3, <1>4, <1>5, <1>8, <2>1, <2>2, <2>3 DEF Settled, NextSettled
    <2>5. QED
      BY <1>3, <2>1, <2>2, <2>4, BearingEnds
  <1>9. QED
    BY <1>6, <1>7, <1>8 DEF Configured, Got, TakeList

LEMMA DeliverFollows ==
    ASSUME Meanwhile, NEW c \in Slots, Deliver(c)
    PROVE  Follows'
  BY ListedFollows, LoadedFollows, NotLoadedFollows, OpenedFollows, SentFollows, FailedFollows,
     RefreshedFollows, ListRefreshedFollows, CreatedFollows, ActedFollows, ConfiguredFollows
     DEF Deliver

LEMMA StutterFollows ==
    ASSUME Meanwhile, UNCHANGED vars
    PROVE  Follows'
  <1>1. UNCHANGED <<who, server, key, page, calls, chosen, spent>>
    BY DEF vars
  <1>2. UNCHANGED <<view, list, providers>>
    BY <1>1 DEF page
  <1>3. \A d \in Slots : Same(calls'[d], calls[d])
    BY <1>1 DEF Same
  <1>4. QED
    BY <1>1, <1>2, <1>3, QuietStep DEF Meanwhile

LEMMA FollowsSteps ==
    ASSUME Meanwhile, [Next]_vars
    PROVE  Follows'
  <1>1. CASE UNCHANGED vars
    BY <1>1, StutterFollows
  <1>2. CASE Close \/ Confirm \/ Edit
    BY <1>2, AsideFollows
  <1>3. ASSUME NEW c \in Slots,
               \/ \E s \in Sessions : Select(c, s)
               \/ \E seed \in Seeds : Open(c, seed)
               \/ Send(c) \/ Create(c) \/ Configure(c) \/ Clear(c)
               \/ \E again \in BOOLEAN : ActOnSeed(c, again)
        PROVE  Follows'
    BY <1>3, SelectFollows, OpenFollows, SendFollows, CreateFollows, ChangeKeyFollows,
       ActOnSeedFollows DEF Configure, Clear
  <1>4. ASSUME NEW c \in Slots, Serve(c) \/ Lose(c) \/ Deliver(c)
        PROVE  Follows'
    BY <1>4, ServeFollows, DeliverFollows
  <1>5. QED
    BY <1>1, <1>2, <1>3, <1>4 DEF Next

LEMMA FollowsInit == Init => FollowInv
  <1> SUFFICES ASSUME Init PROVE Follows
    BY DEF FollowInv
  <1>1. /\ view = None /\ list = {} /\ chosen = 0 /\ view.id = 0
        /\ key = FALSE /\ providers = FALSE
    BY DEF Init, None
  <1>2. \A c \in Slots : calls[c] = IF c = 1 THEN Waiting("refresh", "list", 0, 0) ELSE Idle
    BY DEF Init
  <1>3. ASSUME NEW c \in Slots PROVE Current(calls[c])
    <2>1. CASE c = 1
      <3>1. /\ calls[c].kind = "refresh" /\ calls[c].step = "list" /\ calls[c].phase = "sent"
            /\ calls[c].fresh
        BY <1>2, <2>1 DEF Waiting
      <3>2. QED
        BY <1>1, <3>1 DEF Current, Loads
    <2>2. CASE c # 1
      <3>1. calls[c] = Idle
        BY <1>2, <2>2
      <3>2. QED
        BY <3>1, IdleIsCall, IdleBearsNothing DEF Current
    <2>3. QED
      BY <2>1, <2>2
  <1>4. \E c \in Slots : Settled(calls[c])
    <2>1. 1 \in Slots
      BY WebAssumption DEF Slots
    <2>2. Lists(calls[1])
      BY <1>2, <2>1 DEF Lists, Waiting
    <2>3. Settled(calls[1])
      BY <1>1, <2>2 DEF Settled
    <2>4. QED
      BY <2>1, <2>3
  <1>5. QED
    BY <1>1, <1>3, <1>4 DEF Follows, Behind

LEMMA PatienceStays == [Next]_vars => (Patient <=> Patient')
  BY WhoStays DEF Patient, inst

\* A step of a person who waits goes from a good state to a good one.
LEMMA StepsMeanwhile ==
    ASSUME WebInv, FollowInv, [Next]_vars, Patient
    PROVE  Meanwhile
  BY WebSteps, PatienceStays DEF WebInv, FollowInv, Meanwhile

LEMMA FollowInvSteps == WebInv /\ FollowInv /\ [Next]_vars => FollowInv'
  BY StepsMeanwhile, FollowsSteps, PatienceStays DEF FollowInv

\* What is shown changes only when an answer takes its place, or there is nothing to show.
LEMMA ViewMoves ==
    ASSUME Meanwhile, [Next]_vars
    PROVE  \/ UNCHANGED view \/ view' = None
           \/ \E c \in Slots : /\ calls[c].phase = "answered" /\ Changes(calls[c])
                               /\ view' = ViewOf(calls[c].reply)
                               /\ UNCHANGED <<who, server, key>>
  <1>1. CASE UNCHANGED vars
    BY <1>1 DEF vars, page
  <1>2. CASE Close \/ Confirm \/ Edit
    BY <1>2 DEF Close, Confirm, Edit
  <1>3. ASSUME NEW c \in Slots,
               \/ \E s \in Sessions : Select(c, s)
               \/ \E seed \in Seeds : Open(c, seed)
               \/ Send(c) \/ Create(c) \/ Configure(c) \/ Clear(c)
               \/ \E again \in BOOLEAN : ActOnSeed(c, again)
        PROVE  UNCHANGED view
    BY <1>3 DEF Select, Open, Send, Create, Configure, Clear, ChangeKey, ActOnSeed, page
  <1>4. ASSUME NEW c \in Slots, Serve(c) \/ Lose(c)
        PROVE  UNCHANGED view
    BY <1>4 DEF Serve, Read, RunTurn, MutateSeed, RecordOnce, Found, SetKey, Reject, Lose, Answer,
                page
  <1>5. ASSUME NEW c \in Slots, Deliver(c)
        PROVE  \/ UNCHANGED view \/ view' = None
               \/ /\ calls[c].phase = "answered" /\ Changes(calls[c])
                  /\ view' = ViewOf(calls[c].reply)
    <2>1. CASE Listed(c)
      BY <2>1 DEF Listed
    <2>2. CASE Loaded(c)
      BY <2>2 DEF Loaded, Got, Changes, Loads
    <2>3. CASE Sent(c) \/ Created(c) \/ Acted(c)
      BY <2>3 DEF Sent, Created, Acted, Got, Changes
    <2>4. CASE Configured(c)
      BY <2>4 DEF Configured, Got, Changes
    <2>5. CASE \/ NotLoaded(c) \/ Opened(c) \/ NotSent(c) \/ Refreshed(c) \/ ListRefreshed(c)
               \/ NotCreated(c) \/ NotActed(c) \/ NotConfigured(c)
      BY <2>5 DEF NotLoaded, Unshown, Opened, NotSent, Refreshed, ListRefreshed, NotCreated,
                  NotActed, NotConfigured
    <2>6. QED
      BY <1>5, <2>1, <2>2, <2>3, <2>4, <2>5 DEF Deliver
  <1>6. QED
    BY <1>1, <1>2, <1>3, <1>4, <1>5, DeliverLeaves DEF Next

LEMMA ViewNeverFallsBack ==
    ASSUME WebInv, FollowInv, [Next]_vars
    PROVE  Patient /\ view # None /\ view'.id = view.id => view'.version >= view.version
  <1> SUFFICES ASSUME Patient, view # None, view'.id = view.id
               PROVE  view'.version >= view.version
    OBVIOUS
  <1>1. Meanwhile
    BY StepsMeanwhile
  <1>2. view.id # 0 /\ view.version \in Nat
    BY <1>1, ViewIsTyped
  <1>3. CASE UNCHANGED view
    BY <1>2, <1>3
  <1>4. view' # None
    BY <1>2 DEF None
  <1>5. ASSUME NEW c \in Slots, calls[c].phase = "answered", Changes(calls[c]),
               view' = ViewOf(calls[c].reply), UNCHANGED <<who, server, key>>
        PROVE  view'.version >= view.version
    <2>1. view.version <= view'.version
      BY <1>1, <1>5, AnswerShown
    <2>2. view'.version \in Nat
      BY <1>5, <1>1, CallFacts DEF ViewOf, Reply, Meanwhile
    <2>3. QED
      BY <1>2, <2>1, <2>2
  <1>6. QED
    BY <1>1, <1>3, <1>4, <1>5, ViewMoves

\* When no call is pending, nothing is missing.
LEMMA NothingMissing ==
    WebInv /\ FollowInv => LastChoiceShown /\ ListComplete /\ ReadinessShown
  <1> SUFFICES ASSUME WebInv, FollowInv, Patient, Quiet, spent.failures = 0
               PROVE  /\ chosen # 0 => view # None /\ view.id = chosen
                      /\ list = Live
                      /\ view # None => view.ready = ProviderReady(view.id) /\ providers = key
    BY DEF LastChoiceShown, ListComplete, ReadinessShown
  <1>1. RequestInv /\ Follows
    BY DEF WebInv, FollowInv
  <1>2. \A d \in Slots : ~Bears(calls[d])
    BY IdleBearsNothing DEF Quiet
  <1>3. /\ chosen # 0 => view.id = chosen
        /\ list = Live /\ providers = key
        /\ view # None => view.ready = ProviderReady(view.id)
    BY <1>1, <1>2, AllSettled DEF Follows
  <1>4. view = None => view.id = 0
    BY DEF None
  <1>5. QED
    BY <1>3, <1>4

\* Whatever overtakes what, the page ends up with what was chosen last, the whole list and
\* the provider as it is, if nothing was lost; and it never shows a conversation as it was
\* before what it showed already: at most one call at a time will change what is shown.
THEOREM PageAlwaysFollows == Spec => PageFollows
  <1>1. Spec => []WebInv
    BY WebInit, WebSteps, PTL DEF Spec
  <1>2. Spec => []FollowInv
    BY <1>1, FollowsInit, FollowInvSteps, PTL DEF Spec
  <1>3. Spec => [](LastChoiceShown /\ ListComplete /\ ReadinessShown)
    BY <1>1, <1>2, NothingMissing, PTL
  <1>4. WebInv /\ FollowInv /\ [Next]_vars
           => [Patient /\ view # None /\ view'.id = view.id => view'.version >= view.version]_vars
    BY ViewNeverFallsBack
  <1>5. Spec => ViewNeverGoesBack
    BY <1>1, <1>2, <1>4, PTL DEF Spec, ViewNeverGoesBack
  <1>6. QED
    BY <1>3, <1>5 DEF PageFollows

=============================================================================

------------------------------ MODULE WebClient ------------------------------
(***************************************************************************)
(* The web application (apps/web): the state of its one page, the handlers *)
(* that await requests to the local web API (shadowseed_webapi), and the   *)
(* API itself, which takes POST requests one at a time and answers GET     *)
(* requests beside them.                                                   *)
(*                                                                         *)
(* A handler runs undisturbed between two awaits.  Meanwhile other handlers*)
(* start, the server answers in any order, and an answer or a request may  *)
(* be lost.  A request id of the page (sessionRequestId, refreshRequestId, *)
(* seedRequestId) is only ever compared with the latest one: every pending *)
(* call carries whether it is still the latest of its kind.                *)
(***************************************************************************)
EXTENDS Integers, Sequences, FiniteSets

CONSTANTS
    MaxSessions,  \* bound: conversations
    Seeds,        \* seed ids, counted from ss_001 in every conversation
    NSlots,       \* bound: handlers waiting at a time
    Persons       \* the circumstances to look at, one of them chosen in Init

Sessions == 1..MaxSessions
Slots == 1..NSlots
Kinds == {"select", "open", "close", "confirm", "send", "edit", "create", "act", "provider"}

Calls == {"idle", "refresh", "select", "open", "send", "create", "act", "provider"}

ASSUME WebAssumption ==
    /\ MaxSessions \in Nat /\ IsFiniteSet(Seeds) /\ 0 \notin Seeds /\ NSlots \in Nat \ {0}
    /\ Persons \in
         \* live: conversations there are when the page opens, numbered as they were created
         Seq([live : {1..n : n \in 0..MaxSessions},
              external : SUBSET Sessions,  \* conversations held with the external provider
              habits : SUBSET Kinds,       \* what the person does
              impatient : SUBSET (Kinds \X Calls),  \* and does without waiting for what
              actions : Nat, failures : Nat])   \* bounds

VARIABLES
    who,         \* the person
    server,      \* what is recorded for every conversation
    key,         \* the process of the server has a key for the external provider
    view, list,  \* session and sessions: the conversation shown, the list beside it
    detail,      \* selectedSeed
    providers,   \* openaiStatus.ready, as the page last heard of it
    consent,     \* externalTurnConfirmed: where it was ticked (history), or 0
    turnRetry,   \* retryTurn
    seedRetry,   \* retrySeedAction
    busy,        \* the flags sending, creating, loadingSession, ... that are set
    calls,       \* the handlers that wait for an answer
    chosen,      \* history: the conversation the person selected or created last
    asked,       \* history: what the person meant as a new question or a new action
    spent        \* bounds used up, and request ids issued

inst == Persons[who]

page == <<view, list, detail, providers, consent, turnRetry, seedRetry, busy>>
vars == <<who, server, key, page, calls, chosen, asked, spent>>

None == [id |-> 0]
View == [id : Sessions, version : Nat, ready : BOOLEAN]
Detail == [id : Sessions, seed : Seeds, version : Nat]

\* An effect is recorded under its request id; meant is where the person saw the seed, or
\* confirmed that the provider be sent the question.
Effect == [kind : {"turn", "action"}, seed : Seeds \cup {0}, request : Nat,
           meant : Sessions \cup {0}]

Reply == [id : Sessions \cup {0}, version : Nat, ready : BOOLEAN, ids : SUBSET Sessions]
NoReply == [id |-> 0, version |-> 0, ready |-> FALSE, ids |-> {}]

Flags == {"sending", "creating", "loading", "acting", "provider"}

\* step is the request a handler waits for, id and seed what it captured when it began,
\* fresh whether its page request id is still the latest.
Call == [kind : Calls,
         step : {"none", "list", "get", "seed", "turn", "action", "create", "credential", "clear"},
         phase : {"none", "sent", "answered", "failed"},
         id : Sessions \cup {0}, seed : Seeds \cup {0}, meant : Sessions \cup {0},
         request : Nat, fresh : BOOLEAN, reply : Reply]

Waiting(kind, step, id, seed) ==
    [kind |-> kind, step |-> step, phase |-> "sent", id |-> id, seed |-> seed,
     meant |-> 0, request |-> 0, fresh |-> TRUE, reply |-> NoReply]
Idle == [Waiting("idle", "none", 0, 0) EXCEPT !.phase = "none"]

Live == {s \in Sessions : server[s] # <<>>}
Version(s) == Len(server[s])

\* Seeds come with the first turn; the first entry of a log is its creation.
HasSeeds(s) == \E i \in 2..Len(server[s]) : server[s][i].kind = "turn"

Recorded(s, request) == \E i \in 2..Len(server[s]) : server[s][i].request = request

-----------------------------------------------------------------------------
(* The page's request ids: starting a newer call makes the others stale.   *)

Stale(cs, Outdated(_)) ==
    [c \in Slots |-> IF Outdated(cs[c]) THEN [cs[c] EXCEPT !.fresh = FALSE] ELSE cs[c]]

\* Variant: a late conversation is shown although a newer one was asked for.
NewSessionIdUnchecked(cs) == cs

\* sessionRequestId, refreshRequestId, seedRequestId
NewSessionId(cs) ==
    LET Outdated(call) == call.step = "get" /\ call.kind \in {"refresh", "select"}
    IN Stale(cs, Outdated)
NewRefreshId(cs) ==
    LET Outdated(call) == call.step = "list" /\ call.kind = "refresh" IN Stale(cs, Outdated)
NewSeedId(cs) == LET Outdated(call) == call.step = "seed" IN Stale(cs, Outdated)

Continue(c, cs, step) ==
    [cs EXCEPT ![c].step = step, ![c].phase = "sent", ![c].fresh = TRUE, ![c].reply = NoReply]
Done(c, cs) == [cs EXCEPT ![c] = Idle]

-----------------------------------------------------------------------------
(* What the person does.  Every handler takes a free slot.                 *)

\* What the page allows is more than what a person does who waits for an answer.
Ready(kind) ==
    /\ kind \in inst.habits /\ spent.actions < inst.actions
    /\ \A c \in Slots : \/ calls[c].kind \in {"idle", "open"}
                        \/ <<kind, calls[c].kind>> \in inst.impatient

Act(kind) == Ready(kind) /\ spent' = [spent EXCEPT !.actions = @ + 1]

\* Slots are alike: a handler takes the first that is free.
Free(c) == calls[c] = Idle /\ \A d \in Slots : d < c => calls[d] # Idle

\* Variant: the seed of the conversation that is left stays open.
KeepDetail == UNCHANGED detail

ClearDetail == detail' = None

\* Variant: what was confirmed for one conversation stays confirmed.
KeepConsent == UNCHANGED consent

ClearConsent == consent' = 0

\* selectSession
Select(c, s) ==
    /\ Act("select") /\ Free(c) /\ s \in list
    /\ busy \cap {"sending", "creating", "acting"} = {}
    /\ turnRetry' = None /\ ClearDetail /\ seedRetry' = None /\ ClearConsent
    /\ busy' = busy \cup {"loading"}
    /\ calls' = [NewSessionId(NewRefreshId(NewSeedId(calls)))
                    EXCEPT ![c] = Waiting("select", "get", s, 0)]
    /\ chosen' = s
    /\ UNCHANGED <<who, server, key, view, list, providers, asked>>

\* openSeed
Open(c, seed) ==
    /\ Act("open") /\ Free(c) /\ view # None /\ HasSeeds(view.id)
    /\ "acting" \notin busy
    /\ calls' = [NewSeedId(calls) EXCEPT ![c] = Waiting("open", "seed", view.id, seed)]
    /\ UNCHANGED <<who, server, key, page, chosen, asked>>

\* clearSeedDetail
Close ==
    /\ Act("close") /\ detail # None /\ "acting" \notin busy
    /\ detail' = None /\ seedRetry' = None
    /\ calls' = NewSeedId(calls)
    /\ UNCHANGED <<who, server, key, view, list, providers, consent, turnRetry, busy, chosen, asked>>

\* Variant: every attempt to send is given a request id of its own.
TurnRequestAlwaysNew == spent.requests + 1

\* The request id of the last failure serves again for the same text in the same place.
TurnRequest ==
    IF turnRetry # None /\ turnRetry.id = view.id THEN turnRetry.request
    ELSE spent.requests + 1

\* The box below the question: it may be sent to the external provider.
Confirm ==
    /\ Act("confirm") /\ view # None /\ view.id \in inst.external /\ view.ready
    /\ consent = 0 /\ busy \cap {"sending", "loading"} = {}
    /\ consent' = view.id
    /\ UNCHANGED <<who, server, key, view, list, detail, providers, turnRetry, seedRetry,
                   busy, calls, chosen, asked>>

MaySend ==
    /\ busy \cap {"sending", "loading", "acting"} = {}
    /\ view.id \in inst.external => view.ready /\ consent # 0

\* onSend
Send(c) ==
    LET request == TurnRequest
        anew == turnRetry = None \/ turnRetry.id # view.id
    IN /\ Ready("send") /\ Free(c) /\ view # None
       /\ MaySend
       /\ busy' = busy \cup {"sending"}
       /\ calls' = [calls EXCEPT ![c] =
             [Waiting("send", "turn", view.id, IF detail = None THEN 0 ELSE detail.seed)
                 EXCEPT !.request = request,
                        !.meant = IF view.id \in inst.external THEN consent ELSE 0]]
       /\ asked' = IF anew THEN asked + 1 ELSE asked
       /\ spent' = [spent EXCEPT !.actions = @ + 1,
                                 !.requests = IF request > @ THEN request ELSE @]
       /\ UNCHANGED <<who, server, key, view, list, detail, providers, consent, turnRetry, seedRetry, chosen>>

\* The question is changed: an earlier attempt is forgotten.
Edit ==
    /\ Act("edit") /\ turnRetry # None
    /\ turnRetry' = None
    /\ UNCHANGED <<who, server, key, view, list, detail, providers, consent, seedRetry, busy, calls, chosen, asked>>

NewSession == Cardinality(Live) + 1

\* onCreate, with the provider the person chose and confirmed
Create(c) ==
    /\ Act("create") /\ Free(c)
    /\ busy = {}
    /\ NewSession \in inst.external => providers
    /\ busy' = busy \cup {"creating"}
    /\ calls' = [calls EXCEPT ![c] = Waiting("create", "create", 0, 0)]
    /\ UNCHANGED <<who, server, key, view, list, detail, providers, consent, turnRetry, seedRetry, chosen, asked>>

SameAction == seedRetry # None /\ seedRetry.id = view.id /\ seedRetry.seed = detail.seed

\* onSubmitEvidence, onContradictSeed and onResolveContradiction with what was entered
\* before; what is entered anew has another fingerprint.
ActOnSeed(c, again) ==
    LET request == IF again THEN seedRetry.request ELSE spent.requests + 1
    IN /\ Ready("act") /\ Free(c) /\ view # None /\ detail # None /\ "acting" \notin busy
       /\ again => SameAction
       /\ busy' = busy \cup {"acting"}
       /\ calls' = [calls EXCEPT ![c] =
             [Waiting("act", "action", view.id, detail.seed)
                 EXCEPT !.request = request, !.meant = detail.id]]
       /\ asked' = IF again THEN asked ELSE asked + 1
       /\ spent' = [spent EXCEPT !.actions = @ + 1,
                                 !.requests = IF request > @ THEN request ELSE @]
       /\ UNCHANGED <<who, server, key, view, list, detail, providers, consent, turnRetry, seedRetry, chosen>>

ChangeKey(c, step) ==
    /\ Act("provider") /\ Free(c) /\ "provider" \notin busy
    /\ busy' = busy \cup {"provider"}
    /\ calls' = [calls EXCEPT ![c] =
                    Waiting("provider", step, IF view = None THEN 0 ELSE view.id, 0)]
    /\ UNCHANGED <<who, server, key, view, list, detail, providers, consent, turnRetry, seedRetry, chosen, asked>>

\* onConfigureOpenAI, onClearOpenAI
Configure(c) == ChangeKey(c, "credential")
Clear(c) == ChangeKey(c, "clear")

-----------------------------------------------------------------------------
(* The server: one POST at a time under mutation_lock, GETs beside it.     *)

Answer(c, reply) ==
    /\ calls' = [calls EXCEPT ![c].phase = "answered", ![c].reply = reply]
    /\ UNCHANGED <<who, page, chosen, asked, spent>>

\* provider_ready: a conversation with the external provider needs a key.
ProviderReady(s) == s \in inst.external => key

\* A conversation as it is returned, when so much of it is recorded.
SessionPayload(s, version) ==
    [id |-> s, version |-> version, ready |-> ProviderReady(s), ids |-> {}]

Read(c) ==
    LET s == calls[c].id IN
    /\ calls[c].phase = "sent"
    /\ \/ calls[c].step = "list" /\ Answer(c, [NoReply EXCEPT !.ids = Live])
       \/ /\ calls[c].step = "get" \/ (calls[c].step = "seed" /\ HasSeeds(s))
          /\ Answer(c, SessionPayload(s, Version(s)))
    /\ UNCHANGED <<server, key>>

\* What a request id was recorded for is answered from the record.
RecordOnce(c, effect) ==
    LET s == calls[c].id IN
    /\ server' = [server EXCEPT ![s] =
                     IF Recorded(s, effect.request) THEN @ ELSE Append(@, effect)]
    /\ Answer(c, SessionPayload(s, Len(server'[s])))
    /\ UNCHANGED key

Mutation(c, seed) ==
    [kind |-> calls[c].step, seed |-> seed,
     request |-> calls[c].request, meant |-> calls[c].meant]

RunTurn(c) ==
    /\ calls[c].phase = "sent" /\ calls[c].step = "turn"
    /\ ProviderReady(calls[c].id)
    /\ RecordOnce(c, Mutation(c, 0))

\* submit_evidence, contradict_seed, resolve_contradiction
MutateSeed(c) ==
    /\ calls[c].phase = "sent" /\ calls[c].step = "action" /\ HasSeeds(calls[c].id)
    /\ RecordOnce(c, Mutation(c, calls[c].seed))

Found(c) ==
    LET birth == [kind |-> "turn", seed |-> 0, request |-> 0, meant |-> 0]
    IN /\ calls[c].phase = "sent" /\ calls[c].step = "create"
       /\ NewSession \in Sessions /\ ProviderReady(NewSession)
       /\ server' = [server EXCEPT ![NewSession] = <<birth>>]
       /\ Answer(c, SessionPayload(NewSession, 1))
       /\ UNCHANGED key

\* configure_openai, clear_openai: the key lives in the process, nowhere else.
SetKey(c) ==
    /\ calls[c].phase = "sent" /\ calls[c].step \in {"credential", "clear"}
    /\ key' = (calls[c].step = "credential")
    /\ Answer(c, [NoReply EXCEPT !.ready = key'])
    /\ UNCHANGED server

\* There is no such seed in that conversation, no key, or no room for another one.
Reject(c) ==
    /\ calls[c].phase = "sent"
    /\ \/ calls[c].step \in {"seed", "action"} /\ ~HasSeeds(calls[c].id)
       \/ calls[c].step = "turn" /\ ~ProviderReady(calls[c].id)
       \/ calls[c].step = "create" /\ (NewSession \in Sessions => ~ProviderReady(NewSession))
    /\ calls' = [calls EXCEPT ![c].phase = "failed"]
    /\ UNCHANGED <<who, server, key, page, chosen, asked, spent>>

\* The request or its answer is lost.
Lose(c) ==
    /\ calls[c].phase \in {"sent", "answered"} /\ spent.failures < inst.failures
    /\ calls' = [calls EXCEPT ![c].phase = "failed", ![c].reply = NoReply]
    /\ spent' = [spent EXCEPT !.failures = @ + 1]
    /\ UNCHANGED <<who, server, key, page, chosen, asked>>

Serve(c) == Read(c) \/ RunTurn(c) \/ MutateSeed(c) \/ Found(c) \/ SetKey(c) \/ Reject(c)

-----------------------------------------------------------------------------
(* What a handler does with an answer.                                     *)

Got(c, kind, step) ==
    /\ calls[c].kind = kind /\ calls[c].step = step /\ calls[c].phase = "answered"
    /\ UNCHANGED <<who, server, key, asked, spent>>
Lost(c, kind, step) ==
    /\ calls[c].kind = kind /\ calls[c].step = step /\ calls[c].phase = "failed"
    /\ UNCHANGED <<who, server, key, asked, spent>>

ViewOf(reply) == [id |-> reply.id, version |-> reply.version, ready |-> reply.ready]

\* refreshSessions: the list, and then the first conversation of it.
Listed(c) ==
    LET ids == calls[c].reply.ids IN
    /\ Got(c, "refresh", "list")
    /\ \/ /\ calls[c].fresh /\ ids # {}
          /\ list' = ids
          /\ busy' = busy \cup {"loading"}
          /\ \E first \in ids :
                /\ calls' = [NewSessionId(calls) EXCEPT ![c] = Waiting("refresh", "get", first, 0)]
                /\ chosen' = first
          /\ UNCHANGED view
       \/ /\ calls[c].fresh /\ ids = {}
          /\ list' = ids /\ view' = None /\ busy' = busy \ {"loading"}
          /\ calls' = Done(c, NewSessionId(calls))
          /\ UNCHANGED chosen
       \/ /\ ~calls[c].fresh
          /\ calls' = Done(c, calls)
          /\ UNCHANGED <<view, list, busy, chosen>>
    /\ UNCHANGED <<detail, providers, consent, turnRetry, seedRetry>>

\* loadSession
Loaded(c) ==
    /\ \E kind \in {"refresh", "select"} : Got(c, kind, "get")
    /\ view' = IF calls[c].fresh THEN ViewOf(calls[c].reply) ELSE view
    /\ busy' = IF calls[c].fresh THEN busy \ {"loading"} ELSE busy
    /\ calls' = Done(c, calls)
    /\ UNCHANGED <<list, detail, providers, consent, turnRetry, seedRetry, chosen>>

Unshown(c) == UNCHANGED view

NotLoaded(c) ==
    /\ \/ \E kind \in {"refresh", "select"} : Lost(c, kind, "get")
       \/ Lost(c, "refresh", "list")
    /\ busy' = IF calls[c].fresh /\ calls[c].step = "get" THEN busy \ {"loading"} ELSE busy
    /\ calls' = Done(c, calls)
    /\ Unshown(c)
    /\ UNCHANGED <<list, detail, providers, consent, turnRetry, seedRetry, chosen>>

ShowSeed(c) ==
    detail' = IF calls[c].fresh
              THEN [id |-> calls[c].id, seed |-> calls[c].seed,
                    version |-> calls[c].reply.version]
              ELSE detail

Opened(c) ==
    /\ \/ Got(c, "open", "seed") /\ ShowSeed(c)
       \/ Lost(c, "open", "seed") /\ UNCHANGED detail
    /\ calls' = Done(c, calls)
    /\ UNCHANGED <<view, list, providers, consent, turnRetry, seedRetry, busy, chosen>>

\* What was confirmed was confirmed for one turn.
UseConsent(c) == consent' = IF calls[c].id \in inst.external THEN 0 ELSE consent

\* onSend after the turn: the seed that was open when it was sent is read again.
Sent(c) ==
    /\ Got(c, "send", "turn")
    /\ view' = ViewOf(calls[c].reply)
    /\ \/ /\ calls[c].seed # 0
          /\ calls' = Continue(c, NewSeedId(calls), "seed")
          /\ UNCHANGED <<turnRetry, consent>>
       \/ /\ calls[c].seed = 0
          /\ turnRetry' = None /\ UseConsent(c)
          /\ calls' = Continue(c, calls, "list")
    /\ UNCHANGED <<list, detail, providers, seedRetry, busy, chosen>>

NotSent(c) ==
    /\ Lost(c, "send", "turn")
    /\ turnRetry' = [id |-> calls[c].id, request |-> calls[c].request]
    /\ busy' = busy \ {"sending"}
    /\ calls' = Done(c, calls)
    /\ UNCHANGED <<view, list, detail, providers, consent, seedRetry, chosen>>

\* refreshSeedAfterMutation
Refreshed(c) ==
    /\ \/ \E kind \in {"send", "act"} : Got(c, kind, "seed") /\ ShowSeed(c)
       \/ /\ \E kind \in {"send", "act"} : Lost(c, kind, "seed")
          /\ detail' = IF calls[c].fresh THEN None ELSE detail
    /\ \/ /\ calls[c].kind = "send"
          /\ turnRetry' = None /\ UseConsent(c)
          /\ calls' = Continue(c, calls, "list")
          /\ UNCHANGED busy
       \/ /\ calls[c].kind = "act"
          /\ busy' = busy \ {"acting"}
          /\ calls' = Done(c, calls)
          /\ UNCHANGED <<turnRetry, consent>>
    /\ UNCHANGED <<view, list, providers, seedRetry, chosen>>

TakeList(c) == list' = calls[c].reply.ids

\* setSessions(await listSessions()) at the end of a turn or a creation: unguarded.
ListRefreshed(c) ==
    /\ \/ \E kind \in {"send", "create"} : Got(c, kind, "list") /\ TakeList(c)
       \/ \E kind \in {"send", "create"} : Lost(c, kind, "list") /\ UNCHANGED list
    /\ busy' = busy \ {IF calls[c].kind = "send" THEN "sending" ELSE "creating"}
    /\ calls' = Done(c, calls)
    /\ UNCHANGED <<view, detail, providers, consent, turnRetry, seedRetry, chosen>>

\* onCreate
Created(c) ==
    /\ Got(c, "create", "create")
    /\ view' = ViewOf(calls[c].reply) /\ chosen' = calls[c].reply.id
    /\ turnRetry' = None /\ detail' = None /\ seedRetry' = None /\ consent' = 0
    /\ busy' = busy \ {"loading"}
    /\ calls' = Continue(c, NewSessionId(NewRefreshId(NewSeedId(calls))), "list")
    /\ UNCHANGED <<list, providers>>

NotCreated(c) ==
    /\ Lost(c, "create", "create")
    /\ busy' = busy \ {"creating"}
    /\ calls' = Done(c, calls)
    /\ UNCHANGED <<view, list, detail, providers, consent, turnRetry, seedRetry, chosen>>

\* An action on a seed: the conversation it returns, and its seed, replace the page's.
Acted(c) ==
    /\ Got(c, "act", "action")
    /\ view' = ViewOf(calls[c].reply) /\ seedRetry' = None
    /\ calls' = Continue(c, NewSeedId(calls), "seed")
    /\ UNCHANGED <<list, detail, providers, consent, turnRetry, busy, chosen>>

\* Variant: a failed action leaves its busy flag behind.
NotActedBusy(c) ==
    /\ Lost(c, "act", "action")
    /\ seedRetry' = [id |-> calls[c].id, seed |-> calls[c].seed, request |-> calls[c].request]
    /\ calls' = Done(c, calls)
    /\ UNCHANGED <<view, list, detail, providers, consent, turnRetry, busy, chosen>>

NotActed(c) ==
    /\ Lost(c, "act", "action")
    /\ seedRetry' = [id |-> calls[c].id, seed |-> calls[c].seed, request |-> calls[c].request]
    /\ busy' = busy \ {"acting"}
    /\ calls' = Done(c, calls)
    /\ UNCHANGED <<view, list, detail, providers, consent, turnRetry, chosen>>

\* syncSelectedProviderReadiness reads the conversation shown when the handler began.
Sync(c) == calls[c].id # 0

\* A provider was configured or cleared: its status, the list, the conversation shown.
Configured(c) ==
    /\ \/ /\ \E step \in {"credential", "clear"} : Got(c, "provider", step)
          /\ providers' = calls[c].reply.ready
          /\ calls' = Continue(c, calls, "list")
          /\ UNCHANGED <<view, list, busy>>
       \/ /\ Got(c, "provider", "list") /\ TakeList(c)
          /\ IF Sync(c)
             THEN calls' = Continue(c, calls, "get") /\ UNCHANGED busy
             ELSE calls' = Done(c, calls) /\ busy' = busy \ {"provider"}
          /\ UNCHANGED <<view, providers>>
       \/ /\ Got(c, "provider", "get") /\ view' = ViewOf(calls[c].reply)
          /\ calls' = Done(c, calls) /\ busy' = busy \ {"provider"}
          /\ UNCHANGED <<list, providers>>
    /\ UNCHANGED <<detail, consent, turnRetry, seedRetry, chosen>>

NotConfigured(c) ==
    /\ \E step \in {"credential", "clear", "list", "get"} : Lost(c, "provider", step)
    /\ busy' = busy \ {"provider"}
    /\ calls' = Done(c, calls)
    /\ UNCHANGED <<view, list, detail, providers, consent, turnRetry, seedRetry, chosen>>

Deliver(c) ==
    \/ Listed(c) \/ Loaded(c) \/ NotLoaded(c) \/ Opened(c)
    \/ Sent(c) \/ NotSent(c) \/ Refreshed(c) \/ ListRefreshed(c)
    \/ Created(c) \/ NotCreated(c) \/ Acted(c) \/ NotActed(c)
    \/ Configured(c) \/ NotConfigured(c)

-----------------------------------------------------------------------------
\* The page opens and asks for the list.
Init ==
    LET birth == [kind |-> "turn", seed |-> 0, request |-> 0, meant |-> 0] IN
    /\ who \in DOMAIN Persons
    /\ server = [s \in Sessions |-> IF s \in inst.live THEN <<birth, birth>> ELSE <<>>]
    /\ key = FALSE /\ providers = FALSE
    /\ view = None /\ list = {} /\ detail = None /\ consent = 0
    /\ turnRetry = None /\ seedRetry = None
    /\ busy = {}
    /\ calls = [c \in Slots |-> IF c = 1 THEN Waiting("refresh", "list", 0, 0) ELSE Idle]
    /\ chosen = 0 /\ asked = 0
    /\ spent = [actions |-> 0, failures |-> 0, requests |-> 0]

Next ==
    \/ \E c \in Slots :
         \/ \E s \in Sessions : Select(c, s)
         \/ \E seed \in Seeds : Open(c, seed)
         \/ Send(c) \/ Create(c) \/ Configure(c) \/ Clear(c)
         \/ \E again \in BOOLEAN : ActOnSeed(c, again)
         \/ Serve(c) \/ Lose(c) \/ Deliver(c)
    \/ Close \/ Confirm \/ Edit

Spec == Init /\ [][Next]_vars

\* The server answers every request it got, and the browser runs every continuation.
Fairness == \A c \in Slots : WF_vars(Serve(c)) /\ WF_vars(Deliver(c))

FairSpec == Spec /\ Fairness

-----------------------------------------------------------------------------
(* Properties                                                              *)

TypeOK ==
    /\ who \in DOMAIN Persons
    /\ server \in [Sessions -> Seq(Effect)]
    /\ key \in BOOLEAN /\ providers \in BOOLEAN /\ consent \in Sessions \cup {0}
    /\ view \in View \cup {None} /\ list \subseteq Sessions /\ detail \in Detail \cup {None}
    /\ busy \subseteq Flags
    /\ calls \in [Slots -> Call]

\* A person who waits for what the page is doing, but may select another conversation,
\* close a seed or try to send while one loads, and look at seeds while an answer is
\* written.  Not one who opens a seed while another conversation loads: openSeed shows the
\* answer over whichever conversation is there by then, and what is entered for the seed
\* goes to the one of the same id there.
Patient ==
    inst.impatient \subseteq ({"select", "close", "send"} \X {"refresh", "select"})
                             \cup ({"open", "close"} \X {"send"})

Quiet == \A c \in Slots : calls[c] = Idle

\* Whatever overtakes what, the page ends up with the conversation selected or created
\* last, if nothing was lost (loadSession, refreshSessions, onCreate).
LastChoiceShown ==
    Patient /\ Quiet /\ spent.failures = 0 /\ chosen # 0 => view # None /\ view.id = chosen

\* A seed that is open is a seed of the conversation shown: what is entered for it is
\* sent to the conversation shown, where the same seed id names another seed.
DetailBelongsToView == Patient /\ detail # None => detail.id = view.id

\* Every action the server recorded was meant for the seed of that conversation, and no
\* question reached the external provider unless it was confirmed where it was asked.
ActionsReachTheirSeed ==
    Patient => \A s \in Sessions : \A i \in 2..Len(server[s]) :
        LET effect == server[s][i] IN
        /\ effect.meant \in {0, s}
        /\ effect.request # 0 /\ (effect.kind = "action" \/ s \in inst.external)
              => effect.meant = s

\* The conversation shown never goes back to an earlier state of itself.
ViewNeverGoesBack ==
    [][Patient /\ view # None /\ view'.id = view.id => view'.version >= view.version]_vars

\* Questions and actions take effect once however often they are sent again after an
\* error: the log grows by no more than what the person meant.
Effects == UNION {{<<s, i>> : i \in 2..Len(server[s])} : s \in Sessions}
OncePerRequest ==
    Cardinality(Effects) - Cardinality(inst.live) <= asked

\* When everything has been answered the page knows whether the conversation it shows can be
\* continued, and whether one with the external provider can be started.
ReadinessShown ==
    Patient /\ Quiet /\ spent.failures = 0 /\ view # None =>
        view.ready = ProviderReady(view.id) /\ providers = key

\* When everything has been answered the list has every conversation, if nothing was lost.
ListComplete == Patient /\ Quiet /\ spent.failures = 0 => list = Live

\* What is open belongs to what is shown, and what was sent for it reached it.
ActionsStayTogether == TypeOK /\ DetailBelongsToView /\ ActionsReachTheirSeed

\* The page follows what the person chose last and never falls back behind what it showed.
PageFollows == [](LastChoiceShown /\ ListComplete /\ ReadinessShown) /\ ViewNeverGoesBack

\* No flag stays set: every part of the page can be used again.
PageComesBack == \A flag \in Flags : flag \in busy ~> flag \notin busy
=============================================================================

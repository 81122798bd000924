--------------------------- MODULE WorkbenchPage ---------------------------
(***************************************************************************)
(* The page of the Workbench (workbench/simple_app_vnext.py): one browser  *)
(* page over several conversations, built from components whose values the *)
(* handlers take as inputs when an event occurs and assign as outputs when *)
(* they have returned.  In between the user goes on working.               *)
(*                                                                         *)
(* Gradio runs the handlers of different listeners side by side.  While    *)
(* the event of a listener is in flight it takes no other, except that a   *)
(* change listener runs again, on the values of then, when it has ended.   *)
(***************************************************************************)
EXTENDS Naturals, Sequences, FiniteSets

CONSTANTS
    Conversations, Nobody,   \* Nobody: no conversation
    Uses,      \* which buttons a user works with, beside the lists
    Seeds,     \* what the conversations may have noticed before
    MaxMessages, MaxEvents, MaxErrors   \* bounds on what is typed, each user does, and fails

ASSUME WorkbenchPageAssumption ==
    /\ Nobody \notin Conversations
    /\ MaxMessages \in Nat /\ MaxEvents \in [Uses -> Nat] /\ MaxErrors \in Nat

VARIABLES
    server,   \* the conversations, through the controller
    page,     \* the values of the components
    built,    \* the values a page that is loaded begins with
    jobs,     \* per listener, its event in flight
    typed,    \* messages typed so far
    uses,     \* the buttons of this user
    spent,    \* what the user did so far, and how many handlers failed
    past      \* history: what explains a page that is not what it seems

pageVars == <<server, page, built, jobs, typed, uses, spent, past>>

\* A message is a number, an empty box 0.  A conversation has at most the seed ss_001.
Empty == 0
Boxes == {"ask", "inquiry"}
Asks == {"button", "enter", "research"}
SeedActions == {"contradict", "support", "resolve"}
Changes == {"select", "controls", "inspect"}
Clicks == Asks \cup SeedActions \cup {"ingest", "create", "preset", "save"}
Listeners == Changes \cup Clicks
BoxOf(l) == IF l = "research" THEN "inquiry" ELSE "ask"

-----------------------------------------------------------------------------
(* The server.                                                             *)

\* settings names the conversation they were read from; seed is as the panel shows it.
Unmade == [made |-> FALSE, settings |-> Nobody, turns |-> <<>>, seed |-> "none"]
Fresh(s, seed) == [Unmade EXCEPT !.made = TRUE, !.settings = s, !.seed = seed]

NoView == [of |-> Nobody, n |-> 0, seed |-> "none"]
ViewOf(srv, s) ==
    IF s = Nobody THEN NoView ELSE [of |-> s, n |-> Len(srv[s].turns), seed |-> srv[s].seed]

\* _seed_action_flags
Flags(seed) ==
    {a \in SeedActions : \/ a = "contradict" /\ seed \in {"open", "wanting"}
                         \/ a = "support" /\ seed = "wanting"
                         \/ a = "resolve" /\ seed = "blocked"}

-----------------------------------------------------------------------------
(* Events.                                                                 *)

NoEvent == [step |-> "free", s |-> Nobody, m |-> Empty, picked |-> FALSE, of |-> Nobody,
            ticked |-> FALSE, again |-> FALSE, live |-> TRUE, ok |-> FALSE, view |-> NoView,
            odd |-> FALSE]

InFlight(l) == jobs[l].step # "free"

\* The inputs of a listener, as the components are now.
Inputs(l, p) ==
    LET sent == [NoEvent EXCEPT !.step = "sent",
                                !.s = IF l \in {"select", "controls"} THEN p.selector ELSE p.active]
    IN  CASE l \in Asks -> [sent EXCEPT !.m = p.box[BoxOf(l)]]
          [] l \in SeedActions \cup {"inspect"} ->
                [sent EXCEPT !.picked = p.picked, !.ticked = p.ticked, !.of = p.story.of]
          [] l = "save" -> [sent EXCEPT !.of = p.form]
          [] OTHER -> sent

\* Change listeners: session_select, twice, and seed_select.
TriggeredOnce(old, new) ==
    {l \in Changes : \/ l = "select" /\ new.selector # old.selector
                     \/ l = "inspect" /\ new.picked # old.picked}
Triggered(old, new) ==
    {l \in Changes : \/ l \in {"select", "controls"} /\ new.selector # old.selector
                     \/ l = "inspect" /\ new.picked # old.picked}

\* The components change: listeners in ls start, or will start again.
ComponentsBecome(base, ls, new) ==
    /\ page' = new
    /\ jobs' = [l \in Listeners |->
                  IF l \notin ls THEN base[l]
                  ELSE IF base[l].step = "free" THEN Inputs(l, new)
                  ELSE [base[l] EXCEPT !.again = TRUE]]

UserDoes ==
    /\ spent.events < MaxEvents[uses] /\ spent' = [spent EXCEPT !.events = @ + 1]
    /\ UNCHANGED <<built, uses>>

\* Clicks of another conversation than s are under way.
Crossed(s) ==
    \E k \in Clicks \ {"create"} : InFlight(k) /\ jobs[k].live /\ jobs[k].s # s

Choose(s) ==
    /\ UserDoes /\ s \in page.listed
    /\ LET new == [page EXCEPT !.selector = s]
       IN  ComponentsBecome(jobs, Triggered(page, new), new)
    /\ past' = [past EXCEPT !.crossing = (@ /\ InFlight("select")) \/ Crossed(s)]
    /\ UNCHANGED <<server, typed>>

\* Choosing in the list of the panel, or opening what was recently noticed.
ChooseSeed ==
    /\ UserDoes /\ page.memory.seed # "none"
    /\ LET new == [page EXCEPT !.picked = TRUE]
       IN  ComponentsBecome(jobs, Triggered(page, new), new)
    /\ UNCHANGED <<server, typed, past>>

Type(b) ==
    /\ UserDoes /\ typed < MaxMessages /\ \E l \in uses \cap Asks : b = BoxOf(l)
    /\ typed' = typed + 1 /\ page' = [page EXCEPT !.box[b] = typed']
    /\ UNCHANGED <<server, jobs, past>>

Tick ==
    /\ UserDoes /\ "support" \in uses /\ ~page.ticked
    /\ page' = [page EXCEPT !.ticked = TRUE]
    /\ UNCHANGED <<server, jobs, typed, past>>

\* What excuses an input that is not of the active conversation: its component is about
\* to change, or is already known to show something else.
Unsettled(l) ==
    \/ past.mixed
    \/ l = "save" /\ (InFlight("controls") \/ InFlight("select") \/ page.form = Nobody)
    \/ l \in SeedActions /\ (InFlight("inspect") \/ page.story.seed \in {"unread", "unpicked"})

\* A button is pressed; those of a seed are there when the panel shows them.
Press(l) ==
    /\ UserDoes /\ l \in uses /\ ~InFlight(l)
    /\ l \in SeedActions => l \in page.buttons
    /\ l = "create" => \E s \in Conversations : ~server[s].made
    /\ jobs' = [jobs EXCEPT ![l] = [Inputs(l, page) EXCEPT !.odd = Unsettled(l)]]
    /\ LET again == /\ l \in {"button", "enter"}
                    /\ \E k \in {"button", "enter"} \ {l} :
                          InFlight(k) /\ jobs[k].m = page.box["ask"]
       IN  past' = [past EXCEPT !.twice = @ \cup (IF again THEN {page.box["ask"]} ELSE {}),
                                !.crossing = @ \/ InFlight("select")]
    /\ UNCHANGED <<server, page, typed>>

\* The browser loads the page again, with the values it was built with; what was sent
\* goes on without it, and until it ends is not sent again.
Reload ==
    /\ UserDoes
    /\ page' = built
    /\ jobs' = [l \in Listeners |-> IF l \in Changes \/ ~InFlight(l) THEN NoEvent
                                    ELSE [jobs[l] EXCEPT !.live = FALSE]]
    /\ past' = [past EXCEPT !.mixed = FALSE, !.crossing = FALSE, !.behind = TRUE]
    /\ UNCHANGED <<server, typed>>

-----------------------------------------------------------------------------
(* Handlers, on the server.                                                *)

\* A handler returns; ok is whether it raised no error, view what it read last.
MayFail(ok) ==
    /\ ok \/ spent.errors < MaxErrors
    /\ spent' = [spent EXCEPT !.errors = IF ok THEN @ ELSE @ + 1]
    /\ UNCHANGED <<page, built, typed, uses>>

Returns(l, ok, srv) ==
    /\ server' = srv
    /\ jobs' = [jobs EXCEPT ![l] = [jobs[l] EXCEPT !.step = "back", !.ok = ok,
                                                   !.view = ViewOf(srv, jobs[l].s)]]

Sent(l) == jobs[l].step = "sent"

\* select_shell_session, refresh_controls, inspect_seed_shell: they only read.
Read(l, ok) ==
    /\ l \in Changes /\ Sent(l) /\ MayFail(ok)
    /\ Returns(l, ok /\ (l = "inspect" => jobs[l].s # Nobody /\ jobs[l].picked
                                         /\ server[jobs[l].s].seed # "none"), server)
    /\ past' = IF l = "select" /\ \A k \in Asks : ~InFlight(k)
               THEN [past EXCEPT !.behind = FALSE] ELSE past

\* send_turn: a turn, and the first seed it may notice (what turns make of one that is
\* there is SeedGate's); or an error, before the turn was saved or after.
SendTurn(l, seed, ok, saved) ==
    LET s == jobs[l].s
        asked == s # Nobody /\ jobs[l].m # Empty
        others == {k \in Asks \cup {"select", "create"} : k # l /\ InFlight(k)}
    IN  /\ l \in Asks /\ Sent(l)
        /\ (ok => saved) /\ MayFail(ok)
        /\ saved /\ asked /\ server[s].seed # "none" => seed = server[s].seed
        /\ IF asked /\ saved
             THEN /\ Returns(l, ok, [server EXCEPT ![s].turns = Append(@, jobs[l].m),
                                                   ![s].seed = seed])
                  /\ past' = [past EXCEPT
                                !.twice = @ \cup (IF ok THEN {} ELSE {jobs[l].m}),
                                !.behind = @ \/ ~ok \/ others # {}]
             ELSE Returns(l, FALSE, server) /\ UNCHANGED past

Ingest(seed, ok) ==
    LET s == jobs["ingest"].s
    IN  /\ Sent("ingest") /\ MayFail(ok)
        /\ IF s # Nobody /\ ok /\ server[s].seed = "none"
             THEN Returns("ingest", TRUE, [server EXCEPT ![s].seed = seed])
             ELSE Returns("ingest", ok /\ s # Nobody, server)
        /\ UNCHANGED past

\* falsify_seed, submit_verified_evidence, resolve_contradiction
After(action, seed) ==
    CASE action = "contradict" -> "blocked"
      [] action = "resolve" -> "open"
      [] action = "support" -> IF seed = "blocked" THEN "blocked" ELSE "open"

Act(l, ok) ==
    LET s == jobs[l].s
        may == /\ ok /\ s # Nobody /\ jobs[l].picked /\ server[s].seed # "none"
               /\ l = "support" => jobs[l].ticked
               /\ l = "resolve" => server[s].seed = "blocked"
    IN  /\ l \in SeedActions /\ Sent(l) /\ MayFail(ok)
        /\ Returns(l, may, IF may THEN [server EXCEPT ![s].seed = After(l, @)] ELSE server)
        /\ past' = [past EXCEPT !.blind = @ \/ (may /\ jobs[l].of # s /\ ~jobs[l].odd)]

\* apply_preset has values of its own; apply_micro_settings and apply_god_json write what
\* the form shows.
SaveSettings(l, ok) ==
    LET s == jobs[l].s
        from == IF l = "preset" THEN s ELSE jobs[l].of
    IN  /\ l \in {"preset", "save"} /\ Sent(l) /\ MayFail(ok)
        /\ IF s # Nobody /\ ok
             THEN /\ Returns(l, TRUE, [server EXCEPT ![s].settings = from])
                  /\ past' = [past EXCEPT
                                !.excused = IF jobs[l].odd THEN @ \cup {s} ELSE @ \ {s}]
             ELSE Returns(l, FALSE, server) /\ UNCHANGED past

\* create_chat_with_preset: the conversation, then the settings of the preset; the second
\* may fail when the first is done.
Create(s, made, ok) ==
    /\ Sent("create") /\ (ok => made) /\ MayFail(ok)
    /\ ~server[s].made
    /\ server' = [server EXCEPT ![s] = IF made THEN Fresh(s, "none") ELSE @]
    /\ jobs' = [jobs EXCEPT !["create"] = [@ EXCEPT !.step = "back", !.ok = ok, !.s = s,
                                                    !.view = ViewOf(server', s)]]
    /\ UNCHANGED past

-----------------------------------------------------------------------------
(* Outputs, on the page.                                                   *)

\* The outputs of listener l make the page new.
Shows(l, new) ==
    /\ jobs[l].step = "back" /\ jobs[l].live
    /\ ComponentsBecome([jobs EXCEPT ![l] = NoEvent],
                        Triggered(page, new) \cup (IF jobs[l].again THEN {l} ELSE {}), new)
    /\ UNCHANGED <<server, built, typed, uses, spent>>

\* The page was left before the handler returned.
Unseen(l) ==
    /\ jobs[l].step = "back" /\ ~jobs[l].live
    /\ jobs' = [jobs EXCEPT ![l] = NoEvent]
    /\ UNCHANGED <<server, page, built, typed, uses, spent, past>>

ChatOf(v) == [of |-> v.of, n |-> v.n]
PanelOf(v) == [of |-> v.of, seed |-> v.seed]
NoStory == PanelOf(NoView)
Unread == [NoStory EXCEPT !.seed = "unread"]
Unpicked == [NoStory EXCEPT !.seed = "unpicked"]   \* choose a memory first

\* refresh_shell and what select_shell_session adds.
ShellOfChat(p, v) ==
    [p EXCEPT !.active = v.of, !.head = v.of, !.chat = ChatOf(v), !.picked = FALSE,
              !.story = NoStory]
ShellWithPick(p, v) ==
    [p EXCEPT !.active = v.of, !.head = v.of, !.chat = ChatOf(v), !.memory = PanelOf(v),
              !.story = NoStory]
Shell(p, v) ==
    [p EXCEPT !.active = v.of, !.head = v.of, !.chat = ChatOf(v), !.memory = PanelOf(v),
              !.picked = FALSE, !.story = NoStory]

ShowSelected ==
    LET j == jobs["select"]
    IN  /\ Shows("select", IF j.ok THEN Shell(page, j.view) ELSE page)
        /\ past' = [past EXCEPT !.mixed = ~j.ok \/ past.crossing]

ShowCreated ==
    LET j == jobs["create"]
    IN  /\ Shows("create",
                 IF j.ok THEN [Shell(page, j.view) EXCEPT !.selector = j.s,
                                 !.listed = {s \in Conversations : server[s].made}]
                 ELSE page)
        /\ past' = IF ~j.ok THEN past
                   ELSE [past EXCEPT !.mixed = Crossed(j.s),
                                     !.crossing = (@ /\ InFlight("select")) \/ Crossed(j.s)]

\* When the settings cannot be read the form shows defaults.
ShowControls ==
    /\ Shows("controls", [page EXCEPT !.form = IF jobs["controls"].ok
                                               THEN jobs["controls"].s ELSE Nobody])
    /\ UNCHANGED past

\* For a seed that could not be read the flags are taken of the error: it is not blocked.
ShowSeed ==
    LET j == jobs["inspect"]
    IN  /\ Shows("inspect",
                 IF j.ok THEN [page EXCEPT !.story = PanelOf(j.view),
                                           !.buttons = Flags(j.view.seed)]
                 ELSE IF j.s = Nobody \/ ~j.picked
                   THEN [page EXCEPT !.story = NoStory, !.buttons = {}]
                 ELSE [page EXCEPT !.story = Unread, !.buttons = {"contradict"}])
        /\ UNCHANGED past

\* The text stays when there was an error.
LeftKept(j) == j.m
Left(j) == IF j.ok THEN Empty ELSE j.m

\* send_shell: without an answer the chat stays as it is, and the rest is read again.
ShowAnswer(l) ==
    LET j == jobs[l]
        seen == [page EXCEPT !.box["ask"] = Left(j)]
    IN  /\ l \in {"button", "enter"}
        /\ Shows(l, IF j.s = Nobody THEN seen
                    ELSE [seen EXCEPT !.chat = IF j.ok THEN ChatOf(j.view) ELSE @,
                                      !.head = j.s, !.memory = PanelOf(j.view),
                                      !.picked = FALSE])
        /\ UNCHANGED past

\* research_comparison_shell reads the chat again in any case, and not the title.
ShowResearch ==
    LET j == jobs["research"]
        seen == [page EXCEPT !.box["inquiry"] = Left(j)]
    IN  /\ Shows("research", IF j.s = Nobody THEN seen
                             ELSE [seen EXCEPT !.chat = ChatOf(j.view),
                                               !.memory = PanelOf(j.view), !.picked = FALSE])
        /\ UNCHANGED past

ShowIngested ==
    LET j == jobs["ingest"]
    IN  /\ Shows("ingest", IF j.s = Nobody THEN page
                           ELSE [page EXCEPT !.memory = PanelOf(j.view), !.picked = FALSE])
        /\ UNCHANGED past

\* mutation_shell shows the seed as it is now, done or not; the attestation is used up
\* by what was done.  For a seed the conversation does not have the error is shown.
ShowMutation(l) ==
    LET j == jobs[l]
        seen == [page EXCEPT !.ticked = l = "support" /\ ~j.ok /\ j.ticked]
    IN  /\ l \in {"contradict", "support"}
        /\ Shows(l,
             IF j.s = Nobody THEN [seen EXCEPT !.story = NoStory, !.buttons = {}]
             ELSE IF ~j.picked
               THEN [seen EXCEPT !.memory = PanelOf(j.view), !.picked = FALSE,
                                 !.story = NoStory, !.buttons = {}]
             ELSE IF j.view.seed = "none" THEN [seen EXCEPT !.story = Unread]
             ELSE [seen EXCEPT !.memory = PanelOf(j.view), !.picked = TRUE,
                               !.story = PanelOf(j.view), !.buttons = Flags(j.view.seed)])
        /\ UNCHANGED past

\* Asked to choose a memory first, the user may have done so: the buttons stay.
ShowResolved ==
    LET j == jobs["resolve"]
    IN  /\ Shows("resolve",
                 IF j.ok THEN [page EXCEPT !.memory = PanelOf(j.view), !.picked = TRUE,
                                           !.story = PanelOf(j.view),
                                           !.buttons = Flags(j.view.seed)]
                 ELSE IF j.s = Nobody \/ ~j.picked THEN [page EXCEPT !.story = Unpicked]
                 ELSE page)
        /\ UNCHANGED past

\* The form shows what is stored, whether or not it was changed.
ShowSaved(l) ==
    /\ l \in {"preset", "save"}
    /\ Shows(l, [page EXCEPT !.form = jobs[l].s])
    /\ UNCHANGED past

-----------------------------------------------------------------------------
\* build_vnext_app: the values of a page that is loaded, read when the process started.
Started(srv, first) ==
    LET v == ViewOf(srv, first)
    IN  [active |-> first, selector |-> first, listed |-> {s \in Conversations : srv[s].made},
         head |-> first, chat |-> ChatOf(v), memory |-> PanelOf(v), form |-> first,
         story |-> NoStory, picked |-> FALSE, buttons |-> {}, ticked |-> FALSE,
         box |-> [b \in Boxes |-> Empty]]

PageInit ==
    \E made \in SUBSET Conversations, seed \in Seeds : \E first \in made \cup {Nobody} :
        /\ first = Nobody <=> made = {}
        /\ server = [c \in Conversations |-> IF c \in made THEN Fresh(c, seed) ELSE Unmade]
        /\ page = Started(server, first) /\ built = page
        /\ jobs = [l \in Listeners |-> NoEvent] /\ typed = 0 /\ uses \in Uses
        /\ spent = [events |-> 0, errors |-> 0]
        /\ past = [mixed |-> FALSE, crossing |-> FALSE, behind |-> FALSE, blind |-> FALSE,
                   twice |-> {}, excused |-> {}]

PageNext ==
    \/ \E s \in Conversations : Choose(s)
    \/ ChooseSeed \/ Tick \/ Reload
    \/ \E b \in Boxes : Type(b)
    \/ \E l \in Clicks : Press(l)
    \/ \E ok \in BOOLEAN :
          \/ \E l \in Listeners : Read(l, ok) \/ Act(l, ok) \/ SaveSettings(l, ok)
          \/ \E seed \in {"none", "open", "wanting"} :
                \/ Ingest(seed, ok)
                \/ \E l \in Asks, saved \in BOOLEAN : SendTurn(l, seed, ok, saved)
          \/ \E s \in Conversations, made \in BOOLEAN : Create(s, made, ok)
    \/ ShowSelected \/ ShowCreated \/ ShowControls \/ ShowSeed
    \/ ShowResearch \/ ShowIngested \/ ShowResolved
    \/ \E l \in Listeners : ShowAnswer(l) \/ ShowMutation(l) \/ ShowSaved(l) \/ Unseen(l)

PageSpec == PageInit /\ [][PageNext]_pageVars

-----------------------------------------------------------------------------
(* Properties.                                                             *)

\* The page shows one conversation.  Title, chat and memory are those of the active one,
\* and once nothing is under way the chat has all its turns.  The exceptions are an event
\* of another conversation under way while this one was selected, a selection that
\* failed, two turns answered at once, an error after a turn was saved, and a page loaded
\* again, which shows what there was when the process started.
PageIsCurrent ==
    /\ ~past.mixed =>
          page.head = page.active /\ page.chat.of = page.active /\ page.memory.of = page.active
    /\ ~past.mixed /\ ~past.behind /\ page.active # Nobody
       /\ (\A l \in Listeners : ~InFlight(l)) =>
          page.chat.n = Len(server[page.active].turns)

\* A conversation never gets settings that are another's, unless they were saved from a
\* form that was still to be filled, or could not be, or on a page that was mixed.
SettingsStayHome ==
    \A s \in Conversations : server[s].settings \in {s, Nobody} \/ s \in past.excused

\* Evidence, a contradiction or a resolution is recorded only for the seed whose story
\* was on the page when its button was pressed, unless another was still to be shown,
\* it could not be read (the button to contradict is there all the same), or the answer
\* to a resolution that was asked for with no seed picked had taken its place since.
SeedActionsAreSeen == ~past.blind

\* What is done on the page is done to what the page showed.
WorkStaysHome == SettingsStayHome /\ SeedActionsAreSeen

\* What was typed once is asked once: the box is cleared when the question was recorded.
\* The exceptions are a question that is sent by the button and by Enter before its
\* answer, and one that was recorded though there was an error.
AskedOnce ==
    \A s, t \in Conversations :
        \A i \in DOMAIN server[s].turns, j \in DOMAIN server[t].turns :
            server[s].turns[i] = server[t].turns[j] =>
                (s = t /\ i = j) \/ server[s].turns[i] \in past.twice
=============================================================================

----------------------------- MODULE Workbench -----------------------------
(***************************************************************************)
(* The Workbench controller above the session service                      *)
(* (workbench/controller.py, application/sessions.py and scenarios.py):    *)
(* one persisted conversation, and calls of several threads that send a    *)
(* turn, take in documents, change its settings or play an imported        *)
(* scenario.  A call validates what it is about to do on a copy it loads   *)
(* outside the lock of the session, and then works under the lock on       *)
(* another copy.                                                           *)
(*                                                                         *)
(* A setting is stored three times: in the config of the row, in the       *)
(* columns of the row, and in the state the runtime is rebuilt from.       *)
(***************************************************************************)
EXTENDS Naturals, Sequences, FiniteSets

CONSTANTS
    Calls,         \* threads that may be inside the controller at once
    Questions,     \* what may be asked
    Script,        \* the questions of the scenario
    ScriptHost,    \* the backend of the scenario
    Starts,        \* settings a conversation may be created with
    Edits,         \* what an advanced update may ask for: some settings, maybe the slider
    Levels,        \* surfacing settings, and the slider positions that stand for them
    MaxTurns, MaxStarted   \* bounds on turns and on calls

\* host is the backend, away when it sends content to an external provider; level the
\* surfacing settings; mode and span are recurrence_mode and cluster_threshold, which
\* stand for the structural settings.
Hosts == {"here", "away"}
Modes == {"cluster", "pairwise"}
Settings == [host : Hosts, level : Levels, mode : Modes, span : Nat \ {0}]
Structural == {"mode", "span"}
Unset == 0

IsEdit(e) ==
    /\ DOMAIN e \subseteq {"host", "level", "mode", "span", "slider"}
    /\ "host" \in DOMAIN e => e["host"] \in Hosts
    /\ "level" \in DOMAIN e => e["level"] \in Levels
    /\ "mode" \in DOMAIN e => e["mode"] \in Modes
    /\ "span" \in DOMAIN e => e["span"] \in Nat \ {0}
    /\ "slider" \in DOMAIN e => e["slider"] \in Levels \cup {Unset}

ASSUME WorkbenchAssumption ==
    /\ Script \in Seq(Questions) /\ Script # <<>>
    /\ Starts \subseteq Settings /\ Starts # {}
    /\ ScriptHost \in Hosts /\ Levels \subseteq Nat \ {Unset}
    /\ \A e \in Edits : IsEdit(e)
    /\ MaxTurns \in Nat /\ MaxStarted \in Nat

VARIABLES
    row,      \* the columns and config_json, with the product-only slider ssl_intensity
    state,    \* state_json: the runtime's settings, its memory and its turns
    work,     \* who holds the lock of the session, and the state it has loaded
    calls,    \* the calls in flight
    started,  \* how many calls were made
    late,     \* history: a structural change checked before there were seeds came after
    byHand    \* history: the slider was last set by an advanced update

vars == <<row, state, work, calls, started, late, byHand>>

-----------------------------------------------------------------------------
(* Stored values.                                                          *)

\* The structure the stored vectors and recurrence counts were built under.
NoMemory == [mode |-> "none", span |-> 0]
MemoryOf(s) == [mode |-> s.mode, span |-> IF s.mode = "cluster" THEN s.span ELSE 0]
ClusterOf(s) == MemoryOf(s).span

\* from_state refuses cluster state that was stored under another threshold.
Loadable(st) ==
    st.settings.mode = "cluster" /\ st.clustered # 0 => st.clustered = st.settings.span

Asked(edit, f, old) == IF f \in DOMAIN edit THEN edit[f] ELSE old
Changed(s, edit) ==
    [host |-> Asked(edit, "host", s.host), level |-> Asked(edit, "level", s.level),
     mode |-> Asked(edit, "mode", s.mode), span |-> Asked(edit, "span", s.span)]

Idle == [kind |-> "none", step |-> "idle", q |-> Script[1], agreed |-> FALSE,
         edit |-> <<>>, empty |-> FALSE, at |-> 0, moved |-> FALSE, slipped |-> FALSE]
NoSession == [settings |-> CHOOSE s \in Starts : TRUE, memory |-> NoMemory, clustered |-> 0,
              turns |-> <<>>]
Unheld == [held |-> FALSE, loaded |-> NoSession]
Free == ~work.held

\* _validate_backend: an external provider takes an explicit confirmation of the call.
Confirmed(host, agreed) == host = "away" => agreed

Becomes(c, call) == calls' = [calls EXCEPT ![c] = call]
Calling(c, call) ==
    /\ calls[c] = Idle /\ started < MaxStarted
    /\ Becomes(c, call) /\ started' = started + 1

-----------------------------------------------------------------------------
(* Creation.                                                               *)

Made(start, slider) ==
    /\ ~row.made
    /\ row' = [made |-> TRUE, column |-> start.host, config |-> start, slider |-> slider]
    /\ state' = [settings |-> start, memory |-> NoMemory, clustered |-> ClusterOf(start),
                 turns |-> <<>>]
    /\ UNCHANGED <<work, late, byHand>>

CreateSession(start, slider, agreed) ==
    /\ Confirmed(start.host, agreed) /\ slider \in {Unset, start.level}
    /\ Made(start, slider) /\ UNCHANGED <<calls, started>>

\* A scenario creates its conversation and goes on at its first question.
RunScenario(c, start, agreed) ==
    /\ start.host = ScriptHost /\ Confirmed(ScriptHost, agreed)
    /\ Calling(c, [Idle EXCEPT !.kind = "scenario", !.step = "ready", !.agreed = agreed])
    /\ Made(start, Unset)

-----------------------------------------------------------------------------
(* Turns and documents.                                                    *)

CheckSend(c, q, agreed) ==
    /\ row.made /\ Confirmed(row.column, agreed)
    /\ Calling(c, [Idle EXCEPT !.kind = "send", !.step = "ready", !.q = q, !.agreed = agreed])
    /\ UNCHANGED <<row, state, work, late, byHand>>

CheckIngest(c, agreed) ==
    /\ row.made /\ Confirmed(row.column, agreed)
    /\ Calling(c, [Idle EXCEPT !.kind = "ingest", !.step = "ready", !.agreed = agreed])
    /\ UNCHANGED <<row, state, work, late, byHand>>

\* The scenario has come to its end.
Ended(c) == calls[c].kind = "scenario" /\ calls[c].at = Len(Script)

\* run_turn and ingest_source_chunks: take the lock, load, rebuild the runtime.
Begin(c) ==
    /\ calls[c].step = "ready" /\ calls[c].kind # "advanced" /\ ~Ended(c)
    /\ Free
    /\ calls[c].kind = "ingest" \/ Len(state.turns) < MaxTurns
    /\ IF Loadable(state)
         THEN /\ work' = [held |-> TRUE, loaded |-> state]
              /\ Becomes(c, [calls[c] EXCEPT !.step = "working"])
         ELSE Becomes(c, Idle) /\ UNCHANGED work
    /\ UNCHANGED <<row, state, started, late, byHand>>

Turn(call, st) ==
    LET scripted == call.kind = "scenario"
    IN  [q |-> IF scripted THEN Script[call.at + 1] ELSE call.q, host |-> st.settings.host,
         agreed |-> call.agreed, moved |-> call.moved,
         at |-> IF scripted THEN call.at + 1 ELSE 0, slipped |-> call.slipped]

\* A scenario in flight that has looked at the turns misses the one that is saved now.
Overtaken(c, call) ==
    [d \in Calls |->
        IF d = c THEN call
        ELSE IF calls[d].kind = "scenario" /\ calls[d].step # "looked"
             THEN [calls[d] EXCEPT !.slipped = TRUE]
             ELSE calls[d]]

\* save_session writes the whole state that was loaded, with the new turn and seeds; the
\* config of the row is not part of it.
Save(c, seeded, turns) ==
    /\ calls[c].step = "working"
    /\ state' = [settings |-> work.loaded.settings,
                 memory |-> IF seeded /\ work.loaded.memory = NoMemory
                            THEN MemoryOf(work.loaded.settings) ELSE work.loaded.memory,
                 clustered |-> ClusterOf(work.loaded.settings), turns |-> turns]
    /\ work' = Unheld
    /\ UNCHANGED <<row, started, late, byHand>>

Answer(c, seeded) ==
    /\ calls[c].kind # "ingest"
    /\ Save(c, seeded, Append(work.loaded.turns, Turn(calls[c], work.loaded)))
    /\ calls' = Overtaken(c, IF calls[c].kind = "send" THEN Idle
                             ELSE [calls[c] EXCEPT !.at = calls[c].at + 1, !.step = "ready"])

Ingested(c, seeded) ==
    /\ calls[c].kind = "ingest"
    /\ Save(c, seeded, work.loaded.turns)
    /\ Becomes(c, Idle)

\* A provider or the detector fails: nothing is saved, a scenario stops where it is.
Fails(c) ==
    /\ calls[c].step = "working"
    /\ work' = Unheld
    /\ Becomes(c, Idle)
    /\ UNCHANGED <<row, state, started, late, byHand>>

-----------------------------------------------------------------------------
(* Settings.                                                               *)

\* The keys an edit would really change.
RestructuresByMode(edit) == {f \in {"mode"} \cap DOMAIN edit : edit[f] # row.config[f]}
Restructures(edit) == {f \in Structural \cap DOMAIN edit : edit[f] # row.config[f]}

CheckAdvanced(c, edit, agreed) ==
    /\ row.made
    /\ Restructures(edit) # {} => state.memory = NoMemory
    /\ Confirmed(Changed(row.config, edit).host, agreed)
    /\ Calling(c, [Idle EXCEPT !.kind = "advanced", !.step = "ready", !.edit = edit,
                               !.agreed = agreed, !.empty = (state.memory = NoMemory)])
    /\ UNCHANGED <<row, state, work, late, byHand>>

\* A slider stands for settings; setting these directly leaves it without a position.
SliderLeft(edit) ==
    Asked(edit, "slider", IF "level" \in DOMAIN edit THEN Unset ELSE row.slider)

\* Calls in flight, when the settings become another backend's.
Moved(host) ==
    [d \in Calls |-> IF calls[d] # Idle /\ host # row.column
                     THEN [calls[d] EXCEPT !.moved = TRUE] ELSE calls[d]]

\* The lock of the session, which update_controls takes as a turn does.
MayUpdateDuringTurns == TRUE
MayUpdate == Free

\* update_controls: config, columns and state change together.
Update(config, slider, settings) ==
    /\ MayUpdate
    /\ row' = [row EXCEPT !.column = config.host, !.config = config, !.slider = slider]
    /\ state' = [state EXCEPT !.settings = settings]
    /\ UNCHANGED <<work, started>>

UpdateAdvanced(c) ==
    LET edit == calls[c].edit
        settings == Changed(state.settings, edit)
    IN  /\ calls[c].kind = "advanced"
        /\ Update(Changed(row.config, edit), SliderLeft(edit), settings)
        /\ calls' = [Moved(settings.host) EXCEPT ![c] = Idle]
        /\ late' = (late \/ (/\ calls[c].empty /\ state.memory # NoMemory
                             /\ MemoryOf(settings) # MemoryOf(state.settings)))
        /\ byHand' = (IF "slider" \in DOMAIN edit THEN TRUE
                      ELSE byHand /\ "level" \notin DOMAIN edit)

\* update_session_controls: the slider and the settings it stands for.
UpdateControls(level) ==
    /\ row.made /\ started < MaxStarted
    /\ Update([row.config EXCEPT !.level = level], level, [state.settings EXCEPT !.level = level])
    /\ byHand' = FALSE
    /\ UNCHANGED <<calls, late>>

-----------------------------------------------------------------------------
(* Scenarios.                                                              *)

\* resume_scenario: the profile and the backend must be the scenario's.
CheckResume(c, agreed) ==
    /\ row.made /\ row.column = ScriptHost /\ Confirmed(row.column, agreed)
    /\ Calling(c, [Idle EXCEPT !.kind = "scenario", !.step = "looked", !.agreed = agreed])
    /\ UNCHANGED <<row, state, work, late, byHand>>

PlayedAsMany(turns) == Len(turns) <= Len(Script)
Played(turns) == Len(turns) <= Len(Script) /\ \A i \in DOMAIN turns : turns[i].q = Script[i]

\* ScenarioService.resume loads once more, and takes the persisted progress for its own.
LookUp(c) ==
    /\ calls[c].step = "looked"
    /\ Becomes(c, IF Played(state.turns)
                  THEN [calls[c] EXCEPT !.step = "ready", !.at = Len(state.turns)]
                  ELSE Idle)
    /\ UNCHANGED <<row, state, work, started, late, byHand>>

Finish(c) ==
    /\ calls[c].step = "ready" /\ Ended(c)
    /\ Becomes(c, Idle)
    /\ UNCHANGED <<row, state, work, started, late, byHand>>

\* The process ends, and with it every call and the lock.
Stop ==
    /\ calls' = [c \in Calls |-> Idle] /\ work' = Unheld
    /\ UNCHANGED <<row, state, started, late, byHand>>

-----------------------------------------------------------------------------
Init ==
    /\ state = NoSession /\ work = Unheld
    /\ row = [made |-> FALSE, column |-> NoSession.settings.host,
              config |-> NoSession.settings, slider |-> Unset]
    /\ calls = [c \in Calls |-> Idle] /\ started = 0
    /\ late = FALSE /\ byHand = FALSE

Next ==
    \/ \E start \in Starts, agreed \in BOOLEAN :
          \/ \E slider \in Levels \cup {Unset} : CreateSession(start, slider, agreed)
          \/ \E c \in Calls : RunScenario(c, start, agreed)
    \/ \E level \in Levels : UpdateControls(level)
    \/ \E c \in Calls, agreed \in BOOLEAN :
          \/ \E q \in Questions : CheckSend(c, q, agreed)
          \/ CheckIngest(c, agreed)
          \/ \E edit \in Edits : CheckAdvanced(c, edit, agreed)
          \/ CheckResume(c, agreed)
    \/ \E c \in Calls :
          \/ Begin(c) \/ Fails(c) \/ UpdateAdvanced(c) \/ LookUp(c) \/ Finish(c)
          \/ \E seeded \in BOOLEAN : Answer(c, seeded) \/ Ingested(c, seeded)
    \/ Stop

Spec == Init /\ [][Next]_vars

-----------------------------------------------------------------------------
(* Properties.                                                             *)

\* The copies of the settings agree after any interleaving of turns and updates: a turn
\* that was answering while a setting changed does not write the old one back, and the
\* slider shows a position only while the settings are those it stands for, or an
\* advanced update placed it by hand.
SettingsAgree ==
    row.made =>
        /\ row.config = state.settings /\ row.column = row.config.host
        /\ row.slider \in {Unset, row.config.level} \/ byHand

\* Once there are seeds, the settings that say how their vectors and counts are to be
\* read stay those they were stored under and the conversation can be loaded.  The one
\* exception is a change that was checked while there were no seeds, and came late.
MemoryStaysReadable ==
    state.memory # NoMemory /\ ~late =>
        MemoryOf(state.settings) = state.memory /\ Loadable(state)

\* A turn is what its call was checked for.  It was sent to an external provider only if
\* the call confirmed that, or the backend was changed since its check; and a scenario
\* puts a question after exactly those before it, each asked once, unless another turn
\* came between its look at the progress and its own.
TurnsAreAsChecked ==
    \A i \in DOMAIN state.turns :
        LET t == state.turns[i]
        IN  /\ t.host = "away" => t.agreed \/ t.moved
            /\ t.at # 0 /\ ~t.slipped =>
                  t.at = i /\ \A j \in 1..i : state.turns[j].q = Script[j]
=============================================================================

-------------------------- MODULE WorkbenchProofs --------------------------
(***************************************************************************)
(* The controller of the Workbench and its page, each for itself.          *)
(*                                                                         *)
(* Workbench, for any number of threads, settings, questions and edits:    *)
(* the copies of the settings agree, the memory stays readable, and turns  *)
(* are as their calls were checked.                                        *)
(*                                                                         *)
(* WorkbenchPage, for any number of conversations, messages and events:    *)
(* the page shows one conversation with all its turns, what is done on it  *)
(* is done to what it showed, and what was typed once is asked once.       *)
(***************************************************************************)
EXTENDS Workbench, WorkbenchPage, TLAPS, SequenceTheorems

Memories == [mode : Modes \cup {"none"}, span : Nat]
Turns == [q : Questions, host : Hosts, agreed : BOOLEAN, moved : BOOLEAN, at : Nat,
          slipped : BOOLEAN]
States == [settings : Settings, memory : Memories, clustered : Nat, turns : Seq(Turns)]
Rows == [made : BOOLEAN, column : Hosts, config : Settings, slider : Levels \cup {Unset}]
Kinds == {"none", "send", "ingest", "advanced", "scenario"}
CallStates == [kind : Kinds, step : {"idle", "looked", "ready", "working"}, q : Questions,
               agreed : BOOLEAN, edit : Edits \cup {<<>>}, empty : BOOLEAN, at : Nat,
               moved : BOOLEAN, slipped : BOOLEAN]

Typed ==
    /\ row \in Rows /\ state \in States
    /\ work \in [held : BOOLEAN, loaded : States]
    /\ calls \in [Calls -> CallStates]
    /\ started \in Nat /\ late \in BOOLEAN /\ byHand \in BOOLEAN

\* The lock: one call works at a time, on a state that is still the stored one.
Locked ==
    /\ work.held => row.made /\ work.loaded = state
    /\ \A c \in Calls : calls[c].step = "working" =>
          work.held /\ \A d \in Calls : calls[d].step = "working" => d = c

\* What an edit asks for is already so, as far as the memory can tell.
Harmless(edit, s) ==
    /\ "mode" \in DOMAIN edit => edit["mode"] = s.mode
    /\ s.mode = "cluster" /\ "span" \in DOMAIN edit => edit["span"] = s.span

Remembered ==
    state.memory # NoMemory /\ ~late =>
        /\ MemoryOf(state.settings) = state.memory
        /\ state.clustered = state.memory.span

\* An advanced update that saw seeds changes nothing they depend on.
EditIsHarmless(call, s, l) ==
    call.kind = "advanced" =>
        /\ call.edit \in Edits /\ call.step = "ready"
        /\ ~call.empty =>
              /\ s.memory # NoMemory
              /\ l \/ Harmless(call.edit, s.settings)

IsConfirmed(call, r) ==
    call.kind \in {"send", "ingest", "scenario"} /\ r.column = "away" =>
        call.agreed \/ call.moved

PlayedUpTo(n, turns) == n = Len(turns) /\ \A i \in 1..Len(turns) : turns[i].q = Script[i]

\* A scenario that was not overtaken stands where the turns end.
KeepsPace(call, s) ==
    call.kind = "scenario" =>
        /\ call.at \in 0..Len(Script)
        /\ call.step = "working" => call.at < Len(Script)
        /\ call.step # "looked" /\ ~call.slipped => PlayedUpTo(call.at, s.turns)

IsInOrder(call, r) ==
    /\ call.kind # "none" => r.made
    /\ call.kind = "none" => call.step = "idle"
    /\ call.step = "looked" => call.kind = "scenario"
    /\ call.step = "working" => call.kind \in {"send", "ingest", "scenario"}

\* What is true of a call in flight, given the row, the state and whether an edit was late.
Fit(call, r, s, l) ==
    /\ EditIsHarmless(call, s, l) /\ IsConfirmed(call, r)
    /\ KeepsPace(call, s) /\ IsInOrder(call, r)

WInv ==
    /\ Typed /\ Locked /\ SettingsAgree /\ Remembered /\ TurnsAreAsChecked
    /\ \A c \in Calls : Fit(calls[c], row, state, late)

-----------------------------------------------------------------------------
(* Records                                                                 *)

LEMMA FirstIdle ==
    /\ Idle \in CallStates /\ Idle.step = "idle" /\ Idle.kind = "none"
    /\ \A r, s, l : Fit(Idle, r, s, l)
  <1>1. Script[1] \in Questions
    BY WorkbenchAssumption, EmptySeq, LenProperties, ElementOfSeq
  <1> QED BY <1>1 DEF Idle, CallStates, Kinds, Fit, EditIsHarmless, IsConfirmed, KeepsPace,
                      IsInOrder

LEMMA NoSessionTyped == NoSession \in States
  <1>1. NoSession.settings \in Settings
    BY WorkbenchAssumption DEF NoSession
  <1>2. <<>> \in Seq(Turns)
    BY EmptySeq
  <1> QED BY <1>1, <1>2 DEF NoSession, States, NoMemory, Memories, Modes

LEMMA MemoryTyped ==
    ASSUME NEW s \in Settings
    PROVE  /\ MemoryOf(s) \in Memories /\ MemoryOf(s) # NoMemory
           /\ ClusterOf(s) = MemoryOf(s).span /\ ClusterOf(s) \in Nat
           /\ MemoryOf(s).mode = s.mode
           /\ s.mode = "cluster" => MemoryOf(s).span = s.span
           /\ s.mode = "pairwise" => MemoryOf(s).span = 0
  BY DEF MemoryOf, ClusterOf, Memories, NoMemory, Settings, Modes

LEMMA ChangedTyped ==
    ASSUME NEW s \in Settings, NEW edit \in Edits
    PROVE  /\ Changed(s, edit) \in Settings
           /\ Changed(s, edit).mode = Asked(edit, "mode", s.mode)
           /\ Changed(s, edit).span = Asked(edit, "span", s.span)
  <1>1. IsEdit(edit)
    BY WorkbenchAssumption
  <1>2. Asked(edit, "host", s.host) \in Hosts /\ Asked(edit, "level", s.level) \in Levels
    BY <1>1 DEF IsEdit, Asked, Settings
  <1>3. Asked(edit, "mode", s.mode) \in Modes /\ Asked(edit, "span", s.span) \in Nat \ {0}
    BY <1>1 DEF IsEdit, Asked, Settings
  <1> QED BY <1>2, <1>3 DEF Changed, Settings

\* A harmless edit leaves the structure as it is.
LEMMA HarmlessKeeps ==
    ASSUME NEW s \in Settings, NEW edit \in Edits, Harmless(edit, s)
    PROVE  MemoryOf(Changed(s, edit)) = MemoryOf(s)
  BY ChangedTyped DEF Harmless, Asked, MemoryOf

\* Whether an edit is harmless depends on the structure only.
LEMMA HarmlessStays ==
    ASSUME NEW s \in Settings, NEW t \in Settings, NEW edit \in Edits, Harmless(edit, s),
           MemoryOf(s) = MemoryOf(t)
    PROVE  Harmless(edit, t)
  BY MemoryTyped DEF Harmless, Settings, Modes

LEMMA SetCall ==
    ASSUME Typed, NEW c \in Calls, NEW call \in CallStates, Becomes(c, call)
    PROVE  /\ calls' \in [Calls -> CallStates] /\ calls'[c] = call
           /\ \A d \in Calls : d # c => calls'[d] = calls[d]
  BY DEF Typed, Becomes

-----------------------------------------------------------------------------
(* Steps of calls that leave the row and the state alone.                  *)

LEMMA ACallSteps ==
    ASSUME WInv, NEW c \in Calls, NEW call \in CallStates,
           Fit(call, row, state, late), call.step # "working",
           Becomes(c, call), started' \in Nat,
           UNCHANGED <<row, state, late, byHand>>,
           work' = work \/ (work' = Unheld /\ calls[c].step = "working")
    PROVE  WInv'
  <1>1. /\ calls' \in [Calls -> CallStates] /\ calls'[c] = call
        /\ \A d \in Calls : d # c => calls'[d] = calls[d]
    BY SetCall DEF WInv
  <1>2. work' \in [held : BOOLEAN, loaded : States]
    <2>1. Unheld \in [held : BOOLEAN, loaded : States]
      BY NoSessionTyped DEF Unheld
    <2> QED BY <2>1 DEF WInv, Typed
  <1>3. Typed'
    BY <1>1, <1>2 DEF WInv, Typed
  <1>4. Locked'
    BY <1>1 DEF WInv, Locked, Unheld
  <1>5. SettingsAgree' /\ Remembered' /\ TurnsAreAsChecked'
    BY DEF WInv, SettingsAgree, Remembered, TurnsAreAsChecked
  <1>6. \A d \in Calls : Fit(calls'[d], row', state', late')
    BY <1>1 DEF WInv
  <1> QED BY <1>3, <1>4, <1>5, <1>6 DEF WInv

\* A call that has just been made, and what it must be for.
LEMMA ACallIsMade ==
    ASSUME WInv, NEW c \in Calls, NEW call \in CallStates,
           Fit(call, row, state, late), call.step # "working",
           Calling(c, call), UNCHANGED <<row, state, work, late, byHand>>
    PROVE  WInv'
  BY ACallSteps DEF Calling, WInv, Typed

LEMMA SendChecked ==
    ASSUME WInv, NEW c \in Calls, NEW q \in Questions, NEW agreed \in BOOLEAN,
           CheckSend(c, q, agreed)
    PROVE  WInv'
  <1> DEFINE call == [Idle EXCEPT !.kind = "send", !.step = "ready", !.q = q,
                                  !.agreed = agreed]
  <1>1. call \in CallStates /\ call.step = "ready" /\ call.kind = "send"
        /\ call.agreed = agreed
    BY FirstIdle DEF CallStates, Kinds
  <1>2. row.made /\ (row.column = "away" => agreed)
    BY DEF CheckSend, Confirmed
  <1> HIDE DEF call
  <1>3. Fit(call, row, state, late)
    BY <1>1, <1>2 DEF Fit, EditIsHarmless, IsConfirmed, KeepsPace, IsInOrder
  <1> QED BY <1>1, <1>3, ACallIsMade DEF CheckSend, call

LEMMA IngestChecked ==
    ASSUME WInv, NEW c \in Calls, NEW agreed \in BOOLEAN, CheckIngest(c, agreed)
    PROVE  WInv'
  <1> DEFINE call == [Idle EXCEPT !.kind = "ingest", !.step = "ready", !.agreed = agreed]
  <1>1. call \in CallStates /\ call.step = "ready" /\ call.kind = "ingest"
        /\ call.agreed = agreed
    BY FirstIdle DEF CallStates, Kinds
  <1>2. row.made /\ (row.column = "away" => agreed)
    BY DEF CheckIngest, Confirmed
  <1> HIDE DEF call
  <1>3. Fit(call, row, state, late)
    BY <1>1, <1>2 DEF Fit, EditIsHarmless, IsConfirmed, KeepsPace, IsInOrder
  <1> QED BY <1>1, <1>3, ACallIsMade DEF CheckIngest, call

LEMMA ResumeChecked ==
    ASSUME WInv, NEW c \in Calls, NEW agreed \in BOOLEAN, CheckResume(c, agreed)
    PROVE  WInv'
  <1> DEFINE call == [Idle EXCEPT !.kind = "scenario", !.step = "looked", !.agreed = agreed]
  <1>1. call \in CallStates /\ call.step = "looked" /\ call.kind = "scenario"
        /\ call.agreed = agreed /\ call.at = 0
    BY FirstIdle DEF CallStates, Kinds, Idle
  <1>2. row.made /\ (row.column = "away" => agreed)
    BY DEF CheckResume, Confirmed
  <1>3. Len(Script) \in Nat
    BY WorkbenchAssumption, LenProperties
  <1> HIDE DEF call
  <1>4. Fit(call, row, state, late)
    BY <1>1, <1>2, <1>3 DEF Fit, EditIsHarmless, IsConfirmed, KeepsPace, IsInOrder
  <1> QED BY <1>1, <1>4, ACallIsMade DEF CheckResume, call

LEMMA AdvancedChecked ==
    ASSUME WInv, NEW c \in Calls, NEW edit \in Edits, NEW agreed \in BOOLEAN,
           CheckAdvanced(c, edit, agreed)
    PROVE  WInv'
  <1> DEFINE call == [Idle EXCEPT !.kind = "advanced", !.step = "ready", !.edit = edit,
                                  !.agreed = agreed, !.empty = (state.memory = NoMemory)]
  <1>1. call \in CallStates /\ call.step = "ready" /\ call.kind = "advanced"
        /\ call.edit = edit /\ call.empty = (state.memory = NoMemory)
    BY FirstIdle DEF CallStates, Kinds
  <1>2. row.made /\ (Restructures(edit) # {} => state.memory = NoMemory)
    BY DEF CheckAdvanced
  <1>3. state.memory # NoMemory => Harmless(edit, state.settings)
    BY <1>2 DEF WInv, SettingsAgree, Restructures, Structural, Harmless
  <1> HIDE DEF call
  <1>4. Fit(call, row, state, late)
    BY <1>1, <1>2, <1>3 DEF Fit, EditIsHarmless, IsConfirmed, KeepsPace, IsInOrder
  <1> QED BY <1>1, <1>4, ACallIsMade DEF CheckAdvanced, call

LEMMA LookedUp ==
    ASSUME WInv, NEW c \in Calls, LookUp(c)
    PROVE  WInv'
  <1> DEFINE n == Len(state.turns)
             ready == [calls[c] EXCEPT !.step = "ready", !.at = n]
  <1>1. calls[c] \in CallStates /\ Fit(calls[c], row, state, late) /\ calls[c].step = "looked"
    BY DEF WInv, Typed, LookUp
  <1>2. calls[c].kind = "scenario"
    BY <1>1 DEF Fit, IsInOrder
  <1>3. n \in Nat
    BY LenProperties DEF WInv, Typed, States
  <1> HIDE DEF n
  <1>4. /\ ready \in CallStates /\ ready.step = "ready" /\ ready.kind = "scenario"
        /\ ready.at = n /\ ready.agreed = calls[c].agreed /\ ready.moved = calls[c].moved
    BY <1>1, <1>2, <1>3 DEF CallStates
  <1> HIDE DEF ready
  <1>5. Len(Script) \in Nat
    BY WorkbenchAssumption, LenProperties
  <1>6. ASSUME Played(state.turns) PROVE Fit(ready, row, state, late)
    <2>1. n <= Len(Script) /\ \A i \in 1..n : state.turns[i].q = Script[i]
      <3>1. DOMAIN state.turns = 1..n
        BY LenProperties DEF WInv, Typed, States, n
      <3> QED BY <1>6, <3>1 DEF Played, n
    <2>2. PlayedUpTo(n, state.turns)
      BY <2>1 DEF PlayedUpTo, n
    <2> QED BY <1>1, <1>2, <1>3, <1>4, <1>5, <2>1, <2>2
            DEF Fit, EditIsHarmless, IsConfirmed, KeepsPace, IsInOrder
  <1>7. CASE Played(state.turns)
    BY <1>4, <1>6, <1>7, ACallSteps DEF LookUp, WInv, Typed, n, ready
  <1>8. CASE ~Played(state.turns)
    BY <1>8, FirstIdle, ACallSteps DEF LookUp, WInv, Typed
  <1> QED BY <1>7, <1>8

LEMMA CallEnds ==
    ASSUME WInv, NEW c \in Calls, Finish(c) \/ Fails(c)
    PROVE  WInv'
  BY FirstIdle, ACallSteps DEF Finish, Fails, WInv, Typed

LEMMA AllStop ==
    ASSUME WInv, Stop
    PROVE  WInv'
  <1>1. calls' \in [Calls -> CallStates] /\ \A d \in Calls : calls'[d] = Idle
    BY FirstIdle DEF Stop
  <1>2. Unheld \in [held : BOOLEAN, loaded : States]
    BY NoSessionTyped DEF Unheld
  <1>3. Typed'
    BY <1>1, <1>2 DEF WInv, Typed, Stop
  <1>4. Locked'
    BY <1>1, FirstIdle DEF Stop, Locked, Unheld
  <1>5. SettingsAgree' /\ Remembered' /\ TurnsAreAsChecked'
    BY DEF WInv, SettingsAgree, Remembered, TurnsAreAsChecked, Stop
  <1>6. \A d \in Calls : Fit(calls'[d], row', state', late')
    BY <1>1, FirstIdle
  <1> QED BY <1>3, <1>4, <1>5, <1>6 DEF WInv

-----------------------------------------------------------------------------
(* Settings change.                                                        *)

\* A call in flight, under other settings of the same structure.
LEMMA MovedFits ==
    ASSUME WInv, NEW d \in Calls, NEW settings \in Settings, NEW r \in Rows, NEW s, NEW l \in BOOLEAN,
           row.made, r.made, r.column = settings.host,
           s.settings = settings, s.memory = state.memory, s.turns = state.turns,
           late => l,
           state.memory # NoMemory /\ ~l => MemoryOf(settings) = MemoryOf(state.settings)
    PROVE  /\ Moved(settings.host)[d] \in CallStates
           /\ Moved(settings.host)[d].step = calls[d].step
           /\ Fit(Moved(settings.host)[d], r, s, l)
  <1> DEFINE call == Moved(settings.host)[d]
  <1>1. calls[d] \in CallStates /\ Fit(calls[d], row, state, late)
    BY DEF WInv, Typed
  <1>2. /\ call = calls[d] \/ call = [calls[d] EXCEPT !.moved = TRUE]
        /\ settings.host # row.column /\ calls[d] # Idle => call = [calls[d] EXCEPT !.moved = TRUE]
    BY DEF Moved
  <1> HIDE DEF call
  <1>3. /\ call \in CallStates /\ call.kind = calls[d].kind /\ call.step = calls[d].step
        /\ call.edit = calls[d].edit /\ call.empty = calls[d].empty /\ call.at = calls[d].at
        /\ call.slipped = calls[d].slipped /\ call.agreed = calls[d].agreed
    BY <1>1, <1>2 DEF CallStates
  <1>4. calls[d].moved => call.moved
    BY <1>1, <1>2 DEF CallStates
  <1>5. settings.host # row.column /\ calls[d].kind # "none" => call.moved
    BY <1>1, <1>2, FirstIdle DEF CallStates
  <1>6. EditIsHarmless(call, s, l)
    <2>1. SUFFICES ASSUME call.kind = "advanced", ~call.empty, ~l
                   PROVE  Harmless(call.edit, settings)
      BY <1>1, <1>3 DEF Fit, EditIsHarmless
    <2>2. call.edit \in Edits /\ state.memory # NoMemory /\ Harmless(call.edit, state.settings)
      BY <1>1, <1>3, <2>1 DEF Fit, EditIsHarmless
    <2>3. state.settings \in Settings
      BY DEF WInv, Typed, States
    <2> QED BY <2>1, <2>2, <2>3, HarmlessStays
  <1>7. IsConfirmed(call, r)
    BY <1>1, <1>3, <1>4, <1>5 DEF Fit, IsConfirmed
  <1>8. KeepsPace(call, s)
    BY <1>1, <1>3 DEF Fit, KeepsPace
  <1>9. IsInOrder(call, r)
    BY <1>1, <1>3 DEF Fit, IsInOrder
  <1> QED BY <1>3, <1>6, <1>7, <1>8, <1>9 DEF Fit, call

LEMMA SettingsChange ==
    ASSUME WInv, row.made, NEW settings \in Settings, NEW slider \in Levels \cup {Unset},
           Update(settings, slider, settings), late' \in BOOLEAN, byHand' \in BOOLEAN,
           slider \in {Unset, settings.level} \/ byHand',
           late => late',
           state.memory # NoMemory /\ ~late' => MemoryOf(settings) = MemoryOf(state.settings),
           calls' \in [Calls -> CallStates],
           \A d \in Calls : calls'[d] = Idle \/ calls'[d] = Moved(settings.host)[d]
    PROVE  WInv'
  <1>1. row \in Rows /\ state \in States
    BY DEF WInv, Typed
  <1>2. /\ row' \in Rows /\ row'.made /\ row'.column = settings.host
        /\ row'.config = settings /\ row'.slider = slider
    BY <1>1 DEF Update, Rows, Settings
  <1>3. /\ state' \in States /\ state'.settings = settings /\ state'.memory = state.memory
        /\ state'.clustered = state.clustered /\ state'.turns = state.turns
    BY <1>1 DEF Update, States
  <1>4. Typed'
    BY <1>2, <1>3 DEF Typed, WInv, Update
  <1>5. \A d \in Calls : calls[d].step # "working"
    BY DEF WInv, Locked, Update, MayUpdate, Free
  <1>6. \A d \in Calls : Fit(calls'[d], row', state', late') /\ calls'[d].step # "working"
    <2>1. TAKE d \in Calls
    <2>2. /\ Moved(settings.host)[d].step # "working"
          /\ Fit(Moved(settings.host)[d], row', state', late')
      BY <1>2, <1>3, <1>5, MovedFits
    <2> QED BY <2>2, FirstIdle
  <1>7. Locked'
    BY <1>6 DEF Locked, WInv, Update, MayUpdate, Free
  <1>8. SettingsAgree'
    BY <1>2, <1>3 DEF SettingsAgree
  <1>9. Remembered'
    BY <1>3 DEF Remembered, WInv
  <1>10. TurnsAreAsChecked'
    BY <1>3 DEF TurnsAreAsChecked, WInv
  <1> QED BY <1>4, <1>6, <1>7, <1>8, <1>9, <1>10 DEF WInv

LEMMA AdvancedUpdated ==
    ASSUME WInv, NEW c \in Calls, UpdateAdvanced(c)
    PROVE  WInv'
  <1> DEFINE edit == calls[c].edit
             settings == Changed(state.settings, edit)
  <1>1. /\ calls[c] \in CallStates /\ Fit(calls[c], row, state, late)
        /\ calls[c].kind = "advanced" /\ row \in Rows /\ state \in States
        /\ calls \in [Calls -> CallStates]
    BY DEF WInv, Typed, UpdateAdvanced
  <1>2. row.made /\ edit \in Edits /\ row.config = state.settings
        /\ state.settings \in Settings
    BY <1>1 DEF Fit, IsInOrder, EditIsHarmless, WInv, SettingsAgree, States
  <1>3. settings \in Settings /\ Changed(row.config, edit) = settings
        /\ settings.level = Asked(edit, "level", row.config.level)
    BY <1>2, ChangedTyped DEF Changed
  <1>4. IsEdit(edit)
    BY <1>2, WorkbenchAssumption
  <1>5. SliderLeft(edit) \in Levels \cup {Unset}
    BY <1>1, <1>4 DEF SliderLeft, Asked, IsEdit, Rows
  <1>6. /\ byHand' = (IF "slider" \in DOMAIN edit THEN TRUE
                      ELSE byHand /\ "level" \notin DOMAIN edit)
        /\ late' = (late \/ (/\ calls[c].empty /\ state.memory # NoMemory
                             /\ MemoryOf(settings) # MemoryOf(state.settings)))
        /\ calls' = [Moved(settings.host) EXCEPT ![c] = Idle]
        /\ Update(settings, SliderLeft(edit), settings)
    BY <1>3 DEF UpdateAdvanced
  <1>7. byHand' \in BOOLEAN /\ late' \in BOOLEAN /\ (late => late')
    BY <1>6 DEF WInv, Typed
  <1>8. SliderLeft(edit) \in {Unset, settings.level} \/ byHand'
    <2>1. row.slider \in {Unset, row.config.level} \/ byHand
      BY <1>2 DEF WInv, SettingsAgree
    <2>2. byHand \in BOOLEAN
      BY DEF WInv, Typed
    <2> HIDE DEF edit, settings
    <2>3. CASE "slider" \in DOMAIN edit
      BY <1>6, <2>3
    <2>4. CASE "slider" \notin DOMAIN edit /\ "level" \in DOMAIN edit
      BY <2>4 DEF SliderLeft, Asked
    <2>5. CASE "slider" \notin DOMAIN edit /\ "level" \notin DOMAIN edit
      BY <1>3, <1>6, <2>1, <2>2, <2>5 DEF SliderLeft, Asked
    <2> QED BY <2>3, <2>4, <2>5
  <1>9. ASSUME state.memory # NoMemory, ~late'
        PROVE  MemoryOf(settings) = MemoryOf(state.settings)
    <2>1. CASE calls[c].empty
      BY <1>6, <1>9, <2>1
    <2>2. CASE ~calls[c].empty
      BY <1>1, <1>2, <1>7, <1>9, <2>2, HarmlessKeeps DEF Fit, EditIsHarmless
    <2> QED BY <2>1, <2>2
  <1>10. calls' \in [Calls -> CallStates]
         /\ \A d \in Calls : calls'[d] = Idle \/ calls'[d] = Moved(settings.host)[d]
    <2>1. Moved(settings.host) \in [Calls -> CallStates]
      <3> HIDE DEF settings
      <3> QED BY <1>1 DEF Moved, CallStates
    <2> QED BY <1>6, <2>1, FirstIdle
  <1> HIDE DEF edit, settings
  <1> QED BY <1>2, <1>3, <1>5, <1>6, <1>7, <1>8, <1>9, <1>10, SettingsChange

LEMMA ControlsUpdated ==
    ASSUME WInv, NEW level \in Levels, UpdateControls(level)
    PROVE  WInv'
  <1> DEFINE settings == [state.settings EXCEPT !.level = level]
  <1>1. row \in Rows /\ state.settings \in Settings /\ calls \in [Calls -> CallStates]
    BY DEF WInv, Typed, States
  <1>2. row.made /\ row.config = state.settings /\ row.column = state.settings.host
    BY DEF WInv, SettingsAgree, UpdateControls
  <1>3. /\ settings \in Settings /\ settings.level = level /\ settings.host = row.column
        /\ MemoryOf(settings) = MemoryOf(state.settings)
    BY <1>1, <1>2 DEF Settings, MemoryOf
  <1>4. Update(settings, level, settings) /\ calls' = calls /\ late' = late /\ byHand' = FALSE
    BY <1>2 DEF UpdateControls
  <1> HIDE DEF settings
  <1>5. \A d \in Calls : calls'[d] = Moved(settings.host)[d]
    BY <1>3, <1>4 DEF Moved
  <1>6. late' \in BOOLEAN /\ byHand' \in BOOLEAN
    BY <1>4 DEF WInv, Typed
  <1> QED BY <1>1, <1>2, <1>3, <1>4, <1>5, <1>6, SettingsChange

-----------------------------------------------------------------------------
(* Creation, and taking the lock.                                          *)

LEMMA NothingFits ==
    ASSUME NEW call, NEW r, NEW s, NEW l, call.kind = "none", call.step = "idle"
    PROVE  Fit(call, r, s, l)
  BY DEF Fit, EditIsHarmless, IsConfirmed, KeepsPace, IsInOrder

LEMMA SessionMade ==
    ASSUME WInv, NEW start \in Starts, NEW slider \in {Unset, start.level},
           Made(start, slider), started' \in Nat, calls' \in [Calls -> CallStates],
           \A d \in Calls :
              calls'[d].step # "working" /\ Fit(calls'[d], row', state', late')
    PROVE  WInv'
  <1>1. start \in Settings /\ start.host \in Hosts /\ slider \in Levels \cup {Unset}
    BY WorkbenchAssumption DEF Settings
  <1>2. /\ row' = [made |-> TRUE, column |-> start.host, config |-> start, slider |-> slider]
        /\ state' = [settings |-> start, memory |-> NoMemory, clustered |-> ClusterOf(start),
                     turns |-> <<>>]
        /\ UNCHANGED <<work, late, byHand>> /\ ~row.made
    BY DEF Made
  <1>3. state' \in States
    <2>1. NoMemory \in Memories
      BY DEF NoMemory, Memories
    <2>2. ClusterOf(start) \in Nat
      BY <1>1, MemoryTyped
    <2>3. <<>> \in Seq(Turns)
      BY EmptySeq
    <2> QED BY <1>1, <1>2, <2>1, <2>2, <2>3 DEF States
  <1>4. Typed'
    BY <1>1, <1>2, <1>3 DEF Typed, WInv, Rows
  <1>5. Locked'
    BY <1>2 DEF WInv, Locked
  <1>6. SettingsAgree'
    BY <1>2 DEF SettingsAgree
  <1>7. Remembered'
    BY <1>2 DEF Remembered
  <1>8. TurnsAreAsChecked'
    BY <1>2 DEF TurnsAreAsChecked
  <1> QED BY <1>4, <1>5, <1>6, <1>7, <1>8 DEF WInv

\* Before there is a conversation there are no calls.
LEMMA NoCallsYet ==
    ASSUME WInv, ~row.made, NEW d \in Calls
    PROVE  calls[d].kind = "none" /\ calls[d].step = "idle"
  BY DEF WInv, Typed, Fit, IsInOrder

LEMMA SessionCreated ==
    ASSUME WInv, NEW start \in Starts, NEW slider, NEW agreed \in BOOLEAN,
           CreateSession(start, slider, agreed)
    PROVE  WInv'
  <1>1. /\ Made(start, slider) /\ slider \in {Unset, start.level} /\ ~row.made
        /\ calls' = calls /\ started' = started
    BY DEF CreateSession, Made
  <1>2. /\ started' \in Nat /\ calls' \in [Calls -> CallStates]
        /\ \A d \in Calls :
              calls'[d].step # "working" /\ Fit(calls'[d], row', state', late')
    BY <1>1, NoCallsYet, NothingFits DEF WInv, Typed
  <1> QED BY <1>1, <1>2, SessionMade

LEMMA ScenarioStarted ==
    ASSUME WInv, NEW c \in Calls, NEW start \in Starts, NEW agreed \in BOOLEAN,
           RunScenario(c, start, agreed)
    PROVE  WInv'
  <1> DEFINE call == [Idle EXCEPT !.kind = "scenario", !.step = "ready", !.agreed = agreed]
  <1>1. /\ call \in CallStates /\ call.step = "ready" /\ call.kind = "scenario"
        /\ call.agreed = agreed /\ call.at = 0
    BY FirstIdle DEF CallStates, Kinds, Idle
  <1>2. /\ Made(start, Unset) /\ Becomes(c, call) /\ started' = started + 1
        /\ ~row.made /\ start.host = ScriptHost /\ Confirmed(ScriptHost, agreed)
    BY DEF RunScenario, Calling, Made
  <1> HIDE DEF call
  <1>3. /\ calls' \in [Calls -> CallStates] /\ calls'[c] = call
        /\ \A d \in Calls : d # c => calls'[d] = calls[d]
    BY <1>1, <1>2, SetCall DEF WInv
  <1>4. row'.made /\ row'.column = start.host /\ state'.turns = <<>>
    BY <1>2 DEF Made
  <1>5. Len(Script) \in Nat
    BY WorkbenchAssumption, LenProperties
  <1>6. PlayedUpTo(0, state'.turns)
    BY <1>4, EmptySeq DEF PlayedUpTo
  <1>7. Fit(call, row', state', late')
    BY <1>1, <1>2, <1>4, <1>5, <1>6
       DEF Fit, EditIsHarmless, IsConfirmed, KeepsPace, IsInOrder, Confirmed
  <1>8. \A d \in Calls :
              calls'[d].step # "working" /\ Fit(calls'[d], row', state', late')
    BY <1>1, <1>2, <1>3, <1>7, NoCallsYet, NothingFits
  <1>9. started' \in Nat
    BY <1>2 DEF WInv, Typed
  <1> QED BY <1>2, <1>3, <1>8, <1>9, SessionMade

LEMMA Begun ==
    ASSUME WInv, NEW c \in Calls, Begin(c)
    PROVE  WInv'
  <1> DEFINE call == [calls[c] EXCEPT !.step = "working"]
  <1>1. /\ calls[c] \in CallStates /\ Fit(calls[c], row, state, late)
        /\ calls[c].step = "ready" /\ calls[c].kind # "advanced" /\ ~Ended(c)
        /\ UNCHANGED <<row, state, started, late, byHand>>
    BY DEF WInv, Typed, Begin
  <1>2. \A d \in Calls : calls[d].step # "working"
    BY DEF WInv, Locked, Begin, Free
  <1>3. CASE ~Loadable(state)
    <2>1. Becomes(c, Idle) /\ work' = work
      BY <1>3 DEF Begin
    <2> QED BY <1>1, <2>1, FirstIdle, ACallSteps DEF WInv, Typed
  <1>4. CASE Loadable(state)
    <2>1. Becomes(c, call) /\ work' = [held |-> TRUE, loaded |-> state]
      BY <1>4 DEF Begin
    <2>2. /\ call \in CallStates /\ call.step = "working" /\ call.kind = calls[c].kind
          /\ call.at = calls[c].at /\ call.slipped = calls[c].slipped
          /\ call.agreed = calls[c].agreed /\ call.moved = calls[c].moved
      BY <1>1 DEF CallStates
    <2> HIDE DEF call
    <2>3. call.kind \in {"send", "ingest", "scenario"} /\ row.made
      BY <1>1, <2>2 DEF CallStates, Kinds, Fit, IsInOrder
    <2>4. Len(Script) \in Nat
      BY WorkbenchAssumption, LenProperties
    <2>5. call.kind = "scenario" => call.at \in 0..Len(Script) /\ call.at < Len(Script)
      BY <1>1, <2>2, <2>4 DEF Fit, KeepsPace, Ended
    <2>6. Fit(call, row, state, late)
      BY <1>1, <2>2, <2>3, <2>5 DEF Fit, EditIsHarmless, IsConfirmed, KeepsPace, IsInOrder
    <2>7. /\ calls' \in [Calls -> CallStates] /\ calls'[c] = call
          /\ \A d \in Calls : d # c => calls'[d] = calls[d]
      BY <2>1, <2>2, SetCall DEF WInv
    <2>8. Typed'
      BY <1>1, <2>1, <2>7 DEF WInv, Typed
    <2>9. Locked'
      BY <1>1, <1>2, <2>1, <2>3, <2>7 DEF Locked
    <2>10. SettingsAgree' /\ Remembered' /\ TurnsAreAsChecked'
      BY <1>1 DEF WInv, SettingsAgree, Remembered, TurnsAreAsChecked
    <2>11. \A d \in Calls : Fit(calls'[d], row', state', late')
      BY <1>1, <2>6, <2>7 DEF WInv
    <2> QED BY <2>8, <2>9, <2>10, <2>11 DEF WInv
  <1> QED BY <1>3, <1>4

-----------------------------------------------------------------------------
(* Turns and documents.                                                    *)

\* What a call that works writes over is what it has loaded.
LEMMA SaveWrites ==
    ASSUME WInv, NEW c \in Calls, NEW seeded \in BOOLEAN, NEW turns \in Seq(Turns),
           Save(c, seeded, turns)
    PROVE  /\ row' = row /\ row.made /\ late' = late /\ work.loaded = state
           /\ state' \in States /\ state'.settings = state.settings /\ state'.turns = turns
           /\ state.memory # NoMemory => state'.memory = state.memory
           /\ Remembered' /\ SettingsAgree'
           /\ \A d \in Calls : calls[d].step = "working" => d = c
  <1>1. /\ work.loaded = state /\ row.made /\ state \in States /\ calls[c].step = "working"
        /\ late \in BOOLEAN /\ \A d \in Calls : calls[d].step = "working" => d = c
    BY DEF WInv, Typed, Locked, Save
  <1>2. UNCHANGED <<row, started, late, byHand>>
    BY DEF Save
  <1> DEFINE set == state.settings
             memory == IF seeded /\ state.memory = NoMemory THEN MemoryOf(set)
                       ELSE state.memory
  <1>3. state' = [settings |-> set, memory |-> memory, clustered |-> ClusterOf(set),
                  turns |-> turns]
    BY <1>1 DEF Save
  <1>4. set \in Settings /\ memory \in Memories
    BY <1>1, MemoryTyped DEF States
  <1>5. state.memory # NoMemory => memory = state.memory
    OBVIOUS
  <1>6. memory # NoMemory /\ ~late => MemoryOf(set) = memory /\ ClusterOf(set) = memory.span
    BY <1>4, MemoryTyped DEF WInv, Remembered
  <1>7. ClusterOf(set) \in Nat
    BY <1>4, MemoryTyped
  <1> HIDE DEF memory
  <1>8. state' \in States
    BY <1>3, <1>4, <1>7 DEF States
  <1>9. Remembered'
    BY <1>2, <1>3, <1>6 DEF Remembered
  <1>10. SettingsAgree'
    BY <1>2, <1>3 DEF WInv, SettingsAgree
  <1> QED BY <1>1, <1>2, <1>3, <1>5, <1>8, <1>9, <1>10

LEMMA Saved ==
    ASSUME WInv, NEW c \in Calls, NEW seeded \in BOOLEAN, NEW turns \in Seq(Turns),
           Save(c, seeded, turns), TurnsAreAsChecked', calls' \in [Calls -> CallStates],
           \A d \in Calls :
              calls'[d].step # "working" /\ Fit(calls'[d], row', state', late')
    PROVE  WInv'
  <1>1. row' = row /\ state' \in States /\ Remembered' /\ SettingsAgree'
    BY SaveWrites
  <1>2. Unheld \in [held : BOOLEAN, loaded : States]
    BY NoSessionTyped DEF Unheld
  <1>3. Typed'
    BY <1>1, <1>2 DEF Typed, WInv, Save
  <1>4. Locked'
    BY DEF Locked, Save, Unheld
  <1> QED BY <1>1, <1>3, <1>4 DEF WInv

\* What a call was checked for is not undone by what another call saves.
LEMMA OthersFit ==
    ASSUME NEW call \in CallStates, NEW s \in States, NEW t \in States, NEW r, NEW l,
           Fit(call, r, s, l), t.settings = s.settings,
           s.memory # NoMemory => t.memory = s.memory,
           t.turns = s.turns \/ call.kind # "scenario" \/ call.step = "looked"
    PROVE  Fit(call, r, t, l)
  <1>1. EditIsHarmless(call, t, l)
    BY DEF Fit, EditIsHarmless
  <1>2. KeepsPace(call, t)
    BY DEF Fit, KeepsPace
  <1> QED BY <1>1, <1>2 DEF Fit

LEMMA DocumentsIngested ==
    ASSUME WInv, NEW c \in Calls, NEW seeded \in BOOLEAN, Ingested(c, seeded)
    PROVE  WInv'
  <1>1. /\ Save(c, seeded, work.loaded.turns) /\ Becomes(c, Idle)
        /\ work.loaded.turns \in Seq(Turns)
    BY DEF Ingested, WInv, Typed, States
  <1>2. /\ row' = row /\ late' = late /\ work.loaded = state /\ state' \in States
        /\ state'.settings = state.settings /\ state'.turns = state.turns
        /\ state.memory # NoMemory => state'.memory = state.memory
        /\ \A d \in Calls : calls[d].step = "working" => d = c
    BY <1>1, SaveWrites
  <1>3. /\ calls' \in [Calls -> CallStates] /\ calls'[c] = Idle
        /\ \A d \in Calls : d # c => calls'[d] = calls[d]
    BY <1>1, SetCall, FirstIdle DEF WInv
  <1>4. TurnsAreAsChecked'
    BY <1>2 DEF WInv, TurnsAreAsChecked
  <1>5. \A d \in Calls :
              calls'[d].step # "working" /\ Fit(calls'[d], row', state', late')
    <2>1. TAKE d \in Calls
    <2>2. CASE d = c
      BY <1>3, <2>2, FirstIdle
    <2>3. CASE d # c
      <3>1. calls[d] \in CallStates /\ Fit(calls[d], row, state, late) /\ state \in States
        BY DEF WInv, Typed
      <3> QED BY <1>2, <1>3, <2>3, <3>1, OthersFit
    <2> QED BY <2>2, <2>3
  <1> QED BY <1>1, <1>3, <1>4, <1>5, Saved

\* The turn of a call that works, put after those that are there.
LEMMA TurnAppended ==
    ASSUME WInv, NEW c \in Calls, calls[c].step = "working", calls[c].kind # "ingest"
    PROVE  /\ Turn(calls[c], state) \in Turns
           /\ LET t == Turn(calls[c], state)
                  n == Len(state.turns)
              IN  /\ t.host = "away" => t.agreed \/ t.moved
                  /\ t.at # 0 /\ ~t.slipped =>
                        /\ t.at = n + 1 /\ t.q = Script[n + 1]
                        /\ \A j \in 1..n : state.turns[j].q = Script[j]
  <1>1. /\ calls[c] \in CallStates /\ Fit(calls[c], row, state, late) /\ state \in States
    BY DEF WInv, Typed
  <1>2. row.made /\ calls[c].kind \in {"send", "scenario"}
    BY <1>1 DEF Fit, IsInOrder
  <1>3. state.settings \in Settings /\ state.settings.host = row.column
        /\ state.settings.host \in Hosts
    BY <1>1, <1>2 DEF WInv, SettingsAgree, States, Settings
  <1>4. row.column = "away" => calls[c].agreed \/ calls[c].moved
    BY <1>1, <1>2 DEF Fit, IsConfirmed
  <1>5. CASE calls[c].kind = "send"
    <2>1. Turn(calls[c], state) =
             [q |-> calls[c].q, host |-> state.settings.host, agreed |-> calls[c].agreed,
              moved |-> calls[c].moved, at |-> 0, slipped |-> calls[c].slipped]
      BY <1>5 DEF Turn
    <2> QED BY <1>1, <1>3, <1>4, <2>1 DEF Turns, CallStates
  <1>6. CASE calls[c].kind = "scenario"
    <2> DEFINE k == calls[c].at
    <2>1. /\ k \in Nat /\ k < Len(Script)
          /\ ~calls[c].slipped => PlayedUpTo(k, state.turns)
      BY <1>1, <1>6 DEF Fit, KeepsPace, CallStates
    <2>2. Script[k + 1] \in Questions
      BY <2>1, WorkbenchAssumption, LenProperties, ElementOfSeq
    <2>3. Turn(calls[c], state) =
             [q |-> Script[k + 1], host |-> state.settings.host, agreed |-> calls[c].agreed,
              moved |-> calls[c].moved, at |-> k + 1, slipped |-> calls[c].slipped]
      BY <1>6 DEF Turn
    <2> HIDE DEF k
    <2>4. Turn(calls[c], state) \in Turns
      BY <1>1, <1>3, <2>1, <2>2, <2>3 DEF Turns, CallStates
    <2> QED BY <1>3, <1>4, <2>1, <2>3, <2>4 DEF PlayedUpTo
  <1> QED BY <1>2, <1>5, <1>6

LEMMA Answered ==
    ASSUME WInv, NEW c \in Calls, NEW seeded \in BOOLEAN, Answer(c, seeded)
    PROVE  WInv'
  <1> DEFINE t == Turn(calls[c], state)
             turns == Append(state.turns, t)
             n == Len(state.turns)
             next == IF calls[c].kind = "send" THEN Idle
                     ELSE [calls[c] EXCEPT !.at = calls[c].at + 1, !.step = "ready"]
  <1>1. /\ calls[c] \in CallStates /\ Fit(calls[c], row, state, late) /\ state \in States
        /\ calls[c].kind # "ingest" /\ calls[c].step = "working" /\ work.loaded = state
        /\ calls \in [Calls -> CallStates]
    BY DEF WInv, Typed, Locked, Answer, Save
  <1>2. /\ Save(c, seeded, turns) /\ calls' = Overtaken(c, next)
    BY <1>1 DEF Answer
  <1>3. /\ t \in Turns
        /\ t.host = "away" => t.agreed \/ t.moved
        /\ t.at # 0 /\ ~t.slipped =>
               /\ t.at = n + 1 /\ t.q = Script[n + 1]
               /\ \A j \in 1..n : state.turns[j].q = Script[j]
    BY <1>1, TurnAppended
  <1>4. t.at = (IF calls[c].kind = "scenario" THEN calls[c].at + 1 ELSE 0)
        /\ t.slipped = calls[c].slipped
    BY DEF Turn
  <1> HIDE DEF t, next
  <1>5. state.turns \in Seq(Turns) /\ n \in Nat
    BY <1>1, LenProperties DEF States
  <1>6. /\ turns \in Seq(Turns) /\ Len(turns) = n + 1
        /\ \A i \in 1..n : turns[i] = state.turns[i]
        /\ turns[n + 1] = t
    BY <1>3, <1>5, AppendProperties
  <1>7. DOMAIN turns = 1..(n + 1) /\ DOMAIN state.turns = 1..n
    BY <1>5, <1>6, LenProperties
  <1> HIDE DEF turns, n
  <1>8. /\ row' = row /\ row.made /\ late' = late /\ state' \in States
        /\ state'.settings = state.settings /\ state'.turns = turns
        /\ state.memory # NoMemory => state'.memory = state.memory
        /\ \A d \in Calls : calls[d].step = "working" => d = c
    BY <1>2, <1>6, SaveWrites
  <1>9. TurnsAreAsChecked'
    <2>1. SUFFICES ASSUME NEW i \in 1..(n + 1)
                   PROVE  /\ turns[i].host = "away" => turns[i].agreed \/ turns[i].moved
                          /\ turns[i].at # 0 /\ ~turns[i].slipped =>
                                turns[i].at = i /\ \A j \in 1..i : turns[j].q = Script[j]
      BY <1>7, <1>8 DEF TurnsAreAsChecked
    <2>2. CASE i = n + 1
      BY <1>3, <1>5, <1>6, <2>2
    <2>3. CASE i \in 1..n
      BY SMTT(20), <1>5, <1>6, <1>7, <2>3 DEF WInv, TurnsAreAsChecked
    <2> QED BY <1>5, <2>2, <2>3
  <1>10. next \in CallStates /\ next.step # "working" /\ Fit(next, row', state', late')
    <2>1. CASE calls[c].kind = "send"
      BY <2>1, FirstIdle DEF next
    <2>2. CASE calls[c].kind # "send"
      <3>1. calls[c].kind = "scenario"
        BY <1>1, <2>2 DEF Fit, IsInOrder
      <3>2. calls[c].at \in 0..Len(Script) /\ calls[c].at < Len(Script) /\ Len(Script) \in Nat
        BY <1>1, <3>1, WorkbenchAssumption, LenProperties DEF Fit, KeepsPace
      <3> DEFINE k == calls[c].at + 1
      <3>3. next = [calls[c] EXCEPT !.at = k, !.step = "ready"] /\ k \in Nat
        BY <2>2, <3>2 DEF next
      <3> HIDE DEF k
      <3>4. /\ next \in CallStates /\ next.kind = "scenario" /\ next.step = "ready"
            /\ next.at = k /\ next.slipped = calls[c].slipped
            /\ next.agreed = calls[c].agreed /\ next.moved = calls[c].moved
        BY <1>1, <3>1, <3>3 DEF CallStates
      <3>5. ~next.slipped => PlayedUpTo(next.at, turns)
        <4>1. SUFFICES ASSUME ~calls[c].slipped PROVE PlayedUpTo(k, turns)
          BY <3>4
        <4>2. t.at = k /\ k # 0 /\ ~t.slipped
          BY <1>4, <3>1, <3>2, <4>1 DEF k
        <4>3. k = n + 1 /\ t.q = Script[n + 1] /\ \A j \in 1..n : state.turns[j].q = Script[j]
          BY <1>3, <4>2
        <4>4. ASSUME NEW i \in 1..(n + 1) PROVE turns[i].q = Script[i]
          BY <1>5, <1>6, <4>3
        <4> QED BY <1>6, <4>3, <4>4 DEF PlayedUpTo
      <3> QED BY <1>1, <1>8, <3>1, <3>2, <3>4, <3>5
              DEF k, Fit, EditIsHarmless, IsConfirmed, KeepsPace, IsInOrder
    <2> QED BY <2>1, <2>2
  <1>11. ASSUME NEW d \in Calls, d # c
         PROVE  /\ calls'[d] \in CallStates /\ calls'[d].step # "working"
                /\ Fit(calls'[d], row', state', late')
    <2>1. calls[d] \in CallStates /\ Fit(calls[d], row, state, late) /\ calls[d].step # "working"
      BY <1>8, <1>11 DEF WInv, Typed
    <2>2. CASE calls[d].kind = "scenario" /\ calls[d].step # "looked"
      <3> DEFINE call == [calls[d] EXCEPT !.slipped = TRUE]
      <3>1. calls'[d] = call
        BY <1>2, <1>11, <2>2 DEF Overtaken
      <3>2. /\ call \in CallStates /\ call.kind = "scenario" /\ call.step = calls[d].step
            /\ call.at = calls[d].at /\ call.slipped
            /\ call.agreed = calls[d].agreed /\ call.moved = calls[d].moved
        BY <2>1, <2>2 DEF CallStates
      <3> HIDE DEF call
      <3> QED BY <1>8, <2>1, <2>2, <3>1, <3>2
              DEF Fit, EditIsHarmless, IsConfirmed, KeepsPace, IsInOrder
    <2>3. CASE ~(calls[d].kind = "scenario" /\ calls[d].step # "looked")
      <3>1. calls'[d] = calls[d]
        BY <1>2, <1>11, <2>3 DEF Overtaken
      <3> QED BY <1>1, <1>8, <2>1, <2>3, <3>1, OthersFit
    <2> QED BY <2>2, <2>3
  <1>12. calls'[c] = next /\ DOMAIN calls' = Calls /\ calls' = [d \in Calls |-> calls'[d]]
    BY <1>2 DEF Overtaken
  <1>13. calls' \in [Calls -> CallStates]
    BY <1>10, <1>11, <1>12
  <1>14. \A d \in Calls :
              calls'[d].step # "working" /\ Fit(calls'[d], row', state', late')
    BY <1>10, <1>11, <1>12
  <1> QED BY <1>2, <1>6, <1>9, <1>13, <1>14, Saved

-----------------------------------------------------------------------------
(* Theorems                                                                *)

LEMMA WInitially ==
    ASSUME Init
    PROVE  WInv
  <1>1. NoSession \in States /\ NoSession.settings \in Settings
        /\ NoSession.settings.host \in Hosts
    BY NoSessionTyped DEF States, Settings
  <1>2. Typed
    BY <1>1, FirstIdle DEF Init, Typed, Rows, Unheld
  <1>3. Locked /\ \A c \in Calls : Fit(calls[c], row, state, late)
    BY FirstIdle DEF Init, Locked, Unheld
  <1>4. SettingsAgree /\ Remembered /\ TurnsAreAsChecked
    BY DEF Init, SettingsAgree, Remembered, TurnsAreAsChecked, NoSession
  <1> QED BY <1>2, <1>3, <1>4 DEF WInv

LEMMA WStays ==
    ASSUME WInv, [Next]_vars
    PROVE  WInv'
  <1>1. CASE UNCHANGED vars
    <2>1. Typed' /\ Locked' /\ SettingsAgree' /\ Remembered' /\ TurnsAreAsChecked'
      BY <1>1 DEF WInv, vars, Typed, Locked, SettingsAgree, Remembered, TurnsAreAsChecked
    <2>2. \A c \in Calls : Fit(calls'[c], row', state', late')
      BY <1>1 DEF WInv, vars
    <2> QED BY <2>1, <2>2 DEF WInv
  <1>2. ASSUME NEW start \in Starts, NEW agreed \in BOOLEAN,
               \/ \E slider \in Levels \cup {Unset} : CreateSession(start, slider, agreed)
               \/ \E c \in Calls : RunScenario(c, start, agreed)
        PROVE  WInv'
    BY <1>2, SessionCreated, ScenarioStarted
  <1>3. ASSUME NEW level \in Levels, UpdateControls(level)
        PROVE  WInv'
    BY <1>3, ControlsUpdated
  <1>4. ASSUME NEW c \in Calls, NEW agreed \in BOOLEAN,
               \/ \E q \in Questions : CheckSend(c, q, agreed)
               \/ CheckIngest(c, agreed)
               \/ \E edit \in Edits : CheckAdvanced(c, edit, agreed)
               \/ CheckResume(c, agreed)
        PROVE  WInv'
    BY <1>4, SendChecked, IngestChecked, AdvancedChecked, ResumeChecked
  <1>5. ASSUME NEW c \in Calls,
               \/ Begin(c) \/ Fails(c) \/ UpdateAdvanced(c) \/ LookUp(c) \/ Finish(c)
               \/ \E seeded \in BOOLEAN : Answer(c, seeded) \/ Ingested(c, seeded)
        PROVE  WInv'
    BY <1>5, Begun, CallEnds, AdvancedUpdated, LookedUp, Answered, DocumentsIngested
  <1>6. CASE Stop
    BY <1>6, AllStop
  <1> QED BY <1>1, <1>2, <1>3, <1>4, <1>5, <1>6 DEF Next

\* The inductive invariant: the lock keeps what a call works on the stored state, an
\* advanced update that saw seeds changes nothing they depend on, and a scenario that
\* was not overtaken stands where the turns end.
THEOREM WorkbenchInvariant == Spec => []WInv
  <1>1. Init => WInv
    BY WInitially
  <1>2. WInv /\ [Next]_vars => WInv'
    BY WStays
  <1> QED BY <1>1, <1>2, PTL DEF Spec

\* The three copies of a conversation's settings agree, whatever turns and updates of
\* whatever threads run into each other.
THEOREM SettingsAlwaysAgree == Spec => []SettingsAgree
  <1>1. WInv => SettingsAgree
    BY DEF WInv
  <1> QED BY <1>1, WorkbenchInvariant, PTL

\* Seeds are only ever read under the structure they were stored under, and their
\* conversation loads, except after a change that was checked before them.
THEOREM MemoryIsAlwaysReadable == Spec => []MemoryStaysReadable
  <1>1. WInv => MemoryStaysReadable
    <2>1. SUFFICES ASSUME WInv, state.memory # NoMemory, ~late
                   PROVE  MemoryOf(state.settings) = state.memory /\ Loadable(state)
      BY DEF MemoryStaysReadable
    <2>2. state.settings \in Settings
      BY <2>1 DEF WInv, Typed, States
    <2>3. MemoryOf(state.settings) = state.memory /\ state.clustered = state.memory.span
      BY <2>1 DEF WInv, Remembered
    <2> QED BY <2>2, <2>3, MemoryTyped DEF Loadable
  <1> QED BY <1>1, WorkbenchInvariant, PTL

\* A turn leaves for an external provider only as its call confirmed, and a scenario
\* asks its questions in order, each once, but for the exceptions the property names.
THEOREM TurnsAreAlwaysAsChecked == Spec => []TurnsAreAsChecked
  <1>1. WInv => TurnsAreAsChecked
    BY DEF WInv
  <1> QED BY <1>1, WorkbenchInvariant, PTL

-----------------------------------------------------------------------------
(***************************************************************************)
(* The page.                                                               *)
(***************************************************************************)

\* The values of the variables.

Somebody == Conversations \cup {Nobody}
SeedKinds == Seeds \cup {"none", "open", "wanting", "blocked"}
Chats == [made : BOOLEAN, settings : Somebody, turns : Seq(Nat), seed : SeedKinds]
Views == [of : Somebody, n : Nat, seed : SeedKinds]
Panels == [of : Somebody, seed : SeedKinds \cup {"unread", "unpicked"}]
Events == [step : {"free", "sent", "back"}, s : Somebody, m : Nat, picked : BOOLEAN,
           of : Somebody, ticked : BOOLEAN, again : BOOLEAN, live : BOOLEAN, ok : BOOLEAN,
           view : Views, odd : BOOLEAN]
Pages == [active : Somebody, selector : Somebody, listed : SUBSET Conversations,
          head : Somebody, chat : [of : Somebody, n : Nat], memory : Panels, form : Somebody,
          story : Panels, picked : BOOLEAN, buttons : SUBSET SeedActions, ticked : BOOLEAN,
          box : [Boxes -> Nat]]
Pasts == [mixed : BOOLEAN, crossing : BOOLEAN, behind : BOOLEAN, blind : BOOLEAN,
          twice : SUBSET Nat, excused : SUBSET Conversations]

PageTyped ==
    /\ server \in [Conversations -> Chats]
    /\ page \in Pages /\ built \in Pages
    /\ jobs \in [Listeners -> Events]
    /\ typed \in Nat /\ past \in Pasts

-----------------------------------------------------------------------------
(* The inductive invariants.                                               *)

\* Events: only a change listener runs again, and only what a click sent outlives the page.
Orderly ==
    \A l \in Listeners :
        /\ jobs[l].step = "free" => jobs[l] = NoEvent
        /\ l \in Clicks => ~jobs[l].again
        /\ l \in Changes => jobs[l].live
        /\ jobs[l].step = "back" => jobs[l].view.of = jobs[l].s

There == {s \in Conversations : server[s].made}
Listed(p) == p.listed \cup {Nobody}

\* The conversations that components and events name are there.
NamesAreKnown ==
    /\ page.listed \subseteq There /\ built.listed \subseteq There
    /\ page.active \in Listed(page) /\ page.selector \in Listed(page)
    /\ built.active \in Listed(built) /\ built.selector = built.active
    /\ jobs["select"].s \in Listed(page)
    /\ \A l \in Listeners \ {"create"} : jobs[l].s \in There \cup {Nobody}
    /\ \A s \in Conversations \ There : server[s].turns = <<>>

\* The page that is loaded shows one conversation, empty boxes and no seed.
BuiltIsOne ==
    /\ built.head = built.active /\ built.chat.of = built.active
    /\ built.memory.of = built.active /\ built.form = built.active
    /\ ~built.picked /\ \A b \in Boxes : built.box[b] = Empty

\* A conversation that was made and is not shown yet is not known to the page.
NewIsUnknown ==
    LET j == jobs["create"]
    IN  j.step = "back" /\ j.live =>
          /\ j.s \in Conversations \ page.listed
          /\ j.ok => j.s \in There /\ j.view.n = 0
          /\ server[j.s].turns = <<>>
          /\ \A l \in Listeners \ {"create"} : jobs[l].s # j.s

Base == PageTyped /\ Orderly /\ NamesAreKnown /\ BuiltIsOne /\ NewIsUnknown

\* Messages.  Those of the two boxes are different; what was typed once is held by one
\* event, and by no box when that event is dead; what is recorded of it is there once, and
\* was answered.
Recorded(m) == \E s \in Conversations : \E i \in DOMAIN server[s].turns : server[s].turns[i] = m
Holds(l, m) == l \in Asks /\ jobs[l].m = m
InBox(b, m) == page.box[b] = m

MessagesAreTyped ==
    /\ \A l \in Asks : jobs[l].m \in 0..typed
    /\ \A b \in Boxes : page.box[b] \in 0..typed
    /\ \A m : Recorded(m) => m \in 1..typed

BoxesAreApart ==
    \A m \in Nat \ {Empty} :
        /\ \A l \in Asks, b \in Boxes : Holds(l, m) /\ InBox(b, m) => BoxOf(l) = b
        /\ \A l, k \in Asks : Holds(l, m) /\ Holds(k, m) => BoxOf(l) = BoxOf(k)
        /\ \A b, c \in Boxes : InBox(b, m) /\ InBox(c, m) => b = c

MessagesAreSingle ==
    \A m \in Nat \ ({Empty} \cup past.twice) :
        /\ \A l, k \in Asks : Holds(l, m) /\ Holds(k, m) => l = k
        /\ \A l \in Asks : Holds(l, m) /\ ~jobs[l].live => \A b \in Boxes : ~InBox(b, m)
        /\ Recorded(m) =>
             /\ \A l \in Asks : Holds(l, m) => jobs[l].step = "back" /\ jobs[l].ok
             /\ \A b \in Boxes : InBox(b, m) =>
                  \E l \in Asks : Holds(l, m) /\ jobs[l].live /\ BoxOf(l) = b

MessageInv == MessagesAreTyped /\ BoxesAreApart /\ MessagesAreSingle /\ AskedOnce

\* Which conversation components and events are of.
Under(k) == k \in Clicks \ {"create"} /\ InFlight(k) /\ jobs[k].live
Clear == IF InFlight("select") THEN ~past.crossing ELSE ~past.mixed

OneIsShown ==
    ~past.mixed =>
        page.head = page.active /\ page.chat.of = page.active /\ page.memory.of = page.active
SelectionsFollow ==
    /\ \A l \in {"select", "controls"} :
          InFlight(l) /\ ~jobs[l].again => jobs[l].s = page.selector
    /\ ~past.mixed /\ ~InFlight("select") => page.active = page.selector
ClicksAreOfIt ==
    /\ ~past.mixed => \A k \in Clicks : Under(k) => jobs[k].s = page.active
    /\ InFlight("select") /\ ~past.crossing =>
         \A k \in Clicks : Under(k) => jobs[k].s = page.selector /\ jobs[k].s = jobs["select"].s
FormFollows == Clear /\ ~InFlight("controls") => page.form \in {page.selector, Nobody}
SavesAreHome == Sent("save") /\ ~jobs["save"].odd => jobs["save"].of = jobs["save"].s
ShownInv ==
    /\ OneIsShown /\ SelectionsFollow /\ ClicksAreOfIt
    /\ FormFollows /\ SavesAreHome /\ SettingsStayHome

\* Whose story is shown.
InspectionFollows ==
    InFlight("inspect") /\ ~jobs["inspect"].again =>
        /\ jobs["inspect"].picked = page.picked
        /\ page.picked => jobs["inspect"].s = page.active
StoryFollows ==
    ~past.mixed /\ ~InFlight("inspect") /\ page.picked /\ page.active # Nobody =>
        page.story.of = page.active \/ page.story.seed \in {"unread", "unpicked"}
ActionsAreOnIt ==
    \A l \in SeedActions :
        Sent(l) /\ jobs[l].picked /\ jobs[l].s # Nobody /\ ~jobs[l].odd =>
            jobs[l].of = jobs[l].s
StoryInv == InspectionFollows /\ StoryFollows /\ ActionsAreOnIt /\ SeedActionsAreSeen

\* How far the chat and the answers that are under way have come.
TurnsOf(s) == Len(server[s].turns)
Waiting(l) == l \in Asks /\ jobs[l].step = "back" /\ jobs[l].live /\ (jobs[l].ok \/ l = "research")
AnswersAreCurrent ==
    /\ \A l \in Asks : InFlight(l) /\ ~jobs[l].live => past.behind
    /\ ~past.behind =>
         /\ \A l \in Asks : jobs[l].step = "back" /\ jobs[l].s # Nobody =>
               jobs[l].view.n = TurnsOf(jobs[l].s)
         /\ jobs["select"].step = "back" /\ jobs["select"].ok /\ jobs["select"].s # Nobody =>
               jobs["select"].view.n = TurnsOf(jobs["select"].s)
ChatIsCurrent ==
    ~past.mixed /\ ~past.behind /\ page.active # Nobody /\ ~InFlight("select")
       /\ (\A l \in Asks : ~Waiting(l)) => page.chat.n = TurnsOf(page.active)
CurrentInv == AnswersAreCurrent /\ ChatIsCurrent

PInv == Base /\ MessageInv /\ ShownInv /\ StoryInv /\ CurrentInv

-----------------------------------------------------------------------------
(* Events.                                                                 *)

LEMMA NamesOfListeners ==
    /\ Changes \subseteq Listeners /\ Clicks \subseteq Listeners /\ Asks \subseteq Clicks
    /\ SeedActions \subseteq Clicks /\ Changes \cap Clicks = {} /\ Listeners = Changes \cup Clicks
    /\ Asks \cap SeedActions = {} /\ {"ingest", "create", "preset", "save"} \subseteq Clicks
    /\ {"ingest", "create", "preset", "save"} \cap (Asks \cup SeedActions) = {}
    /\ \A l \in Asks : BoxOf(l) \in Boxes
  BY DEF Changes, Clicks, Listeners, Asks, SeedActions, BoxOf, Boxes

LEMMA NoEventIs ==
    /\ NoEvent \in Events /\ NoView \in Views /\ NoView.of = Nobody /\ NoView.seed = "none"
    /\ NoEvent.step = "free" /\ NoEvent.s = Nobody /\ NoEvent.m = Empty /\ ~NoEvent.again
    /\ NoEvent.live /\ ~NoEvent.ok /\ ~NoEvent.odd /\ ~NoEvent.picked
  BY DEF NoEvent, Events, NoView, Views, Somebody, SeedKinds, Empty

LEMMA InputsAre ==
    ASSUME NEW l \in Listeners, NEW p \in Pages
    PROVE  /\ Inputs(l, p) \in Events
           /\ Inputs(l, p).step = "sent" /\ ~Inputs(l, p).again /\ Inputs(l, p).live
           /\ ~Inputs(l, p).ok /\ ~Inputs(l, p).odd
           /\ Inputs(l, p).s = IF l \in {"select", "controls"} THEN p.selector ELSE p.active
           /\ l \in Asks => Inputs(l, p).m = p.box[BoxOf(l)]
           /\ l \in SeedActions \cup {"inspect"} =>
                 Inputs(l, p).picked = p.picked /\ Inputs(l, p).of = p.story.of
           /\ l = "save" => Inputs(l, p).of = p.form
  <1> DEFINE sent == [NoEvent EXCEPT !.step = "sent",
                        !.s = IF l \in {"select", "controls"} THEN p.selector ELSE p.active]
  <1>1. /\ sent \in Events /\ sent.step = "sent" /\ ~sent.again /\ sent.live /\ ~sent.ok /\ ~sent.odd
        /\ sent.s = IF l \in {"select", "controls"} THEN p.selector ELSE p.active
    BY NoEventIs DEF Events, Pages
  <1> HIDE DEF sent
  <1>2. CASE l \in Asks
    <2>1. Inputs(l, p) = [sent EXCEPT !.m = p.box[BoxOf(l)]]
      BY <1>2 DEF Inputs, sent, Asks, SeedActions
    <2>2. p.box[BoxOf(l)] \in Nat
      BY <1>2, NamesOfListeners DEF Pages
    <2>3. l \notin SeedActions \cup {"inspect"} /\ l # "save"
      BY <1>2 DEF Asks, SeedActions
    <2>4. QED
      BY <1>1, <2>1, <2>2, <2>3 DEF Events
  <1>3. CASE l \in SeedActions \cup {"inspect"}
    <2>1. Inputs(l, p) = [sent EXCEPT !.picked = p.picked, !.ticked = p.ticked, !.of = p.story.of]
      BY <1>3 DEF Inputs, sent, Asks, SeedActions
    <2>2. p.story.of \in Somebody /\ p.picked \in BOOLEAN /\ p.ticked \in BOOLEAN
      BY DEF Pages, Panels
    <2>3. l \notin Asks /\ l # "save"
      BY <1>3 DEF Asks, SeedActions
    <2>4. QED
      BY <1>1, <2>1, <2>2, <2>3 DEF Events
  <1>4. CASE l = "save"
    <2>1. Inputs(l, p) = [sent EXCEPT !.of = p.form]
      BY <1>4 DEF Inputs, sent, Asks, SeedActions
    <2>2. p.form \in Somebody
      BY DEF Pages
    <2>3. l \notin Asks \cup SeedActions \cup {"inspect"}
      BY <1>4 DEF Asks, SeedActions
    <2>4. QED
      BY <1>1, <2>1, <2>2, <2>3 DEF Events
  <1>5. CASE l \notin Asks \cup SeedActions \cup {"inspect", "save"}
    <2>1. Inputs(l, p) = sent
      BY <1>5 DEF Inputs, sent
    <2>2. QED
      BY <1>1, <1>5, <2>1
  <1>6. QED
    BY <1>2, <1>3, <1>4, <1>5

\* What a change of the components makes of every event.
LEMMA Becoming ==
    ASSUME NEW base \in [Listeners -> Events], NEW ls, NEW new \in Pages,
           ComponentsBecome(base, ls, new)
    PROVE  /\ page' = new /\ jobs' \in [Listeners -> Events]
           /\ \A k \in Listeners :
                 jobs'[k] = IF k \notin ls THEN base[k]
                            ELSE IF base[k].step = "free" THEN Inputs(k, new)
                            ELSE [base[k] EXCEPT !.again = TRUE]
  <1>1. page' = new /\ \A k \in Listeners :
           jobs'[k] = IF k \notin ls THEN base[k]
                      ELSE IF base[k].step = "free" THEN Inputs(k, new)
                      ELSE [base[k] EXCEPT !.again = TRUE]
    BY DEF ComponentsBecome
  <1>2. \A k \in Listeners : Inputs(k, new) \in Events
    BY InputsAre
  <1>3. \A k \in Listeners : [base[k] EXCEPT !.again = TRUE] \in Events
    BY DEF Events
  <1>4. \A k \in Listeners : jobs'[k] \in Events
    BY <1>1, <1>2, <1>3
  <1>5. jobs' \in [Listeners -> Events]
    BY <1>4 DEF ComponentsBecome
  <1>6. QED
    BY <1>1, <1>5

LEMMA TriggeredAre ==
    ASSUME NEW p, NEW q
    PROVE  /\ Triggered(p, q) \subseteq Changes
           /\ "select" \in Triggered(p, q) <=> q.selector # p.selector
           /\ "controls" \in Triggered(p, q) <=> q.selector # p.selector
           /\ "inspect" \in Triggered(p, q) <=> q.picked # p.picked
  BY DEF Triggered, Changes

\* What follows a change of the components on every event, when base is what was before.
Follows(base, k, new) ==
    IF k \notin Triggered(page, new) THEN jobs'[k] = base
    ELSE IF base.step = "free" THEN jobs'[k] = Inputs(k, new)
    ELSE jobs'[k] = [base EXCEPT !.again = TRUE]

\* What the outputs of a listener do to every event.
LEMMA Showing ==
    ASSUME Base, NEW l \in Listeners, NEW new \in Pages, Shows(l, new)
    PROVE  /\ jobs[l].step = "back" /\ jobs[l].live /\ page' = new
           /\ server' = server /\ built' = built /\ typed' = typed
           /\ jobs' \in [Listeners -> Events]
           /\ \A k \in Listeners \ {l} : Follows(jobs[k], k, new)
           /\ IF l \in Triggered(page, new) \/ jobs[l].again
                THEN l \in Changes /\ jobs'[l] = Inputs(l, new)
                ELSE jobs'[l] = NoEvent
           /\ \A k \in Clicks : jobs'[k] = IF k = l THEN NoEvent ELSE jobs[k]
  <1> DEFINE base == [jobs EXCEPT ![l] = NoEvent]
             ls == Triggered(page, new) \cup (IF jobs[l].again THEN {l} ELSE {})
  <1>1. /\ jobs[l].step = "back" /\ jobs[l].live /\ ComponentsBecome(base, ls, new)
        /\ server' = server /\ built' = built /\ typed' = typed
    BY DEF Shows
  <1>2. jobs \in [Listeners -> Events] /\ base \in [Listeners -> Events]
    BY NoEventIs DEF Base, PageTyped
  <1>3. /\ page' = new /\ jobs' \in [Listeners -> Events]
        /\ \A k \in Listeners :
              jobs'[k] = IF k \notin ls THEN base[k]
                         ELSE IF base[k].step = "free" THEN Inputs(k, new)
                         ELSE [base[k] EXCEPT !.again = TRUE]
    <2> HIDE DEF base, ls
    <2>1. QED
      BY <1>1, <1>2, Becoming
  <1>4. base[l] = NoEvent /\ base[l].step = "free" /\ \A k \in Listeners \ {l} : base[k] = jobs[k]
    BY <1>2, NoEventIs
  <1>5. \A k \in Listeners \ {l} : k \in ls <=> k \in Triggered(page, new)
    OBVIOUS
  <1>6. l \in ls <=> l \in Triggered(page, new) \/ jobs[l].again
    OBVIOUS
  <1>7. l \in ls => l \in Changes
    BY <1>6, TriggeredAre, NamesOfListeners DEF Base, Orderly
  <1>8. \A k \in Clicks : k \in Listeners /\ k \notin ls
    BY <1>5, <1>7, TriggeredAre, NamesOfListeners
  <1> HIDE DEF base, ls
  <1>9. \A k \in Listeners \ {l} : Follows(jobs[k], k, new)
    BY <1>3, <1>4, <1>5 DEF Follows
  <1>10. IF l \in ls THEN jobs'[l] = Inputs(l, new) ELSE jobs'[l] = NoEvent
    BY <1>3, <1>4
  <1>11. \A k \in Clicks : jobs'[k] = IF k = l THEN NoEvent ELSE jobs[k]
    BY <1>3, <1>4, <1>8
  <1>12. QED
    BY <1>1, <1>3, <1>6, <1>7, <1>9, <1>10, <1>11

LEMMA ViewIs ==
    ASSUME NEW srv \in [Conversations -> Chats], NEW s \in Somebody
    PROVE  /\ ViewOf(srv, s) \in Views /\ ViewOf(srv, s).of = s
           /\ s # Nobody => /\ ViewOf(srv, s).n = Len(srv[s].turns)
                            /\ ViewOf(srv, s).seed = srv[s].seed
  BY NoEventIs DEF ViewOf, Views, Somebody, Chats

\* What the return of a handler does to every event.
LEMMA Returning ==
    ASSUME Base, NEW l \in Listeners, Sent(l), NEW ok \in BOOLEAN,
           NEW srv \in [Conversations -> Chats], Returns(l, ok, srv)
    PROVE  /\ server' = srv /\ jobs' \in [Listeners -> Events]
           /\ \A k \in Listeners \ {l} : jobs'[k] = jobs[k]
           /\ jobs'[l].step = "back" /\ jobs'[l].ok = ok /\ jobs'[l].view = ViewOf(srv, jobs[l].s)
           /\ jobs'[l].s = jobs[l].s /\ jobs'[l].m = jobs[l].m /\ jobs'[l].picked = jobs[l].picked
           /\ jobs'[l].of = jobs[l].of /\ jobs'[l].again = jobs[l].again
           /\ jobs'[l].live = jobs[l].live /\ jobs'[l].odd = jobs[l].odd
  <1> DEFINE view == ViewOf(srv, jobs[l].s)
             back == [jobs[l] EXCEPT !.step = "back", !.ok = ok, !.view = view]
  <1>1. jobs \in [Listeners -> Events] /\ jobs[l].s \in Somebody
    BY DEF Base, PageTyped, Events
  <1>2. view \in Views
    BY <1>1, ViewIs
  <1>3. server' = srv /\ jobs' = [jobs EXCEPT ![l] = back]
    BY DEF Returns
  <1> HIDE DEF view
  <1>4. /\ back \in Events /\ back.step = "back" /\ back.ok = ok /\ back.view = view
        /\ back.s = jobs[l].s /\ back.m = jobs[l].m /\ back.picked = jobs[l].picked
        /\ back.of = jobs[l].of /\ back.again = jobs[l].again
        /\ back.live = jobs[l].live /\ back.odd = jobs[l].odd
    BY <1>1, <1>2 DEF Events
  <1> HIDE DEF back
  <1>5. jobs' \in [Listeners -> Events] /\ jobs'[l] = back
    BY <1>1, <1>3, <1>4
  <1>6. \A k \in Listeners \ {l} : jobs'[k] = jobs[k]
    BY <1>1, <1>3
  <1>7. QED
    BY <1>3, <1>4, <1>5, <1>6 DEF view

-----------------------------------------------------------------------------
(* The events and the names a step leaves behind.                          *)

\* How an event may move when no handler returns.
JustSent(l) ==
    /\ jobs'[l].step = "sent" /\ ~jobs'[l].again /\ jobs'[l].live
    /\ jobs'[l].s = IF l \in {"select", "controls"} THEN page'.selector ELSE page'.active
Moves(l) ==
    \/ jobs'[l] = jobs[l]
    \/ jobs'[l] = NoEvent
    \/ l \in Changes /\ InFlight(l) /\ jobs'[l] = [jobs[l] EXCEPT !.again = TRUE]
    \/ JustSent(l)

LEMMA FollowsMoves ==
    ASSUME Base, NEW new \in Pages, page' = new, NEW l \in Listeners, Follows(jobs[l], l, new)
    PROVE  Moves(l)
  <1>1. Triggered(page, new) \subseteq Changes
    BY TriggeredAre
  <1>2. CASE l \notin Triggered(page, new)
    BY <1>2 DEF Follows, Moves
  <1>3. CASE l \in Triggered(page, new) /\ jobs[l].step = "free"
    <2>1. jobs'[l] = Inputs(l, new)
      BY <1>3 DEF Follows
    <2>2. JustSent(l)
      BY <2>1, InputsAre DEF JustSent
    <2>3. QED
      BY <2>2 DEF Moves
  <1>4. CASE l \in Triggered(page, new) /\ jobs[l].step # "free"
    BY <1>1, <1>4 DEF Follows, Moves, InFlight
  <1>5. QED
    BY <1>2, <1>3, <1>4

LEMMA MovesOrderly ==
    ASSUME Base, \A l \in Listeners : Moves(l)
    PROVE  Orderly'
  <1>1. SUFFICES ASSUME NEW l \in Listeners
                 PROVE  /\ jobs'[l].step = "free" => jobs'[l] = NoEvent
                        /\ l \in Clicks => ~jobs'[l].again
                        /\ l \in Changes => jobs'[l].live
                        /\ jobs'[l].step = "back" => jobs'[l].view.of = jobs'[l].s
    BY DEF Orderly
  <1>2. jobs[l] \in Events
    BY DEF Base, PageTyped
  <1>3. CASE jobs'[l] = jobs[l]
    BY <1>3 DEF Base, Orderly
  <1>4. CASE jobs'[l] = NoEvent
    BY <1>4, NoEventIs
  <1>5. CASE l \in Changes /\ InFlight(l) /\ jobs'[l] = [jobs[l] EXCEPT !.again = TRUE]
    <2>1. /\ jobs'[l].step = jobs[l].step /\ jobs'[l].live = jobs[l].live
          /\ jobs'[l].view = jobs[l].view /\ jobs'[l].s = jobs[l].s
      BY <1>2, <1>5 DEF Events
    <2>2. QED
      BY <1>5, <2>1, NamesOfListeners DEF Base, Orderly, InFlight
  <1>6. CASE JustSent(l)
    BY <1>6 DEF JustSent
  <1>7. QED
    BY <1>3, <1>4, <1>5, <1>6 DEF Moves

\* The names stay known when the page lists at least what it did, and more only when the
\* event of a conversation that is made has ended.
LEMMA MovesKnown ==
    ASSUME Base, \A l \in Listeners : Moves(l), server' = server, built' = built,
           page'.listed \subseteq There, page.listed \subseteq page'.listed,
           page'.listed # page.listed => jobs'["create"] = NoEvent,
           page'.active \in Listed(page'), page'.selector \in Listed(page')
    PROVE  NamesAreKnown' /\ BuiltIsOne' /\ NewIsUnknown'
  <1> USE NamesOfListeners
  <1>1. There' = There /\ Listed(page') \subseteq There \cup {Nobody}
    BY DEF There, Listed
  <1>2. \A l \in Listeners : /\ jobs'[l].s \in {jobs[l].s, Nobody} \cup Listed(page')
                             /\ l = "select" => jobs'[l].s \in Listed(page')
    <2> SUFFICES ASSUME NEW l \in Listeners
                 PROVE  /\ jobs'[l].s \in {jobs[l].s, Nobody} \cup Listed(page')
                        /\ l = "select" => jobs'[l].s \in Listed(page')
      OBVIOUS
    <2>1. jobs[l] \in Events /\ (l = "select" => jobs[l].s \in Listed(page'))
      BY DEF Base, PageTyped, NamesAreKnown, Listed
    <2>2. CASE l \in Changes /\ InFlight(l) /\ jobs'[l] = [jobs[l] EXCEPT !.again = TRUE]
      <3>1. jobs'[l].s = jobs[l].s
        BY <2>1, <2>2 DEF Events
      <3>2. QED
        BY <2>1, <3>1
    <2>3. CASE JustSent(l)
      BY <2>3 DEF JustSent
    <2>4. CASE jobs'[l] = NoEvent
      BY <2>4, NoEventIs DEF Listed
    <2>5. CASE jobs'[l] = jobs[l]
      BY <2>1, <2>5
    <2>6. QED
      BY <2>2, <2>3, <2>4, <2>5 DEF Moves
  <1>3. NamesAreKnown'
    <2>1. jobs'["select"].s \in Listed(page')
      BY <1>2 DEF Changes
    <2>2. \A l \in Listeners \ {"create"} : jobs'[l].s \in There' \cup {Nobody}
      BY <1>1, <1>2 DEF Base, NamesAreKnown
    <2>3. built.listed \subseteq There' /\ \A s \in Conversations \ There' : server'[s].turns = <<>>
      BY <1>1 DEF Base, NamesAreKnown
    <2>4. QED
      BY <1>1, <2>1, <2>2, <2>3 DEF Base, NamesAreKnown, Listed
  <1>4. BuiltIsOne'
    BY DEF Base, BuiltIsOne
  <1>5. NewIsUnknown'
    <2> DEFINE j == jobs'["create"]
    <2>1. SUFFICES ASSUME j.step = "back", j.live
                   PROVE  /\ j.s \in Conversations \ page'.listed
                          /\ j.ok => j.s \in There' /\ j.view.n = 0
                          /\ server'[j.s].turns = <<>>
                          /\ \A l \in Listeners \ {"create"} : jobs'[l].s # j.s
      BY DEF NewIsUnknown
    <2>2. j = jobs["create"]
      BY <2>1, NoEventIs DEF Moves, JustSent
    <2>3. page'.listed = page.listed
      BY <2>1, <2>2, NoEventIs
    <2>4. /\ j.s \in Conversations \ page.listed
          /\ j.ok => j.s \in There /\ j.view.n = 0
          /\ server[j.s].turns = <<>>
          /\ \A l \in Listeners \ {"create"} : jobs[l].s # j.s
      BY <2>1, <2>2 DEF Base, NewIsUnknown
    <2>5. j.s # Nobody /\ j.s \notin Listed(page')
      BY <2>3, <2>4, WorkbenchPageAssumption DEF Listed
    <2>6. QED
      BY <1>1, <1>2, <2>3, <2>4, <2>5
  <1>6. QED
    BY <1>3, <1>4, <1>5

\* A handler that returns, and is not the one that makes conversations.
LEMMA ReturnKnown ==
    ASSUME Base, NEW l \in Listeners \ {"create"}, Sent(l), NEW ok \in BOOLEAN,
           NEW srv \in [Conversations -> Chats], Returns(l, ok, srv),
           \A s \in Conversations : /\ srv[s].made = server[s].made
                                    /\ s # jobs[l].s => srv[s].turns = server[s].turns,
           UNCHANGED <<page, built>>
    PROVE  Orderly' /\ NamesAreKnown' /\ BuiltIsOne' /\ NewIsUnknown'
  <1> USE NamesOfListeners
  <1>1. /\ server' = srv
        /\ \A k \in Listeners \ {l} : jobs'[k] = jobs[k]
        /\ jobs'[l].step = "back" /\ jobs'[l].view = ViewOf(srv, jobs[l].s)
        /\ jobs'[l].s = jobs[l].s /\ jobs'[l].again = jobs[l].again
        /\ jobs'[l].live = jobs[l].live
    BY Returning
  <1>2. jobs[l].s \in Somebody
    BY DEF Base, PageTyped, Events
  <1>3. Orderly'
    <2>1. ViewOf(srv, jobs[l].s).of = jobs[l].s
      BY <1>2, ViewIs
    <2>2. QED
      BY <1>1, <2>1 DEF Base, Orderly
  <1>4. There' = There
    BY <1>1 DEF There
  <1>5. \A k \in Listeners : jobs'[k].s = jobs[k].s
    BY <1>1
  <1>6. jobs[l].s \in There \cup {Nobody}
    BY DEF Base, NamesAreKnown
  <1>7. NamesAreKnown'
    <2>1. \A s \in Conversations \ There : server'[s].turns = <<>>
      BY <1>1, <1>6, WorkbenchPageAssumption DEF Base, NamesAreKnown
    <2>2. "select" \in Listeners
      BY DEF Changes
    <2>3. QED
      BY <1>4, <1>5, <2>1, <2>2 DEF Base, NamesAreKnown, Listed
  <1>8. BuiltIsOne'
    BY DEF Base, BuiltIsOne
  <1>9. NewIsUnknown'
    <2> DEFINE j == jobs["create"]
    <2>1. "create" \in Listeners \ {l} /\ jobs'["create"] = j
      BY <1>1
    <2>2. SUFFICES ASSUME j.step = "back", j.live
                   PROVE  /\ j.s \in Conversations \ page.listed
                          /\ j.ok => j.s \in There /\ j.view.n = 0
                          /\ server'[j.s].turns = <<>>
                          /\ \A k \in Listeners \ {"create"} : jobs[k].s # j.s
      BY <1>4, <1>5, <2>1 DEF NewIsUnknown
    <2>3. /\ j.s \in Conversations \ page.listed
          /\ j.ok => j.s \in There /\ j.view.n = 0
          /\ server[j.s].turns = <<>>
          /\ \A k \in Listeners \ {"create"} : jobs[k].s # j.s
      BY <2>2 DEF Base, NewIsUnknown
    <2>4. server'[j.s].turns = <<>>
      BY <1>1, <2>3
    <2>5. QED
      BY <2>3, <2>4
  <1>10. QED
    BY <1>3, <1>7, <1>8, <1>9

\* What is left of a step's claim when its types are known.
TypesNext ==
    /\ server' \in [Conversations -> Chats] /\ page' \in Pages /\ built' \in Pages
    /\ jobs' \in [Listeners -> Events] /\ typed' \in Nat /\ past' \in Pasts

LEMMA TypesSuffice == TypesNext => PageTyped'
  BY DEF TypesNext, PageTyped

-----------------------------------------------------------------------------
(* The types of every step.                                                *)

LEMMA ShowsTyped ==
    ASSUME Base, NEW l \in Listeners, NEW new \in Pages, Shows(l, new), past' \in Pasts
    PROVE  PageTyped' /\ Orderly' /\ \A k \in Listeners : Moves(k)
  <1>1. /\ page' = new /\ server' = server /\ built' = built /\ typed' = typed
        /\ jobs' \in [Listeners -> Events]
        /\ \A k \in Listeners \ {l} : Follows(jobs[k], k, new)
        /\ \/ jobs'[l] = Inputs(l, new)
           \/ jobs'[l] = NoEvent
    BY Showing
  <1>2. PageTyped'
    BY <1>1, TypesSuffice DEF TypesNext, Base, PageTyped
  <1>3. \A k \in Listeners \ {l} : Moves(k)
    BY <1>1, FollowsMoves
  <1>4. Moves(l)
    <2>1. jobs'[l] = Inputs(l, new) => JustSent(l)
      BY <1>1, InputsAre DEF JustSent
    <2>2. QED
      BY <1>1, <2>1 DEF Moves
  <1>5. Orderly'
    BY <1>3, <1>4, MovesOrderly
  <1>6. QED
    BY <1>2, <1>3, <1>4, <1>5

\* What every handler but the one of "create" shows keeps the names known.
LEMMA ShowsBase ==
    ASSUME Base, NEW l \in Listeners, NEW new \in Pages, Shows(l, new), past' \in Pasts,
           new.listed = page.listed, new.selector = page.selector,
           new.active \in Listed(page)
    PROVE  Base'
  <1>1. PageTyped' /\ Orderly' /\ \A k \in Listeners : Moves(k)
    BY ShowsTyped
  <1>2. page' = new /\ server' = server /\ built' = built
    BY Showing
  <1>3. Listed(page') = Listed(page) /\ page.selector \in Listed(page) /\ page.listed \subseteq There
    BY <1>2 DEF Listed, Base, NamesAreKnown
  <1>4. NamesAreKnown' /\ BuiltIsOne' /\ NewIsUnknown'
    BY <1>1, <1>2, <1>3, MovesKnown
  <1>5. QED
    BY <1>1, <1>4 DEF Base

-----------------------------------------------------------------------------
(* What handlers show.                                                     *)

Chatted == [of : Somebody, n : Nat]

LEMMA ViewParts ==
    ASSUME NEW v \in Views
    PROVE  /\ ChatOf(v) \in Chatted /\ ChatOf(v).of = v.of /\ ChatOf(v).n = v.n
           /\ PanelOf(v) \in Panels /\ PanelOf(v).of = v.of
           /\ NoStory \in Panels /\ NoStory.of = Nobody
           /\ Unread \in Panels /\ Unread.of = Nobody /\ Unread.seed = "unread"
           /\ Unpicked \in Panels /\ Unpicked.of = Nobody /\ Unpicked.seed = "unpicked"
           /\ Flags(v.seed) \in SUBSET SeedActions
  <1>1. NoView.of = Nobody /\ NoView.seed = "none" /\ NoView \in Views
    BY NoEventIs
  <1>2. NoStory \in Panels /\ NoStory.of = Nobody
    BY <1>1 DEF NoStory, PanelOf, Panels, Views
  <1>3. "unread" \in SeedKinds \cup {"unread", "unpicked"}
        /\ "unpicked" \in SeedKinds \cup {"unread", "unpicked"}
    OBVIOUS
  <1>4. /\ Unread \in Panels /\ Unread.of = Nobody /\ Unread.seed = "unread"
        /\ Unpicked \in Panels /\ Unpicked.of = Nobody /\ Unpicked.seed = "unpicked"
    BY <1>2, <1>3 DEF Unread, Unpicked, Panels
  <1>5. ChatOf(v) \in Chatted /\ ChatOf(v).of = v.of /\ ChatOf(v).n = v.n
    BY DEF ChatOf, Chatted, Views
  <1>6. PanelOf(v) \in Panels /\ PanelOf(v).of = v.of
    BY DEF PanelOf, Panels, Views
  <1>7. Flags(v.seed) \in SUBSET SeedActions
    BY DEF Flags
  <1>8. QED
    BY <1>2, <1>4, <1>5, <1>6, <1>7

\* What the handler of a click makes of the page.
ClickShows(l, new) ==
    LET j == jobs[l]
        story == \/ new.picked = page.picked /\ new.story = page.story
                 \/ new.story.of = j.s
                 \/ new.story.seed \in {"unread", "unpicked"}
    IN  /\ Shows(l, new)
        /\ new.listed = page.listed /\ new.selector = page.selector /\ new.active = page.active
        /\ new.head \in {page.head, j.s} /\ new.chat.of \in {page.chat.of, j.s}
        /\ new.memory.of \in {page.memory.of, j.s} /\ new.form \in {page.form, j.s}
        /\ new.picked => j.s = Nobody \/ story
        /\ IF l \in Asks
             THEN /\ new.box = [page.box EXCEPT ![BoxOf(l)] = Left(j)]
                  /\ new.chat = IF j.s # Nobody /\ (j.ok \/ l = "research")
                                THEN ChatOf(j.view) ELSE page.chat
             ELSE new.box = page.box /\ new.chat = page.chat

LEMMA BackIs ==
    ASSUME Base, NEW l \in Listeners, NEW new, Shows(l, new)
    PROVE  /\ jobs[l] \in Events /\ jobs[l].view \in Views /\ jobs[l].view.of = jobs[l].s
           /\ jobs[l].s \in Somebody /\ Left(jobs[l]) \in Nat
  <1>1. jobs[l] \in Events /\ jobs[l].step = "back"
    BY DEF Base, PageTyped, Shows
  <1>2. jobs[l].view.of = jobs[l].s
    BY <1>1 DEF Base, Orderly
  <1>3. QED
    BY <1>1, <1>2 DEF Events, Left, Empty

LEMMA AnswerShows ==
    ASSUME Base, NEW l \in Listeners, ShowAnswer(l)
    PROVE  l \in Clicks \ {"create"} /\ past' = past /\ \E new \in Pages : ClickShows(l, new)
  <1> USE NamesOfListeners
  <1> DEFINE j == jobs[l]
             seen == [page EXCEPT !.box["ask"] = Left(j)]
             new == IF j.s = Nobody THEN seen
                    ELSE [seen EXCEPT !.chat = IF j.ok THEN ChatOf(j.view) ELSE @,
                                      !.head = j.s, !.memory = PanelOf(j.view),
                                      !.picked = FALSE]
  <1>1. l \in {"button", "enter"} /\ Shows(l, new) /\ past' = past
    BY DEF ShowAnswer
  <1>2. /\ j \in Events /\ j.view.of = j.s /\ j.s \in Somebody /\ Left(j) \in Nat
        /\ ChatOf(j.view) \in Chatted /\ PanelOf(j.view) \in Panels
        /\ ChatOf(j.view).of = j.s /\ PanelOf(j.view).of = j.s
    BY <1>1, BackIs, ViewParts
  <1>3. l \in Asks /\ l # "research" /\ BoxOf(l) = "ask" /\ "ask" \in Boxes
    BY <1>1 DEF Asks, BoxOf, Boxes
  <1>4. page \in Pages /\ [page.box EXCEPT !["ask"] = Left(j)] \in [Boxes -> Nat]
    BY <1>2, <1>3 DEF Base, PageTyped, Pages
  <1>5. seen \in Pages
    BY <1>4 DEF Pages
  <1>6. /\ seen.box = [page.box EXCEPT !["ask"] = Left(j)] /\ seen.listed = page.listed
        /\ seen.selector = page.selector /\ seen.active = page.active /\ seen.head = page.head
        /\ seen.chat = page.chat /\ seen.memory = page.memory /\ seen.form = page.form
        /\ seen.picked = page.picked /\ seen.story = page.story
    BY <1>4 DEF Pages
  <1>7. CASE j.s = Nobody
    <2>1. new = seen
      BY <1>7
    <2> HIDE DEF j, seen, new
    <2>2. ClickShows(l, seen)
      BY <1>1, <1>3, <1>6, <1>7, <2>1 DEF ClickShows, j
    <2>3. QED
      BY <1>1, <1>3, <1>5, <2>2
  <1>8. CASE j.s # Nobody
    <2>1. new = [seen EXCEPT !.chat = IF j.ok THEN ChatOf(j.view) ELSE @, !.head = j.s,
                             !.memory = PanelOf(j.view), !.picked = FALSE]
      BY <1>8
    <2> HIDE DEF j, seen, new
    <2>2. new \in Pages
      BY <1>2, <1>5, <2>1 DEF Pages, Chatted
    <2>3. /\ new.box = seen.box /\ new.listed = seen.listed
          /\ new.selector = seen.selector /\ new.active = seen.active /\ new.head = j.s
          /\ new.chat = (IF j.ok THEN ChatOf(j.view) ELSE seen.chat)
          /\ new.memory = PanelOf(j.view) /\ new.form = seen.form /\ ~new.picked
      BY <1>5, <2>1 DEF Pages
    <2>4. ClickShows(l, new)
      BY <1>1, <1>2, <1>3, <1>6, <1>8, <2>3 DEF ClickShows, j
    <2>5. QED
      BY <1>1, <1>3, <2>2, <2>4
  <1>9. QED
    BY <1>7, <1>8

LEMMA ResearchShows ==
    ASSUME Base, ShowResearch
    PROVE  past' = past /\ \E new \in Pages : ClickShows("research", new)
  <1> USE NamesOfListeners
  <1> DEFINE l == "research"
             j == jobs[l]
             seen == [page EXCEPT !.box["inquiry"] = Left(j)]
             new == IF j.s = Nobody THEN seen
                    ELSE [seen EXCEPT !.chat = ChatOf(j.view), !.memory = PanelOf(j.view),
                                      !.picked = FALSE]
  <1>1. Shows(l, new) /\ past' = past
    BY DEF ShowResearch
  <1>2. l \in Asks /\ l \in Listeners /\ BoxOf(l) = "inquiry" /\ "inquiry" \in Boxes
    BY DEF Asks, BoxOf, Boxes
  <1>3. /\ j \in Events /\ j.view.of = j.s /\ j.s \in Somebody /\ Left(j) \in Nat
        /\ ChatOf(j.view) \in Chatted /\ PanelOf(j.view) \in Panels
        /\ ChatOf(j.view).of = j.s /\ PanelOf(j.view).of = j.s
    BY <1>1, <1>2, BackIs, ViewParts
  <1>4. page \in Pages /\ [page.box EXCEPT !["inquiry"] = Left(j)] \in [Boxes -> Nat]
    BY <1>2, <1>3 DEF Base, PageTyped, Pages
  <1>5. seen \in Pages
    BY <1>4 DEF Pages
  <1>6. /\ seen.box = [page.box EXCEPT !["inquiry"] = Left(j)] /\ seen.listed = page.listed
        /\ seen.selector = page.selector /\ seen.active = page.active /\ seen.head = page.head
        /\ seen.chat = page.chat /\ seen.memory = page.memory /\ seen.form = page.form
        /\ seen.picked = page.picked /\ seen.story = page.story
    BY <1>4 DEF Pages
  <1>7. CASE j.s = Nobody
    <2>1. new = seen
      BY <1>7
    <2> HIDE DEF j, seen, new
    <2>2. ClickShows(l, seen)
      BY <1>1, <1>2, <1>6, <1>7, <2>1 DEF ClickShows, j
    <2>3. QED
      BY <1>1, <1>5, <2>2
  <1>8. CASE j.s # Nobody
    <2>1. new = [seen EXCEPT !.chat = ChatOf(j.view), !.memory = PanelOf(j.view),
                             !.picked = FALSE]
      BY <1>8
    <2> HIDE DEF j, seen, new
    <2>2. new \in Pages
      BY <1>3, <1>5, <2>1 DEF Pages, Chatted
    <2>3. /\ new.box = seen.box /\ new.listed = seen.listed
          /\ new.selector = seen.selector /\ new.active = seen.active /\ new.head = seen.head
          /\ new.chat = ChatOf(j.view)
          /\ new.memory = PanelOf(j.view) /\ new.form = seen.form /\ ~new.picked
      BY <1>5, <2>1 DEF Pages
    <2>4. ClickShows(l, new)
      BY <1>1, <1>2, <1>3, <1>6, <1>8, <2>3 DEF ClickShows, j
    <2>5. QED
      BY <1>1, <2>2, <2>4
  <1>9. QED
    BY <1>7, <1>8

LEMMA IngestedShows ==
    ASSUME Base, ShowIngested
    PROVE  past' = past /\ \E new \in Pages : ClickShows("ingest", new)
  <1> USE NamesOfListeners
  <1> DEFINE l == "ingest"
             j == jobs[l]
             new == IF j.s = Nobody THEN page
                    ELSE [page EXCEPT !.memory = PanelOf(j.view), !.picked = FALSE]
  <1>1. Shows(l, new) /\ past' = past
    BY DEF ShowIngested
  <1>2. l \notin Asks /\ l \in Listeners
    BY DEF Asks
  <1>3. /\ j \in Events /\ j.view.of = j.s /\ j.s \in Somebody
        /\ PanelOf(j.view) \in Panels /\ PanelOf(j.view).of = j.s
    BY <1>1, <1>2, BackIs, ViewParts
  <1>4. page \in Pages
    BY DEF Base, PageTyped
  <1>5. new \in Pages
    BY <1>3, <1>4 DEF Pages
  <1>6. /\ new.box = page.box /\ new.listed = page.listed /\ new.chat = page.chat
        /\ new.selector = page.selector /\ new.active = page.active /\ new.head = page.head
        /\ new.memory \in {page.memory, PanelOf(j.view)} /\ new.form = page.form
        /\ new.picked => new.picked = page.picked /\ new.story = page.story
    BY <1>4 DEF Pages
  <1> HIDE DEF new
  <1>7. ClickShows(l, new)
    BY <1>1, <1>2, <1>3, <1>6 DEF ClickShows
  <1>8. QED
    BY <1>1, <1>5, <1>7

LEMMA MutationShows ==
    ASSUME Base, NEW l \in Listeners, ShowMutation(l)
    PROVE  l \in Clicks \ {"create"} /\ past' = past /\ \E new \in Pages : ClickShows(l, new)
  <1> USE NamesOfListeners
  <1> DEFINE j == jobs[l]
             seen == [page EXCEPT !.ticked = l = "support" /\ ~j.ok /\ j.ticked]
             new == IF j.s = Nobody THEN [seen EXCEPT !.story = NoStory, !.buttons = {}]
                    ELSE IF ~j.picked
                      THEN [seen EXCEPT !.memory = PanelOf(j.view), !.picked = FALSE,
                                        !.story = NoStory, !.buttons = {}]
                    ELSE IF j.view.seed = "none" THEN [seen EXCEPT !.story = Unread]
                    ELSE [seen EXCEPT !.memory = PanelOf(j.view), !.picked = TRUE,
                                      !.story = PanelOf(j.view), !.buttons = Flags(j.view.seed)]
  <1>1. l \in {"contradict", "support"} /\ Shows(l, new) /\ past' = past
    BY DEF ShowMutation
  <1>2. l \notin Asks /\ l \in Clicks \ {"create"}
    BY <1>1 DEF Asks, SeedActions
  <1>3. /\ j \in Events /\ j.view.of = j.s /\ j.s \in Somebody
        /\ PanelOf(j.view) \in Panels /\ PanelOf(j.view).of = j.s
        /\ NoStory \in Panels /\ Unread \in Panels /\ Unread.seed = "unread"
        /\ Flags(j.view.seed) \in SUBSET SeedActions
    BY <1>1, BackIs, ViewParts
  <1>4. page \in Pages
    BY DEF Base, PageTyped
  <1>5. seen \in Pages
    BY <1>4 DEF Pages
  <1>6. /\ seen.box = page.box /\ seen.listed = page.listed
        /\ seen.selector = page.selector /\ seen.active = page.active /\ seen.head = page.head
        /\ seen.chat = page.chat /\ seen.memory = page.memory /\ seen.form = page.form
        /\ seen.picked = page.picked /\ seen.story = page.story
    BY <1>4 DEF Pages
  <1> HIDE DEF seen
  <1>7. new \in Pages
    BY <1>3, <1>5 DEF Pages
  <1>8. /\ new.box = seen.box /\ new.listed = seen.listed /\ new.chat = seen.chat
        /\ new.selector = seen.selector /\ new.active = seen.active /\ new.head = seen.head
        /\ new.memory \in {seen.memory, PanelOf(j.view)} /\ new.form = seen.form
    BY <1>5 DEF Pages
  <1>9. new.picked => j.s = Nobody \/ new.story = Unread \/ new.story = PanelOf(j.view)
    BY <1>5 DEF Pages
  <1> HIDE DEF new
  <1>10. ClickShows(l, new)
    BY <1>1, <1>2, <1>3, <1>6, <1>8, <1>9 DEF ClickShows
  <1>11. QED
    BY <1>1, <1>2, <1>7, <1>10

LEMMA ResolvedShows ==
    ASSUME Base, ShowResolved
    PROVE  past' = past /\ \E new \in Pages : ClickShows("resolve", new)
  <1> USE NamesOfListeners
  <1> DEFINE l == "resolve"
             j == jobs[l]
             new == IF j.ok THEN [page EXCEPT !.memory = PanelOf(j.view), !.picked = TRUE,
                                              !.story = PanelOf(j.view),
                                              !.buttons = Flags(j.view.seed)]
                    ELSE IF j.s = Nobody \/ ~j.picked THEN [page EXCEPT !.story = Unpicked]
                    ELSE page
  <1>1. Shows(l, new) /\ past' = past
    BY DEF ShowResolved
  <1>2. l \notin Asks /\ l \in Listeners
    BY DEF Asks, SeedActions
  <1>3. /\ j \in Events /\ j.view.of = j.s /\ j.s \in Somebody
        /\ PanelOf(j.view) \in Panels /\ PanelOf(j.view).of = j.s
        /\ Unpicked \in Panels /\ Unpicked.seed = "unpicked"
        /\ Flags(j.view.seed) \in SUBSET SeedActions
    BY <1>1, <1>2, BackIs, ViewParts
  <1>4. page \in Pages
    BY DEF Base, PageTyped
  <1>5. new \in Pages
    BY <1>3, <1>4 DEF Pages
  <1>6. /\ new.box = page.box /\ new.listed = page.listed /\ new.chat = page.chat
        /\ new.selector = page.selector /\ new.active = page.active /\ new.head = page.head
        /\ new.memory \in {page.memory, PanelOf(j.view)} /\ new.form = page.form
    BY <1>4 DEF Pages
  <1>7. \/ new.story = Unpicked \/ new.story = PanelOf(j.view)
        \/ new.picked = page.picked /\ new.story = page.story
    BY <1>4 DEF Pages
  <1> HIDE DEF new
  <1>8. ClickShows(l, new)
    BY <1>1, <1>2, <1>3, <1>6, <1>7 DEF ClickShows
  <1>9. QED
    BY <1>1, <1>5, <1>8

LEMMA SavedShows ==
    ASSUME Base, NEW l \in Listeners, ShowSaved(l)
    PROVE  l \in Clicks \ {"create"} /\ past' = past /\ \E new \in Pages : ClickShows(l, new)
  <1> USE NamesOfListeners
  <1> DEFINE j == jobs[l]
             new == [page EXCEPT !.form = j.s]
  <1>1. l \in {"preset", "save"} /\ Shows(l, new) /\ past' = past
    BY DEF ShowSaved
  <1>2. l \notin Asks /\ l \in Clicks \ {"create"}
    BY <1>1 DEF Asks
  <1>3. j.s \in Somebody
    BY <1>1, BackIs
  <1>4. page \in Pages
    BY DEF Base, PageTyped
  <1>5. new \in Pages
    BY <1>3, <1>4 DEF Pages
  <1>6. /\ new.box = page.box /\ new.listed = page.listed /\ new.chat = page.chat
        /\ new.selector = page.selector /\ new.active = page.active /\ new.head = page.head
        /\ new.memory = page.memory /\ new.form = j.s
        /\ new.picked = page.picked /\ new.story = page.story
    BY <1>4 DEF Pages
  <1> HIDE DEF new
  <1>7. ClickShows(l, new)
    BY <1>1, <1>2, <1>6 DEF ClickShows
  <1>8. QED
    BY <1>1, <1>2, <1>5, <1>7

\* The handlers of clicks, but the one that makes a conversation.
AClickShows ==
    \/ ShowResearch \/ ShowIngested \/ ShowResolved
    \/ \E l \in Listeners : ShowAnswer(l) \/ ShowMutation(l) \/ ShowSaved(l)

LEMMA SomeClickShows ==
    ASSUME Base, AClickShows
    PROVE  past' = past /\ \E l \in Clicks \ {"create"}, new \in Pages : ClickShows(l, new)
  <1>1. {"research", "ingest", "resolve"} \subseteq Clicks \ {"create"}
    BY DEF Clicks, Asks, SeedActions
  <1>2. QED
    BY <1>1, AnswerShows, ResearchShows, IngestedShows, MutationShows, ResolvedShows, SavedShows
       DEF AClickShows

\* What a selection that is answered makes of the page.
SelectionShows(new) ==
    LET j == jobs["select"]
    IN  /\ Shows("select", new)
        /\ new.listed = page.listed /\ new.selector = page.selector /\ new.form = page.form
        /\ new.box = page.box
        /\ j.ok => /\ new.active = j.s /\ new.head = j.s /\ new.chat.of = j.s
                   /\ new.memory.of = j.s /\ new.chat.n = j.view.n /\ ~new.picked
        /\ ~j.ok => new = page

LEMMA ShellIs ==
    ASSUME NEW p \in Pages, NEW v \in Views
    PROVE  /\ Shell(p, v) \in Pages
           /\ Shell(p, v).active = v.of /\ Shell(p, v).head = v.of /\ Shell(p, v).chat.of = v.of
           /\ Shell(p, v).memory.of = v.of /\ Shell(p, v).chat.n = v.n /\ ~Shell(p, v).picked
           /\ Shell(p, v).listed = p.listed /\ Shell(p, v).selector = p.selector
           /\ Shell(p, v).form = p.form /\ Shell(p, v).box = p.box
  <1>1. /\ ChatOf(v) \in Chatted /\ ChatOf(v).of = v.of /\ ChatOf(v).n = v.n
        /\ PanelOf(v) \in Panels /\ PanelOf(v).of = v.of /\ NoStory \in Panels
        /\ v.of \in Somebody
    BY ViewParts DEF Views
  <1>2. Shell(p, v) \in Pages
    BY <1>1 DEF Shell, Pages, Chatted
  <1>3. /\ Shell(p, v).active = v.of /\ Shell(p, v).head = v.of /\ Shell(p, v).chat = ChatOf(v)
        /\ Shell(p, v).memory = PanelOf(v) /\ ~Shell(p, v).picked
        /\ Shell(p, v).listed = p.listed /\ Shell(p, v).selector = p.selector
        /\ Shell(p, v).form = p.form /\ Shell(p, v).box = p.box
    BY DEF Shell, Pages
  <1>4. QED
    BY <1>1, <1>2, <1>3

LEMMA SelectedShows ==
    ASSUME Base, ShowSelected
    PROVE  /\ past' = [past EXCEPT !.mixed = ~jobs["select"].ok \/ past.crossing]
           /\ \E new \in Pages : SelectionShows(new)
  <1> DEFINE j == jobs["select"]
             new == IF j.ok THEN Shell(page, j.view) ELSE page
  <1>1. Shows("select", new) /\ past' = [past EXCEPT !.mixed = ~j.ok \/ past.crossing]
    BY DEF ShowSelected
  <1>2. "select" \in Listeners /\ page \in Pages
    BY DEF Listeners, Changes, Base, PageTyped
  <1>3. j.view \in Views /\ j.view.of = j.s
    BY <1>1, <1>2, BackIs
  <1>4. new \in Pages
    BY <1>2, <1>3, ShellIs
  <1>5. SelectionShows(new)
    <2>1. CASE j.ok
      <3>1. new = Shell(page, j.view)
        BY <2>1
      <3>2. QED
        BY <1>1, <1>2, <1>3, <2>1, <3>1, ShellIs DEF SelectionShows
    <2>2. CASE ~j.ok
      <3>1. new = page
        BY <2>2
      <3>2. QED
        BY <1>1, <2>2, <3>1 DEF SelectionShows
    <2>3. QED
      BY <2>1, <2>2
  <1>6. QED
    BY <1>1, <1>4, <1>5

\* What a conversation that is made makes of the page.
CreationShows(new) ==
    LET j == jobs["create"]
    IN  /\ Shows("create", new)
        /\ new.form = page.form /\ new.box = page.box
        /\ j.ok => /\ new.active = j.s /\ new.head = j.s /\ new.chat.of = j.s
                   /\ new.memory.of = j.s /\ ~new.picked
                   /\ new.selector = j.s /\ new.listed = There
                   /\ past' = [past EXCEPT !.mixed = Crossed(j.s),
                                  !.crossing = (@ /\ InFlight("select")) \/ Crossed(j.s)]
        /\ ~j.ok => new = page /\ past' = past

LEMMA CreatedShows ==
    ASSUME Base, ShowCreated
    PROVE  \E new \in Pages : CreationShows(new)
  <1> DEFINE j == jobs["create"]
             shell == Shell(page, j.view)
             new == IF j.ok THEN [shell EXCEPT !.selector = j.s,
                                     !.listed = {s \in Conversations : server[s].made}]
                    ELSE page
  <1>1. Shows("create", new)
    BY DEF ShowCreated
  <1>2. /\ j.ok => past' = [past EXCEPT !.mixed = Crossed(j.s),
                               !.crossing = (@ /\ InFlight("select")) \/ Crossed(j.s)]
        /\ ~j.ok => past' = past
    BY DEF ShowCreated
  <1>3. "create" \in Listeners /\ page \in Pages
    BY DEF Listeners, Clicks, Base, PageTyped
  <1>4. j.view \in Views /\ j.view.of = j.s /\ j.s \in Somebody
    BY <1>1, <1>3, BackIs
  <1>5. CASE j.ok
    <2>1. /\ shell \in Pages /\ shell.active = j.s /\ shell.head = j.s /\ shell.chat.of = j.s
          /\ shell.memory.of = j.s /\ ~shell.picked /\ shell.form = page.form /\ shell.box = page.box
      BY <1>3, <1>4, ShellIs
    <2>2. new = [shell EXCEPT !.selector = j.s, !.listed = There]
      BY <1>5 DEF There
    <2>3. There \in SUBSET Conversations
      BY DEF There
    <2> HIDE DEF shell, new
    <2>4. new \in Pages
      BY <1>4, <2>1, <2>2, <2>3 DEF Pages
    <2>5. /\ new.active = shell.active /\ new.head = shell.head /\ new.chat = shell.chat
          /\ new.memory = shell.memory /\ new.picked = shell.picked /\ new.form = shell.form
          /\ new.box = shell.box /\ new.selector = j.s /\ new.listed = There
      BY <2>1, <2>2 DEF Pages
    <2>6. CreationShows(new)
      BY <1>1, <1>2, <1>5, <2>1, <2>5 DEF CreationShows
    <2>7. QED
      BY <2>4, <2>6
  <1>6. CASE ~j.ok
    <2>1. new = page
      BY <1>6
    <2> HIDE DEF new
    <2>2. CreationShows(page)
      BY <1>1, <1>2, <1>6, <2>1 DEF CreationShows
    <2>3. QED
      BY <1>3, <2>2
  <1>7. QED
    BY <1>5, <1>6

\* What the listeners of the form and of the story fill in.
FillingShows(l, new) ==
    LET j == jobs[l]
    IN  /\ Shows(l, new)
        /\ new.listed = page.listed /\ new.selector = page.selector /\ new.active = page.active
        /\ new.head = page.head /\ new.chat = page.chat /\ new.memory = page.memory
        /\ new.picked = page.picked /\ new.box = page.box
        /\ IF l = "controls"
             THEN /\ new.form = IF j.ok THEN j.s ELSE Nobody
                  /\ new.story = page.story
             ELSE /\ new.form = page.form
                  /\ \/ new.story.of = j.s \/ new.story.seed = "unread"
                     \/ ~j.ok /\ (j.s = Nobody \/ ~j.picked)

LEMMA FilledShows ==
    ASSUME Base, ShowControls \/ ShowSeed
    PROVE  past' = past /\ \E l \in {"controls", "inspect"}, new \in Pages : FillingShows(l, new)
  <1>1. page \in Pages /\ {"controls", "inspect"} \subseteq Listeners
    BY DEF Base, PageTyped, Listeners, Changes
  <1>2. CASE ShowControls
    <2> DEFINE j == jobs["controls"]
               new == [page EXCEPT !.form = IF j.ok THEN j.s ELSE Nobody]
    <2>1. Shows("controls", new) /\ past' = past
      BY <1>2 DEF ShowControls
    <2>2. j.s \in Somebody /\ Nobody \in Somebody
      BY <1>1, <2>1, BackIs DEF Somebody
    <2>3. new \in Pages
      BY <1>1, <2>2 DEF Pages
    <2>4. /\ new.listed = page.listed /\ new.selector = page.selector /\ new.active = page.active
          /\ new.head = page.head /\ new.chat = page.chat /\ new.memory = page.memory
          /\ new.picked = page.picked /\ new.box = page.box /\ new.story = page.story
          /\ new.form = IF j.ok THEN j.s ELSE Nobody
      BY <1>1 DEF Pages
    <2> HIDE DEF new
    <2>5. FillingShows("controls", new)
      BY <2>1, <2>4 DEF FillingShows
    <2>6. QED
      BY <2>1, <2>3, <2>5
  <1>3. CASE ShowSeed
    <2> DEFINE j == jobs["inspect"]
               new == IF j.ok THEN [page EXCEPT !.story = PanelOf(j.view),
                                                !.buttons = Flags(j.view.seed)]
                      ELSE IF j.s = Nobody \/ ~j.picked
                        THEN [page EXCEPT !.story = NoStory, !.buttons = {}]
                      ELSE [page EXCEPT !.story = Unread, !.buttons = {"contradict"}]
    <2>1. Shows("inspect", new) /\ past' = past
      BY <1>3 DEF ShowSeed
    <2>2. /\ PanelOf(j.view) \in Panels /\ PanelOf(j.view).of = j.s /\ NoStory \in Panels
          /\ Unread \in Panels /\ Unread.seed = "unread" /\ Flags(j.view.seed) \in SUBSET SeedActions
      BY <1>1, <2>1, BackIs, ViewParts
    <2>3. {} \in SUBSET SeedActions /\ {"contradict"} \in SUBSET SeedActions
      BY DEF SeedActions
    <2>4. new \in Pages
      BY <1>1, <2>2, <2>3 DEF Pages
    <2>5. /\ new.listed = page.listed /\ new.selector = page.selector /\ new.active = page.active
          /\ new.head = page.head /\ new.chat = page.chat /\ new.memory = page.memory
          /\ new.picked = page.picked /\ new.box = page.box /\ new.form = page.form
      BY <1>1 DEF Pages
    <2>6. \/ new.story = PanelOf(j.view) \/ new.story = Unread
          \/ ~j.ok /\ (j.s = Nobody \/ ~j.picked)
      BY <1>1 DEF Pages
    <2> HIDE DEF new
    <2>7. FillingShows("inspect", new)
      BY <2>1, <2>2, <2>5, <2>6 DEF FillingShows
    <2>8. QED
      BY <2>1, <2>4, <2>7
  <1>4. QED
    BY <1>2, <1>3

-----------------------------------------------------------------------------
(* What handlers do.                                                       *)

\* A handler returns that made no conversation; what it may have changed is told apart.
HandlerReturns(l, ok, srv) ==
    /\ l \in Listeners \ {"create"} /\ Sent(l) /\ ok \in BOOLEAN
    /\ srv \in [Conversations -> Chats] /\ Returns(l, ok, srv)
    /\ UNCHANGED <<page, built, typed>> /\ past' \in Pasts
    /\ \A s \in Conversations : srv[s].made = server[s].made

SameTurns(srv) == \A s \in Conversations : srv[s].turns = server[s].turns
SameSettings(srv) == \A s \in Conversations : srv[s].settings = server[s].settings

\* A question is recorded.
TurnReturns(l, ok, srv) ==
    LET s == jobs[l].s
        others == {k \in Asks \cup {"select", "create"} : k # l /\ InFlight(k)}
    IN  /\ HandlerReturns(l, ok, srv) /\ SameSettings(srv)
        /\ l \in Asks /\ s \in Conversations /\ jobs[l].m # Empty
        /\ srv[s].turns = Append(server[s].turns, jobs[l].m)
        /\ \A t \in Conversations \ {s} : srv[t].turns = server[t].turns
        /\ past' = [past EXCEPT !.twice = @ \cup (IF ok THEN {} ELSE {jobs[l].m}),
                                !.behind = @ \/ ~ok \/ others # {}]

LEMMA TurnSent ==
    ASSUME Base, NEW l \in Asks, NEW seed \in {"none", "open", "wanting"}, NEW ok \in BOOLEAN,
           NEW saved \in BOOLEAN, SendTurn(l, seed, ok, saved)
    PROVE  \/ \E srv : TurnReturns(l, ok, srv)
           \/ HandlerReturns(l, FALSE, server) /\ past' = past
  <1> DEFINE s == jobs[l].s
             m == jobs[l].m
             others == {k \in Asks \cup {"select", "create"} : k # l /\ InFlight(k)}
             new == [past EXCEPT !.twice = @ \cup (IF ok THEN {} ELSE {m}),
                                 !.behind = @ \/ ~ok \/ others # {}]
  <1>1. l \in Listeners \ {"create"} /\ Sent(l) /\ UNCHANGED <<page, built, typed>>
    BY DEF SendTurn, MayFail, Listeners, Clicks, Asks
  <1>2. /\ server \in [Conversations -> Chats] /\ past \in Pasts /\ m \in Nat
        /\ s \in Conversations \cup {Nobody}
    BY <1>1 DEF Base, PageTyped, Events, Somebody
  <1>3. CASE s # Nobody /\ m # Empty /\ saved
    <2> DEFINE srv == [server EXCEPT ![s].turns = Append(@, m), ![s].seed = seed]
    <2>1. Returns(l, ok, srv) /\ past' = new
      BY <1>3 DEF SendTurn
    <2>2. s \in Conversations /\ server[s] \in Chats
      BY <1>2, <1>3
    <2>3. Append(server[s].turns, m) \in Seq(Nat) /\ seed \in SeedKinds
      BY <1>2, <2>2 DEF Chats, SeedKinds
    <2>4. /\ srv \in [Conversations -> Chats]
          /\ srv[s].turns = Append(server[s].turns, m) /\ srv[s].made = server[s].made
          /\ srv[s].settings = server[s].settings
      BY <1>2, <2>2, <2>3 DEF Chats
    <2>5. \A t \in Conversations \ {s} : srv[t] = server[t]
      BY <1>2, <2>2
    <2>6. new \in Pasts
      BY <1>2 DEF Pasts
    <2> HIDE DEF srv, new
    <2>7. HandlerReturns(l, ok, srv) /\ SameSettings(srv)
      BY <1>1, <2>1, <2>4, <2>5, <2>6 DEF HandlerReturns, SameSettings
    <2>8. TurnReturns(l, ok, srv)
      BY <1>3, <2>1, <2>2, <2>4, <2>5, <2>7 DEF TurnReturns, new
    <2>9. QED
      BY <2>8
  <1>4. CASE ~(s # Nobody /\ m # Empty /\ saved)
    <2>1. Returns(l, FALSE, server) /\ past' = past
      BY <1>4 DEF SendTurn
    <2>2. QED
      BY <1>1, <1>2, <2>1 DEF HandlerReturns
  <1>5. QED
    BY <1>3, <1>4

\* Nothing is recorded and nothing saved; the history only forgets what was behind, or
\* keeps that a seed was acted on blindly.
QuietReturns(l, ok, srv) ==
    /\ HandlerReturns(l, ok, srv) /\ SameTurns(srv) /\ SameSettings(srv)
    /\ \/ past' = past
       \/ /\ l = "select" /\ (\A k \in Asks : ~InFlight(k))
          /\ past' = [past EXCEPT !.behind = FALSE]
       \/ /\ l \in SeedActions
          /\ past' = [past EXCEPT !.blind = @ \/ (/\ jobs[l].picked /\ jobs[l].s # Nobody
                                                  /\ jobs[l].of # jobs[l].s /\ ~jobs[l].odd)]

LEMMA ReadReturns ==
    ASSUME Base, NEW l \in Listeners, NEW ok \in BOOLEAN, Read(l, ok)
    PROVE  \E back \in BOOLEAN : QuietReturns(l, back, server)
  <1> DEFINE back == ok /\ (l = "inspect" => jobs[l].s # Nobody /\ jobs[l].picked
                                            /\ server[jobs[l].s].seed # "none")
  <1>1. /\ l \in Listeners \ {"create"} /\ Sent(l) /\ UNCHANGED <<page, built, typed>>
        /\ Returns(l, back, server)
        /\ past' = IF l = "select" /\ \A k \in Asks : ~InFlight(k)
                   THEN [past EXCEPT !.behind = FALSE] ELSE past
    BY DEF Read, MayFail, Changes
  <1>2. server \in [Conversations -> Chats] /\ past \in Pasts /\ back \in BOOLEAN
    BY DEF Base, PageTyped
  <1>3. past' \in Pasts
    BY <1>1, <1>2 DEF Pasts
  <1> HIDE DEF back
  <1>4. HandlerReturns(l, back, server)
    BY <1>1, <1>2, <1>3 DEF HandlerReturns
  <1>5. QED
    BY <1>1, <1>2, <1>4 DEF QuietReturns, SameTurns, SameSettings

LEMMA IngestReturns ==
    ASSUME Base, NEW seed \in {"none", "open", "wanting"}, NEW ok \in BOOLEAN, Ingest(seed, ok)
    PROVE  \E back \in BOOLEAN : \E srv : QuietReturns("ingest", back, srv)
  <1> DEFINE l == "ingest"
             s == jobs[l].s
             may == s # Nobody /\ ok /\ server[s].seed = "none"
             srv == IF may THEN [server EXCEPT ![s].seed = seed] ELSE server
             back == may \/ (ok /\ s # Nobody)
  <1>1. /\ l \in Listeners \ {"create"} /\ Sent(l) /\ UNCHANGED <<page, built, typed>>
        /\ Returns(l, back, srv) /\ past' = past
    BY DEF Ingest, MayFail, Listeners, Clicks
  <1>2. /\ server \in [Conversations -> Chats] /\ past \in Pasts /\ back \in BOOLEAN
        /\ s \in Conversations \cup {Nobody}
    BY <1>1 DEF Base, PageTyped, Events, Somebody
  <1>3. /\ srv \in [Conversations -> Chats] /\ SameTurns(srv) /\ SameSettings(srv)
        /\ \A t \in Conversations : srv[t].made = server[t].made
    <2>1. CASE may
      <3>1. s \in Conversations /\ srv = [server EXCEPT ![s].seed = seed] /\ seed \in SeedKinds
        BY <1>2, <2>1 DEF SeedKinds
      <3> HIDE DEF srv, s
      <3>2. QED
        BY <1>2, <3>1 DEF SameTurns, SameSettings, Chats
    <2>2. CASE ~may
      <3>1. srv = server
        BY <2>2
      <3> HIDE DEF srv
      <3>2. QED
        BY <1>2, <3>1 DEF SameTurns, SameSettings
    <2>3. QED
      BY <2>1, <2>2
  <1> HIDE DEF srv, back
  <1>4. HandlerReturns(l, back, srv)
    BY <1>1, <1>2, <1>3 DEF HandlerReturns
  <1>5. QED
    BY <1>1, <1>2, <1>3, <1>4 DEF QuietReturns

LEMMA ActReturns ==
    ASSUME Base, NEW l \in Listeners, NEW ok \in BOOLEAN, Act(l, ok)
    PROVE  \E back \in BOOLEAN : \E srv : QuietReturns(l, back, srv)
  <1> DEFINE s == jobs[l].s
             may == /\ ok /\ s # Nobody /\ jobs[l].picked /\ server[s].seed # "none"
                    /\ l = "support" => jobs[l].ticked
                    /\ l = "resolve" => server[s].seed = "blocked"
             srv == IF may THEN [server EXCEPT ![s].seed = After(l, @)] ELSE server
  <1>1. /\ l \in SeedActions /\ Sent(l) /\ UNCHANGED <<page, built, typed>>
        /\ Returns(l, may, srv)
        /\ past' = [past EXCEPT !.blind = @ \/ (may /\ jobs[l].of # s /\ ~jobs[l].odd)]
    BY DEF Act, MayFail
  <1>2. l \in Listeners \ {"create"} /\ may \in BOOLEAN
    BY <1>1 DEF SeedActions, Listeners, Clicks, Base, PageTyped, Events
  <1>3. /\ server \in [Conversations -> Chats] /\ past \in Pasts
        /\ s \in Conversations \cup {Nobody} /\ jobs[l].odd \in BOOLEAN /\ jobs[l].picked \in BOOLEAN
    BY <1>2 DEF Base, PageTyped, Events, Somebody
  <1>4. /\ srv \in [Conversations -> Chats] /\ SameTurns(srv) /\ SameSettings(srv)
        /\ \A t \in Conversations : srv[t].made = server[t].made
    <2>1. CASE may
      <3>1. s \in Conversations /\ srv = [server EXCEPT ![s].seed = After(l, server[s].seed)]
        BY <1>3, <2>1
      <3>2. After(l, server[s].seed) \in SeedKinds
        BY <1>1 DEF After, SeedKinds, SeedActions
      <3> HIDE DEF srv, s
      <3>3. QED
        BY <1>3, <3>1, <3>2 DEF SameTurns, SameSettings, Chats
    <2>2. CASE ~may
      <3>1. srv = server
        BY <2>2
      <3> HIDE DEF srv
      <3>2. QED
        BY <1>3, <3>1 DEF SameTurns, SameSettings
    <2>3. QED
      BY <2>1, <2>2
  <1>5. may => jobs[l].picked /\ s # Nobody
    OBVIOUS
  <1> HIDE DEF srv, may
  <1>6. past' \in Pasts
    BY <1>1, <1>2, <1>3 DEF Pasts
  <1>7. HandlerReturns(l, may, srv)
    BY <1>1, <1>2, <1>3, <1>4, <1>6 DEF HandlerReturns
  <1>8. \/ past' = past
        \/ past' = [past EXCEPT !.blind = @ \/ (/\ jobs[l].picked /\ jobs[l].s # Nobody
                                                /\ jobs[l].of # jobs[l].s /\ ~jobs[l].odd)]
    <2>1. CASE may
      <3>1. (may /\ jobs[l].of # s /\ ~jobs[l].odd)
              = (jobs[l].picked /\ jobs[l].s # Nobody /\ jobs[l].of # jobs[l].s /\ ~jobs[l].odd)
        BY <1>3, <1>5, <2>1
      <3>2. QED
        BY <1>1, <3>1
    <2>2. CASE ~may
      <3>1. (past.blind \/ (may /\ jobs[l].of # s /\ ~jobs[l].odd)) = past.blind
        BY <1>3, <2>2 DEF Pasts
      <3>2. QED
        BY <1>1, <1>3, <3>1 DEF Pasts
    <2>3. QED
      BY <2>1, <2>2
  <1>9. QED
    BY <1>1, <1>2, <1>4, <1>7, <1>8 DEF QuietReturns

\* Settings are saved.
SaveReturns(l, ok, srv) ==
    LET s == jobs[l].s
    IN  /\ HandlerReturns(l, ok, srv) /\ SameTurns(srv)
        /\ l \in {"preset", "save"} /\ s \in Conversations
        /\ srv[s].settings = IF l = "preset" THEN s ELSE jobs[l].of
        /\ \A t \in Conversations \ {s} : srv[t].settings = server[t].settings
        /\ past' = [past EXCEPT !.excused = IF jobs[l].odd THEN @ \cup {s} ELSE @ \ {s}]

LEMMA SettingsSaved ==
    ASSUME Base, NEW l \in Listeners, NEW ok \in BOOLEAN, SaveSettings(l, ok)
    PROVE  \/ \E srv : SaveReturns(l, TRUE, srv)
           \/ QuietReturns(l, FALSE, server)
  <1> DEFINE s == jobs[l].s
             from == IF l = "preset" THEN s ELSE jobs[l].of
  <1>1. l \in {"preset", "save"} /\ l \in Listeners \ {"create"} /\ Sent(l)
        /\ UNCHANGED <<page, built, typed>>
    BY DEF SaveSettings, MayFail
  <1>2. /\ server \in [Conversations -> Chats] /\ past \in Pasts /\ from \in Somebody
        /\ s \in Conversations \cup {Nobody}
    BY <1>1 DEF Base, PageTyped, Events, Somebody
  <1>3. CASE s # Nobody /\ ok
    <2> DEFINE srv == [server EXCEPT ![s].settings = from]
               new == [past EXCEPT !.excused = IF jobs[l].odd THEN @ \cup {s} ELSE @ \ {s}]
    <2>1. Returns(l, TRUE, srv) /\ past' = new
      BY <1>3 DEF SaveSettings
    <2>2. s \in Conversations
      BY <1>2, <1>3
    <2>3. /\ srv \in [Conversations -> Chats] /\ srv[s].settings = from
          /\ srv[s].made = server[s].made /\ srv[s].turns = server[s].turns
      BY <1>2, <2>2 DEF Chats
    <2>4. \A t \in Conversations \ {s} : srv[t] = server[t]
      BY <1>2, <2>2
    <2>5. new \in Pasts
      BY <1>2, <2>2 DEF Pasts
    <2> HIDE DEF srv, new, from
    <2>6. HandlerReturns(l, TRUE, srv) /\ SameTurns(srv)
      BY <1>1, <2>1, <2>3, <2>4, <2>5 DEF HandlerReturns, SameTurns
    <2>7. SaveReturns(l, TRUE, srv)
      BY <1>1, <2>1, <2>2, <2>3, <2>4, <2>6 DEF SaveReturns, new, from
    <2>8. QED
      BY <2>7
  <1>4. CASE ~(s # Nobody /\ ok)
    <2>1. Returns(l, FALSE, server) /\ past' = past
      BY <1>4 DEF SaveSettings
    <2>2. HandlerReturns(l, FALSE, server)
      BY <1>1, <1>2, <2>1 DEF HandlerReturns
    <2>3. QED
      BY <2>1, <2>2 DEF QuietReturns, SameTurns, SameSettings
  <1>5. QED
    BY <1>3, <1>4

\* A conversation is made, and then perhaps its settings.
CreateReturns(s, made, ok) ==
    LET j == jobs["create"]
    IN  /\ j.step = "sent" /\ UNCHANGED <<page, built, typed, past>> /\ (ok => made)
        /\ s \in Conversations \ There /\ server' \in [Conversations -> Chats]
        /\ \A t \in Conversations \ {s} : server'[t] = server[t]
        /\ server'[s].turns = <<>> /\ server'[s].made = made
        /\ server'[s].settings \in {server[s].settings, s}
        /\ jobs' \in [Listeners -> Events]
        /\ \A k \in Listeners \ {"create"} : jobs'[k] = jobs[k]
        /\ jobs'["create"].step = "back" /\ jobs'["create"].ok = ok /\ jobs'["create"].s = s
        /\ jobs'["create"].view.of = s /\ jobs'["create"].view.n = 0
        /\ jobs'["create"].live = j.live /\ jobs'["create"].again = j.again

LEMMA Creating ==
    ASSUME Base, NEW s \in Conversations, NEW made \in BOOLEAN, NEW ok \in BOOLEAN,
           Create(s, made, ok)
    PROVE  CreateReturns(s, made, ok)
  <1> DEFINE j == jobs["create"]
             view == ViewOf(server', s)
             back == [j EXCEPT !.step = "back", !.ok = ok, !.s = s, !.view = view]
  <1>1. /\ j.step = "sent" /\ (ok => made) /\ UNCHANGED <<page, built, typed, past>>
        /\ ~server[s].made
        /\ server' = [server EXCEPT ![s] = IF made THEN Fresh(s, "none") ELSE @]
        /\ jobs' = [jobs EXCEPT !["create"] = back]
    BY DEF Create, Sent, MayFail
  <1>2. /\ server \in [Conversations -> Chats] /\ jobs \in [Listeners -> Events]
        /\ "create" \in Listeners /\ j \in Events /\ s \in Somebody /\ s # Nobody
    BY WorkbenchPageAssumption DEF Base, PageTyped, Listeners, Clicks, Somebody
  <1>3. /\ Fresh(s, "none") \in Chats /\ Fresh(s, "none").made /\ Fresh(s, "none").settings = s
        /\ Fresh(s, "none").turns = <<>>
    <2>1. <<>> \in Seq(Nat)
      OBVIOUS
    <2>2. Nobody \in Somebody /\ s \in Somebody /\ "none" \in SeedKinds
      BY <1>2 DEF Somebody, SeedKinds
    <2>3. Unmade \in Chats /\ Unmade.turns = <<>>
      BY <2>1, <2>2 DEF Unmade, Chats
    <2>4. QED
      BY <2>2, <2>3 DEF Fresh, Chats
  <1>4. server[s].turns = <<>> /\ server[s] \in Chats /\ s \notin There
    BY <1>1, <1>2 DEF Base, NamesAreKnown, There
  <1>5. /\ server' \in [Conversations -> Chats]
        /\ server'[s] = (IF made THEN Fresh(s, "none") ELSE server[s])
        /\ \A t \in Conversations \ {s} : server'[t] = server[t]
    BY <1>1, <1>2, <1>3
  <1>6. /\ server'[s].turns = <<>> /\ server'[s].made = made
        /\ server'[s].settings \in {server[s].settings, s}
    BY <1>1, <1>3, <1>4, <1>5 DEF Chats
  <1>7. view \in Views /\ view.of = s /\ view.n = 0
    <2>1. Len(<<>>) = 0
      OBVIOUS
    <2>2. QED
      BY <1>2, <1>5, <1>6, <2>1, ViewIs
  <1> HIDE DEF view
  <1>8. /\ back \in Events /\ back.step = "back" /\ back.ok = ok /\ back.s = s
        /\ back.view = view /\ back.live = j.live /\ back.again = j.again
    BY <1>2, <1>7 DEF Events
  <1> HIDE DEF back
  <1>9. /\ jobs' \in [Listeners -> Events] /\ jobs'["create"] = back
        /\ \A k \in Listeners \ {"create"} : jobs'[k] = jobs[k]
    BY <1>1, <1>2, <1>8
  <1>10. QED
    BY <1>1, <1>4, <1>5, <1>6, <1>7, <1>8, <1>9 DEF CreateReturns

-----------------------------------------------------------------------------
(* What the user does.                                                     *)

\* A conversation or a seed is chosen.
LEMMA Choosing ==
    ASSUME Base, NEW new \in Pages, ComponentsBecome(jobs, Triggered(page, new), new)
    PROVE  /\ page' = new /\ jobs' \in [Listeners -> Events]
           /\ \A k \in Listeners : Follows(jobs[k], k, new)
           /\ \A k \in Clicks : jobs'[k] = jobs[k]
  <1>1. jobs \in [Listeners -> Events]
    BY DEF Base, PageTyped
  <1>2. /\ page' = new /\ jobs' \in [Listeners -> Events]
        /\ \A k \in Listeners :
              jobs'[k] = IF k \notin Triggered(page, new) THEN jobs[k]
                         ELSE IF jobs[k].step = "free" THEN Inputs(k, new)
                         ELSE [jobs[k] EXCEPT !.again = TRUE]
    BY <1>1, Becoming
  <1>3. \A k \in Clicks : k \in Listeners /\ k \notin Triggered(page, new)
    BY TriggeredAre, NamesOfListeners
  <1>4. QED
    BY <1>2, <1>3 DEF Follows

SameBut(fields, new) ==
    \A f \in {"active", "selector", "listed", "head", "chat", "memory", "form", "story",
              "picked", "box"} \ fields : new[f] = page[f]

Chosen(s) ==
    /\ s \in page.listed /\ page' \in Pages /\ SameBut({"selector"}, page') /\ page'.selector = s
    /\ jobs' \in [Listeners -> Events]
    /\ \A k \in Listeners : Follows(jobs[k], k, page')
    /\ \A k \in Clicks : jobs'[k] = jobs[k]
    /\ UNCHANGED <<server, built, typed>> /\ past' \in Pasts
    /\ past' = [past EXCEPT !.crossing = (@ /\ InFlight("select")) \/ Crossed(s)]

LEMMA ChooseIs ==
    ASSUME Base, NEW s \in Conversations, Choose(s)
    PROVE  Chosen(s)
  <1> DEFINE new == [page EXCEPT !.selector = s]
             history == [past EXCEPT !.crossing = (@ /\ InFlight("select")) \/ Crossed(s)]
  <1>1. /\ s \in page.listed /\ ComponentsBecome(jobs, Triggered(page, new), new)
        /\ UNCHANGED <<server, built, typed>> /\ past' = history
    BY DEF Choose, UserDoes
  <1>2. page \in Pages /\ past \in Pasts /\ s \in Somebody
    BY DEF Base, PageTyped, Somebody
  <1>3. new \in Pages /\ SameBut({"selector"}, new) /\ new.selector = s
    BY <1>2 DEF Pages, SameBut
  <1>4. history \in Pasts
    BY <1>2 DEF Pasts
  <1> HIDE DEF new, history
  <1>5. /\ page' = new /\ jobs' \in [Listeners -> Events]
        /\ \A k \in Listeners : Follows(jobs[k], k, new)
        /\ \A k \in Clicks : jobs'[k] = jobs[k]
    BY <1>1, <1>3, Choosing
  <1>6. QED
    BY <1>1, <1>3, <1>4, <1>5 DEF Chosen, history

SeedChosen ==
    /\ page' \in Pages /\ SameBut({"picked"}, page') /\ page'.picked
    /\ jobs' \in [Listeners -> Events]
    /\ \A k \in Listeners : Follows(jobs[k], k, page')
    /\ \A k \in Clicks : jobs'[k] = jobs[k]
    /\ UNCHANGED <<server, built, typed, past>>

LEMMA ChooseSeedIs ==
    ASSUME Base, ChooseSeed
    PROVE  SeedChosen
  <1> DEFINE new == [page EXCEPT !.picked = TRUE]
  <1>1. /\ ComponentsBecome(jobs, Triggered(page, new), new)
        /\ UNCHANGED <<server, built, typed, past>>
    BY DEF ChooseSeed, UserDoes
  <1>2. page \in Pages
    BY DEF Base, PageTyped
  <1>3. new \in Pages /\ SameBut({"picked"}, new) /\ new.picked
    BY <1>2 DEF Pages, SameBut
  <1> HIDE DEF new
  <1>4. /\ page' = new /\ jobs' \in [Listeners -> Events]
        /\ \A k \in Listeners : Follows(jobs[k], k, new)
        /\ \A k \in Clicks : jobs'[k] = jobs[k]
    BY <1>1, <1>3, Choosing
  <1>5. QED
    BY <1>1, <1>3, <1>4 DEF SeedChosen

\* A text is typed, or the box of the attestation ticked.
Entered(b) ==
    /\ page' \in Pages /\ SameBut({"box"}, page') /\ b \in Boxes
    /\ page'.box = [page.box EXCEPT ![b] = typed'] /\ typed' = typed + 1
    /\ UNCHANGED <<server, jobs, built, past>>
Ticked ==
    /\ page' \in Pages /\ SameBut({}, page')
    /\ UNCHANGED <<server, jobs, built, typed, past>>

LEMMA TypeIs ==
    ASSUME Base, NEW b \in Boxes, Type(b)
    PROVE  Entered(b)
  <1>1. /\ typed' = typed + 1 /\ page' = [page EXCEPT !.box[b] = typed']
        /\ UNCHANGED <<server, jobs, built, past>>
    BY DEF Type, UserDoes
  <1>2. page \in Pages /\ typed' \in Nat
    BY <1>1 DEF Base, PageTyped
  <1>3. [page.box EXCEPT ![b] = typed'] \in [Boxes -> Nat]
    BY <1>2 DEF Pages
  <1>4. page' \in Pages /\ page'.box = [page.box EXCEPT ![b] = typed'] /\ SameBut({"box"}, page')
    BY <1>1, <1>2, <1>3 DEF Pages, SameBut
  <1>5. QED
    BY <1>1, <1>4 DEF Entered

LEMMA TickIs ==
    ASSUME Base, Tick
    PROVE  Ticked
  <1>1. page' = [page EXCEPT !.ticked = TRUE] /\ UNCHANGED <<server, jobs, built, typed, past>>
    BY DEF Tick, UserDoes
  <1>2. page \in Pages
    BY DEF Base, PageTyped
  <1>3. page' \in Pages /\ SameBut({}, page')
    BY <1>1, <1>2 DEF Pages, SameBut
  <1>4. QED
    BY <1>1, <1>3 DEF Ticked

\* A button is pressed.
Pressed(l) ==
    /\ l \in Clicks /\ ~InFlight(l) /\ UNCHANGED <<server, page, built, typed>>
    /\ jobs' \in [Listeners -> Events] /\ \A k \in Listeners \ {l} : jobs'[k] = jobs[k]
    /\ jobs'[l].step = "sent" /\ ~jobs'[l].again /\ jobs'[l].live /\ ~jobs'[l].ok
    /\ jobs'[l].s = page.active /\ jobs'[l].odd = Unsettled(l)
    /\ l \in Asks => jobs'[l].m = page.box[BoxOf(l)]
    /\ l \in SeedActions => jobs'[l].picked = page.picked /\ jobs'[l].of = page.story.of
    /\ l = "save" => jobs'[l].of = page.form
    /\ past' \in Pasts /\ past'.mixed = past.mixed /\ past'.behind = past.behind
    /\ past'.blind = past.blind /\ past'.excused = past.excused
    /\ past'.crossing = (past.crossing \/ InFlight("select"))
    /\ past.twice \subseteq past'.twice
    /\ \A k \in {"button", "enter"} \ {l} :
          l \in {"button", "enter"} /\ InFlight(k) /\ jobs[k].m = page.box["ask"] =>
              page.box["ask"] \in past'.twice

LEMMA PressIs ==
    ASSUME Base, NEW l \in Clicks, Press(l)
    PROVE  Pressed(l)
  <1> DEFINE again == /\ l \in {"button", "enter"}
                      /\ \E k \in {"button", "enter"} \ {l} :
                            InFlight(k) /\ jobs[k].m = page.box["ask"]
             in == Inputs(l, page)
             event == [in EXCEPT !.odd = Unsettled(l)]
             history == [past EXCEPT !.twice = @ \cup (IF again THEN {page.box["ask"]} ELSE {}),
                                     !.crossing = @ \/ InFlight("select")]
  <1>1. /\ ~InFlight(l) /\ UNCHANGED <<server, page, built, typed>>
        /\ jobs' = [jobs EXCEPT ![l] = event] /\ past' = history
    BY DEF Press, UserDoes
  <1>2. /\ l \in Listeners /\ l \notin {"select", "controls"} /\ page \in Pages /\ past \in Pasts
        /\ jobs \in [Listeners -> Events]
    BY DEF Listeners, Clicks, Asks, SeedActions, Base, PageTyped
  <1>3. /\ in \in Events /\ in.step = "sent" /\ ~in.again /\ in.live /\ ~in.ok
        /\ in.s = page.active
        /\ l \in Asks => in.m = page.box[BoxOf(l)]
        /\ l \in SeedActions => in.picked = page.picked /\ in.of = page.story.of
        /\ l = "save" => in.of = page.form
    BY <1>2, InputsAre
  <1>4. Unsettled(l) \in BOOLEAN
    BY <1>2 DEF Unsettled, Pasts
  <1> HIDE DEF in
  <1>5. /\ event \in Events /\ event.step = "sent" /\ ~event.again /\ event.live /\ ~event.ok
        /\ event.s = page.active /\ event.odd = Unsettled(l) /\ event.m = in.m
        /\ event.picked = in.picked /\ event.of = in.of
    BY <1>3, <1>4 DEF Events
  <1>6. page.box["ask"] \in Nat
    BY <1>2 DEF Pages, Boxes
  <1>7. /\ history \in Pasts /\ history.mixed = past.mixed /\ history.behind = past.behind
        /\ history.blind = past.blind /\ history.excused = past.excused
        /\ history.crossing = (past.crossing \/ InFlight("select"))
        /\ past.twice \subseteq history.twice
        /\ again => page.box["ask"] \in history.twice
    BY <1>2, <1>6 DEF Pasts
  <1>8. \A k \in {"button", "enter"} \ {l} :
          l \in {"button", "enter"} /\ InFlight(k) /\ jobs[k].m = page.box["ask"] => again
    OBVIOUS
  <1> HIDE DEF event, history, again
  <1>9. /\ jobs' \in [Listeners -> Events] /\ jobs'[l] = event
        /\ \A k \in Listeners \ {l} : jobs'[k] = jobs[k]
    BY <1>1, <1>2, <1>5
  <1>10. QED
    BY <1>1, <1>3, <1>5, <1>7, <1>8, <1>9 DEF Pressed

\* The page is loaded again.
Reloaded ==
    /\ page' = built /\ UNCHANGED <<server, built, typed>>
    /\ jobs' \in [Listeners -> Events] /\ \A l \in Changes : jobs'[l] = NoEvent
    /\ \A l \in Clicks : \/ ~InFlight(l) /\ jobs'[l] = NoEvent
                         \/ InFlight(l) /\ jobs'[l] = [jobs[l] EXCEPT !.live = FALSE]
    /\ past' \in Pasts /\ ~past'.mixed /\ ~past'.crossing /\ past'.behind
    /\ past'.blind = past.blind /\ past'.excused = past.excused /\ past'.twice = past.twice

LEMMA ReloadIs ==
    ASSUME Base, Reload
    PROVE  Reloaded
  <1>1. /\ page' = built /\ UNCHANGED <<server, built, typed>>
        /\ jobs' = [l \in Listeners |-> IF l \in Changes \/ ~InFlight(l) THEN NoEvent
                                        ELSE [jobs[l] EXCEPT !.live = FALSE]]
        /\ past' = [past EXCEPT !.mixed = FALSE, !.crossing = FALSE, !.behind = TRUE]
    BY DEF Reload, UserDoes
  <1>2. past \in Pasts /\ jobs \in [Listeners -> Events]
    BY DEF Base, PageTyped
  <1>3. \A l \in Listeners : [jobs[l] EXCEPT !.live = FALSE] \in Events
    BY <1>2 DEF Events
  <1>4. jobs' \in [Listeners -> Events]
    BY <1>1, <1>3, NoEventIs
  <1>5. \A l \in Changes : jobs'[l] = NoEvent
    BY <1>1, NamesOfListeners
  <1>6. \A l \in Clicks : \/ ~InFlight(l) /\ jobs'[l] = NoEvent
                          \/ InFlight(l) /\ jobs'[l] = [jobs[l] EXCEPT !.live = FALSE]
    BY <1>1, NamesOfListeners
  <1>7. /\ past' \in Pasts /\ ~past'.mixed /\ ~past'.crossing /\ past'.behind
        /\ past'.blind = past.blind /\ past'.excused = past.excused /\ past'.twice = past.twice
    BY <1>1, <1>2 DEF Pasts
  <1>8. QED
    BY <1>1, <1>4, <1>5, <1>6, <1>7 DEF Reloaded

\* A handler returned to a page that was left.
Dropped(l) ==
    /\ l \in Clicks /\ jobs[l].step = "back" /\ ~jobs[l].live
    /\ UNCHANGED <<server, page, built, typed, past>>
    /\ jobs' \in [Listeners -> Events] /\ jobs'[l] = NoEvent
    /\ \A k \in Listeners \ {l} : jobs'[k] = jobs[k]

LEMMA UnseenIs ==
    ASSUME Base, NEW l \in Listeners, Unseen(l)
    PROVE  Dropped(l)
  <1>1. /\ jobs[l].step = "back" /\ ~jobs[l].live /\ jobs' = [jobs EXCEPT ![l] = NoEvent]
        /\ UNCHANGED <<server, page, built, typed, past>>
    BY DEF Unseen
  <1>2. l \in Clicks
    BY <1>1, NamesOfListeners DEF Base, Orderly
  <1>3. jobs \in [Listeners -> Events]
    BY DEF Base, PageTyped
  <1>4. /\ jobs' \in [Listeners -> Events] /\ jobs'[l] = NoEvent
        /\ \A k \in Listeners \ {l} : jobs'[k] = jobs[k]
    BY <1>1, <1>3, NoEventIs
  <1>5. QED
    BY <1>1, <1>2, <1>4 DEF Dropped

-----------------------------------------------------------------------------
(* Every step is one of fifteen.                                           *)

Selected(new) ==
    /\ SelectionShows(new)
    /\ past' = [past EXCEPT !.mixed = ~jobs["select"].ok \/ past.crossing]

UserSteps ==
    \/ \E s \in Conversations : Chosen(s)
    \/ SeedChosen \/ Ticked \/ Reloaded
    \/ \E b \in Boxes : Entered(b)
    \/ \E l \in Clicks : Pressed(l)
HandlerSteps ==
    \/ \E l \in Listeners, ok \in BOOLEAN : \E srv :
          QuietReturns(l, ok, srv) \/ TurnReturns(l, ok, srv) \/ SaveReturns(l, ok, srv)
    \/ \E s \in Conversations, made, ok \in BOOLEAN : CreateReturns(s, made, ok)
ShowSteps ==
    \/ \E new \in Pages : Selected(new)
    \/ \E new \in Pages : CreationShows(new)
    \/ past' = past /\ \E l \in {"controls", "inspect"}, new \in Pages : FillingShows(l, new)
    \/ past' = past /\ \E l \in Clicks \ {"create"}, new \in Pages : ClickShows(l, new)
    \/ \E l \in Listeners : Dropped(l)

LEMMA QuestionsFail ==
    ASSUME NEW l, HandlerReturns(l, FALSE, server), past' = past
    PROVE  QuietReturns(l, FALSE, server)
  BY DEF QuietReturns, SameTurns, SameSettings

LEMMA EveryStep ==
    ASSUME Base, PageNext
    PROVE  UserSteps \/ HandlerSteps \/ ShowSteps
  <1>1. CASE \/ \E s \in Conversations : Choose(s)
             \/ ChooseSeed \/ Tick \/ Reload
             \/ \E b \in Boxes : Type(b)
             \/ \E l \in Clicks : Press(l)
    BY <1>1, ChooseIs, ChooseSeedIs, TickIs, ReloadIs, TypeIs, PressIs DEF UserSteps
  <1>2. ASSUME NEW ok \in BOOLEAN, NEW l \in Listeners, Read(l, ok) \/ Act(l, ok) \/ SaveSettings(l, ok)
        PROVE  HandlerSteps
    <2>1. CASE Read(l, ok)
      BY <2>1, ReadReturns DEF HandlerSteps
    <2>2. CASE Act(l, ok)
      BY <2>2, ActReturns DEF HandlerSteps
    <2>3. CASE SaveSettings(l, ok)
      BY <2>3, SettingsSaved DEF HandlerSteps
    <2>4. QED
      BY <1>2, <2>1, <2>2, <2>3
  <1>3. ASSUME NEW ok \in BOOLEAN, NEW seed \in {"none", "open", "wanting"}, Ingest(seed, ok)
        PROVE  HandlerSteps
    BY <1>3, IngestReturns DEF HandlerSteps, Listeners, Clicks
  <1>4. ASSUME NEW ok \in BOOLEAN, NEW seed \in {"none", "open", "wanting"}, NEW l \in Asks,
               NEW saved \in BOOLEAN, SendTurn(l, seed, ok, saved)
        PROVE  HandlerSteps
    <2>1. l \in Listeners
      BY NamesOfListeners
    <2>2. QED
      BY <1>4, <2>1, TurnSent, QuestionsFail DEF HandlerSteps
  <1>5. ASSUME NEW ok \in BOOLEAN, NEW s \in Conversations, NEW made \in BOOLEAN,
               Create(s, made, ok)
        PROVE  HandlerSteps
    BY <1>5, Creating DEF HandlerSteps
  <1>6. CASE ShowSelected
    BY <1>6, SelectedShows DEF ShowSteps, Selected
  <1>7. CASE ShowCreated
    BY <1>7, CreatedShows DEF ShowSteps
  <1>8. CASE ShowControls \/ ShowSeed
    BY <1>8, FilledShows DEF ShowSteps
  <1>9. CASE AClickShows
    BY <1>9, SomeClickShows DEF ShowSteps
  <1>10. CASE \E l \in Listeners : Unseen(l)
    BY <1>10, UnseenIs DEF ShowSteps
  <1>11. QED
    BY <1>1, <1>2, <1>3, <1>4, <1>5, <1>6, <1>7, <1>8, <1>9, <1>10 DEF PageNext, AClickShows

-----------------------------------------------------------------------------
(* Base is kept by every step.                                             *)

LEMMA ChoicesBase ==
    ASSUME Base, UserSteps
    PROVE  Base'
  <1> USE NamesOfListeners
  <1>1. ASSUME page' \in Pages, jobs' \in [Listeners -> Events], past' \in Pasts,
               UNCHANGED <<server, built>>, typed' \in Nat, \A l \in Listeners : Moves(l),
               page'.listed = page.listed, page'.active = page.active,
               page'.selector \in Listed(page)
        PROVE  Base'
    <2>1. PageTyped'
      BY <1>1, TypesSuffice DEF TypesNext, Base, PageTyped
    <2>2. Orderly'
      BY <1>1, MovesOrderly
    <2>3. NamesAreKnown' /\ BuiltIsOne' /\ NewIsUnknown'
      BY <1>1, MovesKnown DEF Listed, Base, NamesAreKnown
    <2>4. QED
      BY <2>1, <2>2, <2>3 DEF Base
  <1>2. /\ page \in Pages /\ jobs \in [Listeners -> Events] /\ past \in Pasts /\ typed \in Nat
        /\ page.selector \in Listed(page) /\ page.active \in Listed(page)
    BY DEF Base, PageTyped, NamesAreKnown
  <1>3. ASSUME NEW s \in Conversations, Chosen(s)
        PROVE  Base'
    <2>1. \A l \in Listeners : Moves(l)
      BY <1>3, FollowsMoves DEF Chosen
    <2>2. page'.listed = page.listed /\ page'.active = page.active /\ page'.selector = s
      BY <1>3 DEF Chosen, SameBut
    <2>3. QED
      BY <1>1, <1>2, <1>3, <2>1, <2>2 DEF Chosen, Listed
  <1>4. CASE SeedChosen
    <2>1. \A l \in Listeners : Moves(l)
      BY <1>4, FollowsMoves DEF SeedChosen
    <2>2. /\ page'.listed = page.listed /\ page'.active = page.active
          /\ page'.selector = page.selector
      BY <1>4 DEF SeedChosen, SameBut
    <2>3. QED
      BY <1>1, <1>2, <1>4, <2>1, <2>2 DEF SeedChosen
  <1>5. CASE Ticked
    <2>1. \A l \in Listeners : Moves(l)
      BY <1>5 DEF Ticked, Moves
    <2>2. /\ page'.listed = page.listed /\ page'.active = page.active
          /\ page'.selector = page.selector
      BY <1>5 DEF Ticked, SameBut
    <2>3. QED
      BY <1>1, <1>2, <1>5, <2>1, <2>2 DEF Ticked
  <1>6. ASSUME NEW b \in Boxes, Entered(b)
        PROVE  Base'
    <2>1. \A l \in Listeners : Moves(l)
      BY <1>6 DEF Entered, Moves
    <2>2. /\ page'.listed = page.listed /\ page'.active = page.active
          /\ page'.selector = page.selector
      BY <1>6 DEF Entered, SameBut
    <2>3. QED
      BY <1>1, <1>2, <1>6, <2>1, <2>2 DEF Entered
  <1>7. ASSUME NEW l \in Clicks, Pressed(l)
        PROVE  Base'
    <2>1. \A k \in Listeners : Moves(k)
      <3>1. JustSent(l)
        BY <1>7 DEF Pressed, JustSent, Changes
      <3>2. QED
        BY <1>7, <3>1 DEF Pressed, Moves
    <2>2. QED
      BY <1>1, <1>2, <1>7, <2>1 DEF Pressed
  <1>8. CASE Reloaded
    <2>1. /\ page' = built /\ built' = built /\ server' = server /\ There' = There
          /\ built \in Pages
      BY <1>8 DEF Reloaded, There, Base, PageTyped
    <2>2. PageTyped'
      BY <1>8, TypesSuffice DEF Reloaded, TypesNext, Base, PageTyped
    <2>3. ASSUME NEW l \in Listeners
          PROVE  /\ jobs'[l].step = "free" => jobs'[l] = NoEvent
                 /\ l \in Clicks => ~jobs'[l].again
                 /\ l \in Changes => jobs'[l].live
                 /\ jobs'[l].step = "back" => jobs'[l].view.of = jobs'[l].s
                 /\ jobs'[l].s \in {jobs[l].s, Nobody}
                 /\ l \in Clicks => jobs'[l].step = "free" \/ ~jobs'[l].live
      <3>1. CASE jobs'[l] = NoEvent
        BY <3>1, NoEventIs
      <3>2. CASE l \in Clicks /\ InFlight(l) /\ jobs'[l] = [jobs[l] EXCEPT !.live = FALSE]
        <4>1. /\ jobs'[l].step = jobs[l].step /\ jobs'[l].again = jobs[l].again
              /\ jobs'[l].view = jobs[l].view /\ jobs'[l].s = jobs[l].s /\ ~jobs'[l].live
          BY <1>2, <3>2 DEF Events
        <4>2. QED
          BY <3>2, <4>1 DEF Base, Orderly, InFlight
      <3>3. QED
        BY <1>8, <3>1, <3>2 DEF Reloaded
    <2>4. Orderly'
      BY <2>3 DEF Orderly
    <2>5. NamesAreKnown'
      <3>1. "select" \in Changes /\ jobs'["select"].s = Nobody
        BY <1>8, NoEventIs DEF Reloaded, Changes
      <3>2. QED
        BY <2>1, <2>3, <3>1 DEF Base, NamesAreKnown, Listed
    <2>6. BuiltIsOne'
      BY <2>1 DEF Base, BuiltIsOne
    <2>7. NewIsUnknown'
      BY <2>3 DEF NewIsUnknown
    <2>8. QED
      BY <2>2, <2>4, <2>5, <2>6, <2>7 DEF Base
  <1>9. QED
    BY <1>3, <1>4, <1>5, <1>6, <1>7, <1>8 DEF UserSteps

LEMMA HandlersBase ==
    ASSUME Base, HandlerSteps
    PROVE  Base'
  <1> USE NamesOfListeners
  <1>1. ASSUME NEW l \in Listeners, NEW ok \in BOOLEAN, NEW srv, HandlerReturns(l, ok, srv),
               \A s \in Conversations : s # jobs[l].s => srv[s].turns = server[s].turns
        PROVE  Base'
    <2>5. /\ srv \in [Conversations -> Chats] /\ page' = page /\ built' = built
          /\ typed' = typed /\ past' \in Pasts /\ Sent(l) /\ Returns(l, ok, srv)
      BY <1>1 DEF HandlerReturns
    <2>1. server' = srv /\ jobs' \in [Listeners -> Events]
      BY <1>1, <2>5, Returning
    <2>6. page \in Pages /\ built \in Pages /\ typed \in Nat
      BY <1>1 DEF Base, PageTyped
    <2>2. PageTyped'
      BY <2>1, <2>5, <2>6, TypesSuffice DEF TypesNext
    <2>3. Orderly' /\ NamesAreKnown' /\ BuiltIsOne' /\ NewIsUnknown'
      BY <1>1, ReturnKnown DEF HandlerReturns
    <2>4. QED
      BY <2>2, <2>3 DEF Base
  <1>2. ASSUME NEW l \in Listeners, NEW ok \in BOOLEAN, NEW srv,
               QuietReturns(l, ok, srv) \/ TurnReturns(l, ok, srv) \/ SaveReturns(l, ok, srv)
        PROVE  Base'
    <2>1. /\ HandlerReturns(l, ok, srv)
          /\ \A s \in Conversations : s # jobs[l].s => srv[s].turns = server[s].turns
      <3>1. CASE QuietReturns(l, ok, srv)
        BY <3>1 DEF QuietReturns, SameTurns
      <3>2. CASE TurnReturns(l, ok, srv)
        BY <3>2 DEF TurnReturns
      <3>3. CASE SaveReturns(l, ok, srv)
        BY <3>3 DEF SaveReturns, SameTurns
      <3>4. QED
        BY <1>2, <3>1, <3>2, <3>3
    <2>2. QED
      BY <1>1, <2>1
  <1>3. ASSUME NEW s \in Conversations, NEW made \in BOOLEAN, NEW ok \in BOOLEAN,
               CreateReturns(s, made, ok)
        PROVE  Base'
    <2> DEFINE j == jobs'["create"]
    <2>1. /\ UNCHANGED <<page, built, typed, past>> /\ s \notin There /\ s # Nobody
          /\ \A t \in Conversations \ {s} : server'[t] = server[t]
          /\ server'[s].turns = <<>> /\ (server'[s].made <=> made) /\ (ok => made)
          /\ jobs' \in [Listeners -> Events] /\ server' \in [Conversations -> Chats]
          /\ \A k \in Listeners \ {"create"} : jobs'[k] = jobs[k]
          /\ j.step = "back" /\ j.ok = ok /\ j.s = s /\ j.view.of = s /\ j.view.n = 0
          /\ j.again = jobs["create"].again
      BY <1>3, WorkbenchPageAssumption DEF CreateReturns
    <2>2. PageTyped'
      BY <2>1, TypesSuffice DEF TypesNext, Base, PageTyped
    <2>3. There \subseteq There' /\ There' \subseteq There \cup {s} /\ (ok => s \in There')
      BY <2>1 DEF There
    <2>4. Orderly'
      BY <2>1 DEF Base, Orderly, Changes
    <2>5. NamesAreKnown'
      <3>1. jobs'["select"].s \in Listed(page)
        BY <2>1 DEF Base, NamesAreKnown, Changes
      <3>2. \A l \in Listeners \ {"create"} : jobs'[l].s \in There' \cup {Nobody}
        BY <2>1, <2>3 DEF Base, NamesAreKnown
      <3>3. \A t \in Conversations \ There' : server'[t].turns = <<>>
        <4>1. \A t \in Conversations \ There : server[t].turns = <<>>
          BY DEF Base, NamesAreKnown
        <4>2. QED
          BY <2>1, <2>3, <4>1
      <3>4. QED
        BY <2>1, <2>3, <3>1, <3>2, <3>3 DEF Base, NamesAreKnown, Listed
    <2>6. BuiltIsOne'
      BY <2>1 DEF Base, BuiltIsOne
    <2>7. NewIsUnknown'
      <3>1. s \notin page.listed /\ \A l \in Listeners \ {"create"} : jobs[l].s # s
        BY <2>1 DEF Base, NamesAreKnown
      <3>2. QED
        BY <2>1, <2>3, <3>1 DEF NewIsUnknown
    <2>8. QED
      BY <2>2, <2>4, <2>5, <2>6, <2>7 DEF Base
  <1>4. QED
    BY <1>2, <1>3 DEF HandlerSteps

LEMMA ShowsKeepBase ==
    ASSUME Base, ShowSteps
    PROVE  Base'
  <1> USE NamesOfListeners
  <1>1. /\ page \in Pages /\ past \in Pasts /\ page.active \in Listed(page)
        /\ page.listed \subseteq There
    BY DEF Base, PageTyped, NamesAreKnown
  <1>2. ASSUME NEW new \in Pages, Selected(new)
        PROVE  Base'
    <2>1. "select" \in Listeners /\ jobs["select"].s \in Listed(page)
      BY DEF Base, NamesAreKnown, Changes
    <2>2. past' \in Pasts
      BY <1>1, <1>2, <2>1 DEF Selected, Pasts, Base, PageTyped, Events
    <2>3. new.active \in Listed(page)
      BY <1>1, <1>2, <2>1 DEF Selected, SelectionShows, Base, PageTyped, Events
    <2>4. QED
      BY <1>2, <2>1, <2>2, <2>3, ShowsBase DEF Selected, SelectionShows
  <1>3. ASSUME NEW new \in Pages, CreationShows(new)
        PROVE  Base'
    <2> DEFINE j == jobs["create"]
    <2>1. Shows("create", new) /\ "create" \in Listeners /\ j.ok \in BOOLEAN
      BY <1>3 DEF CreationShows, Base, PageTyped, Events
    <2>2. CASE ~j.ok
      <3>1. new = page /\ past' = past
        BY <1>3, <2>2 DEF CreationShows
      <3>2. QED
        BY <1>1, <2>1, <3>1, ShowsBase
    <2>3. CASE j.ok
      <3>1. /\ new.active = j.s /\ new.selector = j.s /\ new.listed = There
            /\ past' = [past EXCEPT !.mixed = Crossed(j.s),
                           !.crossing = (@ /\ InFlight("select")) \/ Crossed(j.s)]
        BY <1>3, <2>3 DEF CreationShows
      <3>2. past' \in Pasts
        BY <1>1, <3>1 DEF Pasts, Crossed
      <3>3. PageTyped' /\ Orderly' /\ \A k \in Listeners : Moves(k)
        BY <2>1, <3>2, ShowsTyped
      <3>4. /\ page' = new /\ server' = server /\ built' = built
            /\ j.step = "back" /\ j.live /\ jobs'["create"] = NoEvent
        BY <2>1, Showing
      <3>5. j.s \in There
        BY <2>3, <3>4 DEF Base, NewIsUnknown
      <3>6. NamesAreKnown' /\ BuiltIsOne' /\ NewIsUnknown'
        BY <1>1, <3>1, <3>3, <3>4, <3>5, MovesKnown DEF Listed
      <3>7. QED
        BY <3>3, <3>6 DEF Base
    <2>4. QED
      BY <2>1, <2>2, <2>3
  <1>4. ASSUME past' = past, NEW l \in {"controls", "inspect"}, NEW new \in Pages,
               FillingShows(l, new)
        PROVE  Base'
    <2>1. l \in Listeners
      BY DEF Changes
    <2>2. QED
      BY <1>1, <1>4, <2>1, ShowsBase DEF FillingShows
  <1>5. ASSUME past' = past, NEW l \in Clicks \ {"create"}, NEW new \in Pages, ClickShows(l, new)
        PROVE  Base'
    BY <1>1, <1>5, ShowsBase DEF ClickShows
  <1>6. ASSUME NEW l \in Listeners, Dropped(l)
        PROVE  Base'
    <2>1. PageTyped'
      BY <1>6, TypesSuffice DEF Dropped, TypesNext, Base, PageTyped
    <2>2. \A k \in Listeners : Moves(k)
      BY <1>6 DEF Dropped, Moves
    <2>3. NamesAreKnown' /\ BuiltIsOne' /\ NewIsUnknown'
      BY <1>1, <1>6, <2>2, MovesKnown DEF Dropped, Base, NamesAreKnown, Listed
    <2>4. QED
      BY <2>1, <2>2, <2>3, MovesOrderly DEF Base
  <1>7. QED
    BY <1>2, <1>3, <1>4, <1>5, <1>6 DEF ShowSteps

LEMMA BaseStep == Base /\ [PageNext]_pageVars => Base'
  <1>1. CASE Base /\ PageNext
    BY <1>1, EveryStep, ChoicesBase, HandlersBase, ShowsKeepBase
  <1>2. CASE Base /\ UNCHANGED pageVars
    BY <1>2 DEF pageVars, Base, PageTyped, Orderly, NamesAreKnown, BuiltIsOne, NewIsUnknown,
                There, Listed
  <1>3. QED
    BY <1>1, <1>2

LEMMA BaseInitially == PageInit => Base
  <1> SUFFICES ASSUME PageInit PROVE Base
    OBVIOUS
  <1> USE NamesOfListeners
  <1>0. PICK made \in SUBSET Conversations, seed \in Seeds :
          \E first \in made \cup {Nobody} :
            /\ server = [c \in Conversations |-> IF c \in made THEN Fresh(c, seed) ELSE Unmade]
            /\ page = Started(server, first) /\ built = page
            /\ jobs = [l \in Listeners |-> NoEvent] /\ typed = 0
            /\ past = [mixed |-> FALSE, crossing |-> FALSE, behind |-> FALSE, blind |-> FALSE,
                       twice |-> {}, excused |-> {}]
    BY DEF PageInit
  <1>1. PICK first \in made \cup {Nobody} :
          /\ server = [c \in Conversations |-> IF c \in made THEN Fresh(c, seed) ELSE Unmade]
          /\ page = Started(server, first) /\ built = page
          /\ jobs = [l \in Listeners |-> NoEvent] /\ typed = 0
          /\ past = [mixed |-> FALSE, crossing |-> FALSE, behind |-> FALSE, blind |-> FALSE,
                     twice |-> {}, excused |-> {}]
    BY <1>0
  <1>2. Nobody \in Somebody /\ seed \in SeedKinds /\ "none" \in SeedKinds /\ <<>> \in Seq(Nat)
    BY DEF Somebody, SeedKinds
  <1>3. Unmade \in Chats /\ Unmade.turns = <<>> /\ ~Unmade.made
    BY <1>2 DEF Unmade, Chats
  <1>4. \A c \in Conversations : Fresh(c, seed) \in Chats /\ Fresh(c, seed).made
                                 /\ Fresh(c, seed).turns = <<>>
    BY <1>2, <1>3 DEF Fresh, Chats, Somebody
  <1>5. server \in [Conversations -> Chats] /\ There = made
        /\ \A s \in Conversations : server[s].turns = <<>>
    BY <1>1, <1>3, <1>4 DEF There
  <1>6. first \in Somebody
    BY DEF Somebody
  <1> DEFINE v == ViewOf(server, first)
  <1>7. v \in Views /\ v.of = first
    BY <1>5, <1>6, ViewIs
  <1>8. /\ ChatOf(v) \in Chatted /\ ChatOf(v).of = first /\ PanelOf(v) \in Panels
        /\ PanelOf(v).of = first /\ NoStory \in Panels
    BY <1>7, ViewParts
  <1>9. /\ page.active = first /\ page.selector = first /\ page.listed = made
        /\ page.head = first /\ page.chat = ChatOf(v) /\ page.memory = PanelOf(v)
        /\ page.form = first /\ page.story = NoStory /\ page.picked = FALSE /\ page.buttons = {}
        /\ page.ticked = FALSE /\ page.box = [b \in Boxes |-> Empty]
    BY <1>1, <1>5 DEF Started, There
  <1>10. page \in Pages
    <2>1. page.box \in [Boxes -> Nat]
      BY <1>9 DEF Empty
    <2> HIDE DEF v
    <2>2. Started(server, first) =
            [active |-> page.active, selector |-> page.selector, listed |-> page.listed,
             head |-> page.head, chat |-> page.chat, memory |-> page.memory,
             form |-> page.form, story |-> page.story, picked |-> page.picked,
             buttons |-> page.buttons, ticked |-> page.ticked, box |-> page.box]
      BY <1>1 DEF Started
    <2>3. QED
      BY <1>1, <1>6, <1>8, <1>9, <2>1, <2>2 DEF Pages, Chatted
  <1>11. jobs \in [Listeners -> Events] /\ \A l \in Listeners : jobs[l] = NoEvent
    BY <1>1, NoEventIs
  <1>12. past \in Pasts
    BY <1>1 DEF Pasts
  <1>13. PageTyped
    BY <1>1, <1>5, <1>10, <1>11, <1>12 DEF PageTyped
  <1>14. Orderly
    BY <1>11, NoEventIs DEF Orderly
  <1>15. NamesAreKnown
    <2>1. jobs["select"].s = Nobody /\ \A l \in Listeners : jobs[l].s = Nobody
      BY <1>11, NoEventIs DEF Changes
    <2>2. QED
      BY <1>1, <1>5, <1>9, <2>1 DEF NamesAreKnown, Listed
  <1>16. BuiltIsOne
    BY <1>1, <1>8, <1>9 DEF BuiltIsOne
  <1>17. NewIsUnknown
    BY <1>11, NoEventIs DEF NewIsUnknown
  <1>18. QED
    BY <1>13, <1>14, <1>15, <1>16, <1>17 DEF Base

-----------------------------------------------------------------------------
(* What was typed once is asked once.                                      *)

SameQuestions == \A s \in Conversations : server'[s].turns = server[s].turns

LEMMA NothingRecorded ==
    ASSUME SameQuestions
    PROVE  (\A m : Recorded(m)' <=> Recorded(m))
  BY DEF SameQuestions, Recorded

LEMMA AskedStays ==
    ASSUME AskedOnce, SameQuestions, past.twice \subseteq past'.twice
    PROVE  AskedOnce'
  BY DEF SameQuestions, AskedOnce

LEMMA SameMessages ==
    ASSUME Base, MessageInv, SameQuestions, page'.box = page.box, typed' = typed,
           past.twice \subseteq past'.twice,
           \A l \in Asks : /\ jobs'[l].m = jobs[l].m /\ jobs'[l].live = jobs[l].live
                           /\ jobs[l].step = "back" =>
                                 jobs'[l].step = "back" /\ jobs'[l].ok = jobs[l].ok
    PROVE  MessageInv'
  <1>1. \A m : Recorded(m)' <=> Recorded(m)
    BY NothingRecorded
  <1>2. AskedOnce'
    BY AskedStays DEF MessageInv
  <1>3. MessagesAreTyped'
    BY <1>1 DEF MessageInv, MessagesAreTyped
  <1>4. BoxesAreApart'
    BY DEF MessageInv, BoxesAreApart, Holds, InBox
  <1>5. MessagesAreSingle'
    BY <1>1 DEF MessageInv, MessagesAreSingle, Holds, InBox
  <1>6. QED
    BY <1>2, <1>3, <1>4, <1>5 DEF MessageInv

\* A new text is in no event, in no other box, and was not recorded.
LEMMA TypingMessages ==
    ASSUME Base, MessageInv, NEW b \in Boxes, Entered(b)
    PROVE  MessageInv'
  <1>0. PICK n : n = typed + 1
    OBVIOUS
  <1>1. /\ jobs' = jobs /\ past' = past /\ typed' = n /\ SameQuestions
        /\ page'.box = [page.box EXCEPT ![b] = n]
    BY <1>0 DEF Entered, SameQuestions
  <1>2. page.box \in [Boxes -> Nat] /\ typed \in Nat
    BY DEF Base, PageTyped, Pages
  <1>3. page'.box[b] = n /\ \A c \in Boxes \ {b} : page'.box[c] = page.box[c]
    BY <1>1, <1>2
  <1>4. /\ \A l \in Asks : jobs[l].m \in 0..typed
        /\ \A c \in Boxes : page.box[c] \in 0..typed
        /\ \A m : Recorded(m) => m \in 1..typed
    BY DEF MessageInv, MessagesAreTyped
  <1>5. \A m : Recorded(m)' <=> Recorded(m)
    BY <1>1, NothingRecorded
  <1>6. n \in Nat /\ n # Empty /\ n \notin 0..typed /\ 0..typed \subseteq 0..n /\ 1..typed \subseteq 1..n
    BY <1>0, <1>2 DEF Empty
  <1>7. n \in 0..n /\ n \notin 1..typed
    BY <1>2, <1>6
  <1>8. MessagesAreTyped'
    BY <1>1, <1>3, <1>4, <1>5, <1>6, <1>7 DEF MessagesAreTyped
  <1>9. \A m \in Nat \ {n} : \A c \in Boxes : InBox(c, m)' => InBox(c, m)
    BY <1>3 DEF InBox
  <1>10. /\ \A l \in Asks : ~Holds(l, n)
         /\ ~Recorded(n)
         /\ \A c \in Boxes : InBox(c, n)' => c = b
    BY <1>3, <1>4, <1>6, <1>7 DEF Holds, InBox
  <1>11. \A l, m : Holds(l, m)' <=> Holds(l, m)
    BY <1>1 DEF Holds
  <1>12. BoxesAreApart'
    BY <1>9, <1>10, <1>11 DEF MessageInv, BoxesAreApart
  <1>13. MessagesAreSingle'
    <2> SUFFICES ASSUME NEW m \in Nat \ {Empty}, m \notin past'.twice
                 PROVE  /\ \A i, k \in Asks : Holds(i, m)' /\ Holds(k, m)' => i = k
                        /\ \A i \in Asks : Holds(i, m)' /\ ~jobs'[i].live =>
                              \A c \in Boxes : ~InBox(c, m)'
                        /\ Recorded(m)' =>
                             /\ \A i \in Asks : Holds(i, m)' =>
                                   jobs'[i].step = "back" /\ jobs'[i].ok
                             /\ \A c \in Boxes : InBox(c, m)' =>
                                  \E i \in Asks : Holds(i, m)' /\ jobs'[i].live /\ BoxOf(i) = c
      BY DEF MessagesAreSingle
    <2>1. m \notin past.twice
      BY <1>1
    <2>2. CASE m = n
      BY <1>5, <1>10, <1>11, <2>2
    <2>3. CASE m # n
      BY <1>1, <1>5, <1>9, <1>11, <2>1, <2>3 DEF MessageInv, MessagesAreSingle
    <2>4. QED
      BY <2>2, <2>3
  <1>14. QED
    BY <1>1, <1>8, <1>12, <1>13, AskedStays DEF MessageInv

\* An event takes over what is in its box.
LEMMA PressingMessages ==
    ASSUME Base, MessageInv, NEW l \in Asks, Pressed(l)
    PROVE  MessageInv'
  <1> DEFINE q == page.box[BoxOf(l)]
  <1>1. /\ page' = page /\ typed' = typed /\ SameQuestions /\ past.twice \subseteq past'.twice
        /\ jobs'[l].m = q /\ jobs'[l].live /\ \A k \in Asks \ {l} : jobs'[k] = jobs[k]
    BY NamesOfListeners DEF Pressed, SameQuestions
  <1>2. BoxOf(l) \in Boxes /\ l \in Listeners /\ jobs[l] = NoEvent /\ q \in Nat
    BY NamesOfListeners DEF Pressed, InFlight, Base, Orderly, PageTyped, Pages
  <1>3. \A m : Recorded(m)' <=> Recorded(m)
    BY <1>1, NothingRecorded
  <1>4. \A m : /\ Holds(l, m)' <=> m = q
               /\ \A k \in Asks \ {l} : Holds(k, m)' <=> Holds(k, m)
               /\ \A b : InBox(b, m)' <=> InBox(b, m)
    BY <1>1 DEF Holds, InBox
  <1>5. InBox(BoxOf(l), q)
    BY DEF InBox
  <1>6. \A k \in Asks : Holds(k, q) /\ q # Empty => k # l /\ InFlight(k)
    BY <1>2, NoEventIs, NamesOfListeners DEF Holds, InFlight, Base, Orderly
  <1>7. \A k \in Asks : Holds(k, q) /\ q # Empty => q \in past'.twice
    <2> SUFFICES ASSUME NEW k \in Asks, Holds(k, q), q # Empty PROVE q \in past'.twice
      OBVIOUS
    <2>1. BoxOf(k) = BoxOf(l) /\ k # l /\ InFlight(k) /\ jobs[k].m = q
      BY <1>2, <1>5, <1>6 DEF MessageInv, BoxesAreApart, Holds
    <2>2. k \in {"button", "enter"} \ {l} /\ l \in {"button", "enter"} /\ BoxOf(l) = "ask"
      BY <2>1 DEF BoxOf, Asks
    <2>3. QED
      BY <2>1, <2>2 DEF Pressed
  <1>8. Recorded(q) /\ q # Empty => q \in past'.twice
    <2> SUFFICES ASSUME Recorded(q), q # Empty, q \notin past.twice PROVE q \in past'.twice
      BY <1>1
    <2>1. PICK k \in Asks : Holds(k, q)
      BY <1>2, <1>5 DEF MessageInv, MessagesAreSingle
    <2>2. QED
      BY <1>7, <2>1
  <1> HIDE DEF q
  <1>9. MessagesAreTyped'
    <2>1. \A k \in Asks : jobs'[k].m \in 0..typed
      BY <1>1, <1>2, <1>5 DEF MessageInv, MessagesAreTyped, InBox
    <2>2. QED
      BY <1>1, <1>3, <2>1 DEF MessageInv, MessagesAreTyped
  <1>10. BoxesAreApart'
    <2>1. \A m \in Nat \ {Empty} : \A k \in Asks, b \in Boxes :
             Holds(k, m)' /\ InBox(b, m)' => BoxOf(k) = b
      BY <1>2, <1>4, <1>5 DEF MessageInv, BoxesAreApart
    <2>2. \A m \in Nat \ {Empty} : \A k, i \in Asks :
             Holds(k, m)' /\ Holds(i, m)' => BoxOf(k) = BoxOf(i)
      BY <1>2, <1>4, <1>5 DEF MessageInv, BoxesAreApart
    <2>3. QED
      BY <1>4, <2>1, <2>2 DEF MessageInv, BoxesAreApart
  <1>11. MessagesAreSingle'
    <2> SUFFICES ASSUME NEW m \in Nat \ {Empty}, m \notin past'.twice
                 PROVE  /\ \A i, k \in Asks : Holds(i, m)' /\ Holds(k, m)' => i = k
                        /\ \A i \in Asks : Holds(i, m)' /\ ~jobs'[i].live =>
                              \A b \in Boxes : ~InBox(b, m)'
                        /\ Recorded(m)' =>
                             /\ \A i \in Asks : Holds(i, m)' =>
                                   jobs'[i].step = "back" /\ jobs'[i].ok
                             /\ \A b \in Boxes : InBox(b, m)' =>
                                  \E i \in Asks : Holds(i, m)' /\ jobs'[i].live /\ BoxOf(i) = b
      BY DEF MessagesAreSingle
    <2>1. m \notin past.twice
      BY <1>1
    <2>2. CASE m = q
      BY <1>1, <1>3, <1>4, <1>7, <1>8, <2>2
    <2>3. CASE m # q
      <3>1. \A k \in Asks : Holds(k, m)' => k # l /\ Holds(k, m) /\ jobs'[k] = jobs[k]
        BY <1>1, <1>4, <2>3
      <3>2. \A k \in Asks : Holds(k, m) => Holds(k, m)' /\ jobs'[k] = jobs[k]
        BY <1>1, <1>2, <1>4, NoEventIs DEF Holds
      <3>3. QED
        BY <1>3, <1>4, <2>1, <3>1, <3>2 DEF MessageInv, MessagesAreSingle
    <2>4. QED
      BY <2>2, <2>3
  <1>12. QED
    BY <1>1, <1>9, <1>10, <1>11, AskedStays DEF MessageInv

\* A question that is recorded was not yet, and its event has ended well or is excused.
LEMMA RecordingMessages ==
    ASSUME Base, MessageInv, NEW l \in Listeners, NEW ok \in BOOLEAN, NEW srv,
           TurnReturns(l, ok, srv)
    PROVE  MessageInv'
  <1> USE NamesOfListeners
  <1>0. PICK q, s, turns : q = jobs[l].m /\ s = jobs[l].s /\ turns = server[s].turns
    OBVIOUS
  <1>1. /\ HandlerReturns(l, ok, srv) /\ l \in Asks /\ s \in Conversations /\ q # Empty
        /\ srv[s].turns = Append(turns, q)
        /\ \A t \in Conversations \ {s} : srv[t].turns = server[t].turns
        /\ past'.twice = past.twice \cup (IF ok THEN {} ELSE {q})
    BY <1>0 DEF TurnReturns, Base, PageTyped, Pasts
  <1>2. /\ server' = srv /\ page' = page /\ typed' = typed
        /\ \A k \in Asks \ {l} : jobs'[k] = jobs[k]
        /\ jobs'[l].step = "back" /\ jobs'[l].ok = ok /\ jobs'[l].m = q
        /\ jobs'[l].live = jobs[l].live /\ jobs[l].step = "sent"
    <2>1. /\ Sent(l) /\ Returns(l, ok, srv) /\ srv \in [Conversations -> Chats]
          /\ page' = page /\ typed' = typed
      BY <1>1 DEF HandlerReturns
    <2>2. /\ server' = srv /\ \A k \in Listeners \ {l} : jobs'[k] = jobs[k]
          /\ jobs'[l].step = "back" /\ jobs'[l].ok = ok /\ jobs'[l].m = jobs[l].m
          /\ jobs'[l].live = jobs[l].live
      BY <2>1, Returning
    <2>3. QED
      BY <1>0, <2>1, <2>2 DEF Sent
  <1>3. turns \in Seq(Nat) /\ q \in Nat /\ Len(turns) \in Nat /\ q \in 1..typed
    <2>1. server \in [Conversations -> Chats] /\ typed \in Nat
      BY DEF Base, PageTyped
    <2>2. turns \in Seq(Nat)
      BY <1>0, <1>1, <2>1 DEF Chats
    <2>3. q \in 0..typed /\ q # 0
      BY <1>0, <1>1 DEF MessageInv, MessagesAreTyped, Empty
    <2>4. QED
      BY <2>1, <2>2, <2>3
  <1>4. /\ DOMAIN Append(turns, q) = 1..Len(turns) + 1 /\ DOMAIN turns = 1..Len(turns)
        /\ Append(turns, q)[Len(turns) + 1] = q
        /\ \A i \in 1..Len(turns) : Append(turns, q)[i] = turns[i]
    BY <1>3
  <1>5. \A m : Recorded(m)' <=> Recorded(m) \/ m = q
    <2>1. ASSUME NEW m, Recorded(m)'
          PROVE  Recorded(m) \/ m = q
      <3>1. PICK t \in Conversations : \E i \in DOMAIN srv[t].turns : srv[t].turns[i] = m
        BY <1>2, <2>1 DEF Recorded
      <3>2. CASE t = s
        <4>1. PICK i \in DOMAIN Append(turns, q) : Append(turns, q)[i] = m
          BY <1>1, <3>1, <3>2
        <4>2. i \in 1..Len(turns) \/ i = Len(turns) + 1
          BY <1>3, <1>4, <4>1
        <4>3. QED
          BY <1>0, <1>1, <1>4, <4>1, <4>2 DEF Recorded
      <3>3. CASE t # s
        BY <1>1, <3>1, <3>3 DEF Recorded
      <3>4. QED
        BY <3>2, <3>3
    <2>2. ASSUME NEW m, Recorded(m)
          PROVE  Recorded(m)'
      <3>0. PICK t \in Conversations : \E i \in DOMAIN server[t].turns : server[t].turns[i] = m
        BY <2>2 DEF Recorded
      <3>1. PICK i \in DOMAIN server[t].turns : server[t].turns[i] = m
        BY <3>0
      <3>2. i \in DOMAIN srv[t].turns /\ srv[t].turns[i] = m
        <4>1. CASE t = s
          <5>1. i \in 1..Len(turns) /\ i \in 1..Len(turns) + 1
            <6>1. DOMAIN server[t].turns = 1..Len(turns)
              BY <1>0, <1>4, <4>1
            <6>2. QED
              BY <1>3, <3>1, <6>1
          <5>2. srv[t].turns = Append(turns, q) /\ turns[i] = m
            BY <1>0, <1>1, <3>1, <4>1
          <5>3. QED
            BY <1>4, <5>1, <5>2
        <4>2. CASE t # s
          BY <1>1, <3>1, <4>2
        <4>3. QED
          BY <4>1, <4>2
      <3>3. QED
        BY <1>2, <3>2 DEF Recorded
    <2>3. Recorded(q)'
      <3>1. Len(turns) + 1 \in 1..Len(turns) + 1
        BY <1>3
      <3>2. QED
        BY <1>1, <1>2, <1>4, <3>1 DEF Recorded
    <2>4. QED
      BY <2>1, <2>2, <2>3
  <1>6. ~Recorded(q) \/ q \in past.twice
    BY <1>0, <1>1, <1>2, <1>3 DEF MessageInv, MessagesAreSingle, Holds
  <1>7. /\ \A k \in Asks : \A m : Holds(k, m)' <=> Holds(k, m)
        /\ \A b, m : InBox(b, m)' <=> InBox(b, m)
        /\ Holds(l, q)
    BY <1>0, <1>1, <1>2 DEF Holds, InBox
  <1>8. MessagesAreTyped'
    <2>1. \A k \in Asks : jobs'[k].m = jobs[k].m
      BY <1>0, <1>2
    <2>2. QED
      BY <1>2, <1>3, <1>5, <2>1 DEF MessageInv, MessagesAreTyped
  <1>9. BoxesAreApart'
    BY <1>7 DEF MessageInv, BoxesAreApart
  <1>10. MessagesAreSingle'
    <2> SUFFICES ASSUME NEW m \in Nat \ {Empty}, m \notin past'.twice
                 PROVE  /\ \A i, k \in Asks : Holds(i, m)' /\ Holds(k, m)' => i = k
                        /\ \A i \in Asks : Holds(i, m)' /\ ~jobs'[i].live =>
                              \A c \in Boxes : ~InBox(c, m)'
                        /\ Recorded(m)' =>
                             /\ \A i \in Asks : Holds(i, m)' =>
                                   jobs'[i].step = "back" /\ jobs'[i].ok
                             /\ \A c \in Boxes : InBox(c, m)' =>
                                  \E i \in Asks : Holds(i, m)' /\ jobs'[i].live /\ BoxOf(i) = c
      BY DEF MessagesAreSingle
    <2>1. m \notin past.twice /\ (m = q => ok) /\ \A i \in Asks : jobs'[i].live = jobs[i].live
      BY <1>1, <1>2
    <2>2. /\ \A i, k \in Asks : Holds(i, m) /\ Holds(k, m) => i = k
          /\ \A i \in Asks : Holds(i, m) /\ ~jobs[i].live => \A c \in Boxes : ~InBox(c, m)
      BY <2>1 DEF MessageInv, MessagesAreSingle
    <2>3. CASE m = q
      <3>1. \A i \in Asks : Holds(i, m) => i = l
        BY <1>1, <1>7, <2>2, <2>3
      <3>2. \A c \in Boxes : InBox(c, m) => jobs[l].live /\ BoxOf(l) = c
        BY <1>1, <1>7, <2>2, <2>3 DEF MessageInv, BoxesAreApart
      <3>3. QED
        BY <1>1, <1>2, <1>7, <2>1, <2>2, <2>3, <3>1, <3>2
    <2>4. CASE m # q
      <3>1. \A i \in Asks : Holds(i, m) => i # l
        BY <1>0, <2>4 DEF Holds
      <3>2. QED
        BY <1>2, <1>5, <1>7, <2>1, <2>2, <2>4, <3>1 DEF MessageInv, MessagesAreSingle
    <2>5. QED
      BY <2>3, <2>4
  <1>11. AskedOnce'
    <2> SUFFICES ASSUME NEW t \in Conversations, NEW u \in Conversations,
                        NEW i \in DOMAIN srv[t].turns, NEW k \in DOMAIN srv[u].turns,
                        srv[t].turns[i] = srv[u].turns[k]
                 PROVE  (t = u /\ i = k) \/ srv[t].turns[i] \in past'.twice
      BY <1>2 DEF AskedOnce
    <2>1. \A c \in Conversations : \A j \in DOMAIN srv[c].turns :
             \/ j \in DOMAIN server[c].turns /\ srv[c].turns[j] = server[c].turns[j]
             \/ c = s /\ j = Len(turns) + 1 /\ srv[c].turns[j] = q
      <3> SUFFICES ASSUME NEW c \in Conversations, NEW j \in DOMAIN srv[c].turns
                   PROVE  \/ j \in DOMAIN server[c].turns /\ srv[c].turns[j] = server[c].turns[j]
                          \/ c = s /\ j = Len(turns) + 1 /\ srv[c].turns[j] = q
        OBVIOUS
      <3>1. CASE c = s
        <4>1. j \in 1..Len(turns) \/ j = Len(turns) + 1
          BY <1>1, <1>3, <1>4, <3>1
        <4>2. QED
          BY <1>0, <1>1, <1>4, <3>1, <4>1
      <3>2. CASE c # s
        BY <1>1, <3>2
      <3>3. QED
        BY <3>1, <3>2
    <2>2. \A c \in Conversations : \A j \in DOMAIN server[c].turns :
             server[c].turns[j] = q => q \in past.twice
      BY <1>6 DEF Recorded
    <2>3. past.twice \subseteq past'.twice
      BY <1>1
    <2>4. CASE /\ i \in DOMAIN server[t].turns /\ srv[t].turns[i] = server[t].turns[i]
               /\ k \in DOMAIN server[u].turns /\ srv[u].turns[k] = server[u].turns[k]
      BY <2>3, <2>4 DEF MessageInv, AskedOnce
    <2>5. QED
      BY <2>1, <2>2, <2>3, <2>4
  <1>12. QED
    BY <1>8, <1>9, <1>10, <1>11 DEF MessageInv

SingleNext ==
    \A m \in Nat \ {Empty} : m \notin past'.twice =>
        /\ \A i, k \in Asks : Holds(i, m)' /\ Holds(k, m)' => i = k
        /\ \A i \in Asks : Holds(i, m)' /\ ~jobs'[i].live => \A c \in Boxes : ~InBox(c, m)'
        /\ Recorded(m)' =>
             /\ \A i \in Asks : Holds(i, m)' => jobs'[i].step = "back" /\ jobs'[i].ok
             /\ \A c \in Boxes : InBox(c, m)' =>
                  \E i \in Asks : Holds(i, m)' /\ jobs'[i].live /\ BoxOf(i) = c

LEMMA SingleSuffices == SingleNext => MessagesAreSingle'
  BY DEF SingleNext, MessagesAreSingle

\* The box is cleared when its question was recorded, and else keeps it.
LEMMA ShowingMessages ==
    ASSUME Base, MessageInv, NEW l \in Asks, NEW new \in Pages, ClickShows(l, new), past' = past
    PROVE  MessageInv'
  <1> USE NamesOfListeners
  <1>0. PICK q, b, left : q = jobs[l].m /\ b = BoxOf(l) /\ left = Left(jobs[l])
    OBVIOUS
  <1>1. /\ jobs[l].live /\ jobs[l].step = "back" /\ typed' = typed /\ SameQuestions
        /\ jobs'[l] = NoEvent /\ \A k \in Asks \ {l} : jobs'[k] = jobs[k]
        /\ page' = new
    BY Showing DEF ClickShows, SameQuestions
  <1>2. b \in Boxes /\ page.box \in [Boxes -> Nat] /\ q \in Nat /\ q \in 0..typed
    BY <1>0 DEF Base, PageTyped, Pages, Events, MessageInv, MessagesAreTyped
  <1>3. /\ page'.box[b] = left /\ \A c \in Boxes \ {b} : page'.box[c] = page.box[c]
        /\ left = (IF jobs[l].ok THEN Empty ELSE q)
    BY <1>0, <1>1, <1>2 DEF ClickShows, Left
  <1>4. \A m : Recorded(m)' <=> Recorded(m)
    BY <1>1, NothingRecorded
  <1>5. \A m \in Nat \ {Empty} :
          /\ ~Holds(l, m)'
          /\ \A k \in Asks \ {l} : Holds(k, m)' <=> Holds(k, m)
          /\ \A c \in Boxes \ {b} : InBox(c, m)' <=> InBox(c, m)
          /\ InBox(b, m)' => m = q /\ ~jobs[l].ok
    BY <1>1, <1>3, NoEventIs DEF Holds, InBox
  <1>6. Holds(l, q)
    BY <1>0 DEF Holds
  <1>7. MessagesAreTyped'
    <2>0. Empty \in 0..typed
      BY DEF Base, PageTyped, Empty
    <2>1. \A k \in Asks : jobs'[k].m \in 0..typed
      BY <1>1, <2>0, NoEventIs DEF MessageInv, MessagesAreTyped
    <2>2. \A c \in Boxes : page'.box[c] \in 0..typed
      BY <1>2, <1>3, <2>0 DEF MessageInv, MessagesAreTyped
    <2>3. QED
      BY <1>1, <1>4, <2>1, <2>2 DEF MessageInv, MessagesAreTyped
  <1>8. BoxesAreApart'
    <2> SUFFICES ASSUME NEW m \in Nat \ {Empty}
                 PROVE  /\ \A k \in Asks, c \in Boxes :
                              Holds(k, m)' /\ InBox(c, m)' => BoxOf(k) = c
                        /\ \A k, i \in Asks : Holds(k, m)' /\ Holds(i, m)' => BoxOf(k) = BoxOf(i)
                        /\ \A c, d \in Boxes : InBox(c, m)' /\ InBox(d, m)' => c = d
      BY DEF BoxesAreApart
    <2>1. /\ \A k \in Asks, c \in Boxes : Holds(k, m) /\ InBox(c, m) => BoxOf(k) = c
          /\ \A k, i \in Asks : Holds(k, m) /\ Holds(i, m) => BoxOf(k) = BoxOf(i)
          /\ \A c, d \in Boxes : InBox(c, m) /\ InBox(d, m) => c = d
      BY DEF MessageInv, BoxesAreApart
    <2>2. InBox(b, m)' => Holds(l, m) /\ BoxOf(l) = b
      BY <1>0, <1>5, <1>6
    <2>3. QED
      BY <1>2, <1>5, <2>1, <2>2
  <1>9. MessagesAreSingle'
    <2> SUFFICES ASSUME NEW m \in Nat \ {Empty}, m \notin past'.twice
                 PROVE  /\ \A i, k \in Asks : Holds(i, m)' /\ Holds(k, m)' => i = k
                        /\ \A i \in Asks : Holds(i, m)' /\ ~jobs'[i].live =>
                              \A c \in Boxes : ~InBox(c, m)'
                        /\ Recorded(m)' =>
                             /\ \A i \in Asks : Holds(i, m)' =>
                                   jobs'[i].step = "back" /\ jobs'[i].ok
                             /\ \A c \in Boxes : InBox(c, m)' =>
                                  \E i \in Asks : Holds(i, m)' /\ jobs'[i].live /\ BoxOf(i) = c
      BY SingleSuffices DEF SingleNext
    <2>1. /\ \A i, k \in Asks : Holds(i, m) /\ Holds(k, m) => i = k
          /\ \A i \in Asks : Holds(i, m) /\ ~jobs[i].live => \A c \in Boxes : ~InBox(c, m)
          /\ Recorded(m) =>
               /\ \A i \in Asks : Holds(i, m) => jobs[i].step = "back" /\ jobs[i].ok
               /\ \A c \in Boxes : InBox(c, m) =>
                    \E i \in Asks : Holds(i, m) /\ jobs[i].live /\ BoxOf(i) = c
      BY DEF MessageInv, MessagesAreSingle
    <2>2. \A i \in Asks : Holds(i, m)' => i # l /\ Holds(i, m) /\ jobs'[i] = jobs[i]
      BY <1>1, <1>5
    <2>3. InBox(b, m)' => Holds(l, m) /\ ~jobs[l].ok
      BY <1>5, <1>6
    <2>4. /\ \A i, k \in Asks : Holds(i, m)' /\ Holds(k, m)' => i = k
          /\ Recorded(m)' => \A i \in Asks : Holds(i, m)' => jobs'[i].step = "back" /\ jobs'[i].ok
      BY <1>4, <2>1, <2>2
    <2>5. ASSUME NEW i \in Asks, Holds(i, m)', ~jobs'[i].live, NEW c \in Boxes
          PROVE  ~InBox(c, m)'
      <3>1. i # l /\ Holds(i, m) /\ ~jobs[i].live
        BY <2>2, <2>5
      <3>2. CASE c = b
        BY <2>1, <2>3, <3>1, <3>2
      <3>3. CASE c # b
        BY <1>5, <2>1, <3>1, <3>3
      <3>4. QED
        BY <3>2, <3>3
    <2>6. ASSUME Recorded(m)', NEW c \in Boxes, InBox(c, m)'
          PROVE  \E i \in Asks : Holds(i, m)' /\ jobs'[i].live /\ BoxOf(i) = c
      <3>1. Recorded(m)
        BY <1>4, <2>6
      <3>2. c # b
        BY <2>1, <2>3, <2>6, <3>1
      <3>3. PICK i \in Asks : Holds(i, m) /\ jobs[i].live /\ BoxOf(i) = c
        BY <1>5, <2>1, <2>6, <3>1, <3>2
      <3>4. i # l
        BY <1>0, <3>2, <3>3
      <3>5. QED
        BY <1>1, <1>5, <3>3, <3>4
    <2>7. QED
      BY <2>4, <2>5, <2>6
  <1>10. QED
    BY <1>1, <1>7, <1>8, <1>9, AskedStays DEF MessageInv

\* A page that is loaded again has empty boxes, and no event returns to it.
LEMMA ReloadingMessages ==
    ASSUME Base, MessageInv, Reloaded
    PROVE  MessageInv'
  <1> USE NamesOfListeners
  <1>1. /\ typed' = typed /\ SameQuestions /\ past'.twice = past.twice
        /\ \A c \in Boxes : page'.box[c] = Empty
    BY DEF Reloaded, SameQuestions, Base, BuiltIsOne
  <1>2. \A l \in Asks : /\ jobs'[l].m = jobs[l].m
                        /\ jobs'[l].m # Empty => jobs'[l].step = jobs[l].step
                                                 /\ jobs'[l].ok = jobs[l].ok
    <2> SUFFICES ASSUME NEW l \in Asks
                 PROVE  /\ jobs'[l].m = jobs[l].m
                        /\ jobs'[l].m # Empty => jobs'[l].step = jobs[l].step
                                                 /\ jobs'[l].ok = jobs[l].ok
      OBVIOUS
    <2>1. l \in Clicks /\ jobs[l] \in Events
      BY DEF Base, PageTyped
    <2>2. CASE ~InFlight(l) /\ jobs'[l] = NoEvent
      BY <2>1, <2>2, NoEventIs DEF InFlight, Base, Orderly
    <2>3. CASE InFlight(l) /\ jobs'[l] = [jobs[l] EXCEPT !.live = FALSE]
      BY <2>1, <2>3 DEF Events
    <2>4. QED
      BY <2>1, <2>2, <2>3 DEF Reloaded
  <1>3. \A m : Recorded(m)' <=> Recorded(m)
    BY <1>1, NothingRecorded
  <1>4. \A m \in Nat \ {Empty} : /\ \A l \in Asks : Holds(l, m)' <=> Holds(l, m)
                                 /\ \A c \in Boxes : ~InBox(c, m)'
    BY <1>1, <1>2 DEF Holds, InBox
  <1>5. MessagesAreTyped'
    <2>1. Empty \in 0..typed
      BY DEF Base, PageTyped, Empty
    <2>2. QED
      BY <1>1, <1>2, <1>3, <2>1 DEF MessageInv, MessagesAreTyped
  <1>6. BoxesAreApart'
    BY <1>4 DEF MessageInv, BoxesAreApart
  <1>7. SingleNext
    <2>1. \A m \in Nat \ {Empty} : \A l \in Asks :
             Holds(l, m)' => jobs'[l].step = jobs[l].step /\ jobs'[l].ok = jobs[l].ok
      BY <1>2 DEF Holds
    <2>2. QED
      BY <1>1, <1>3, <1>4, <2>1 DEF SingleNext, MessageInv, MessagesAreSingle
  <1>8. QED
    BY <1>1, <1>5, <1>6, <1>7, SingleSuffices, AskedStays DEF MessageInv

\* An event that ends unseen was in no box.
LEMMA DroppingMessages ==
    ASSUME Base, MessageInv, NEW l \in Asks, Dropped(l)
    PROVE  MessageInv'
  <1> USE NamesOfListeners
  <1>1. /\ ~jobs[l].live /\ page' = page /\ typed' = typed /\ past' = past /\ SameQuestions
        /\ jobs'[l] = NoEvent /\ \A k \in Asks \ {l} : jobs'[k] = jobs[k]
    BY DEF Dropped, SameQuestions
  <1>2. \A m : Recorded(m)' <=> Recorded(m)
    BY <1>1, NothingRecorded
  <1>3. /\ \A b, m : InBox(b, m)' <=> InBox(b, m)
        /\ \A m \in Nat \ {Empty} :
             /\ ~Holds(l, m)'
             /\ \A k \in Asks \ {l} : Holds(k, m)' <=> Holds(k, m)
    BY <1>1, NoEventIs DEF Holds, InBox
  <1>4. MessagesAreTyped'
    <2>1. \A k \in Asks : jobs'[k].m \in 0..typed
      BY <1>1, NoEventIs DEF MessageInv, MessagesAreTyped, Empty, Base, PageTyped
    <2>2. QED
      BY <1>1, <1>2, <2>1 DEF MessageInv, MessagesAreTyped
  <1>5. BoxesAreApart'
    BY <1>3 DEF MessageInv, BoxesAreApart
  <1>6. SingleNext
    <2>1. \A m \in Nat \ {Empty} : \A k \in Asks :
             /\ Holds(k, m)' => k # l /\ Holds(k, m) /\ jobs'[k] = jobs[k]
             /\ Holds(k, m) /\ jobs[k].live => Holds(k, m)' /\ jobs'[k] = jobs[k]
      BY <1>1, <1>3
    <2>2. QED
      BY <1>1, <1>2, <1>3, <2>1 DEF SingleNext, MessageInv, MessagesAreSingle
  <1>7. QED
    BY <1>1, <1>4, <1>5, <1>6, SingleSuffices, AskedStays DEF MessageInv

\* A step of the events that are no questions.
LEMMA OtherMessages ==
    ASSUME Base, MessageInv, SameQuestions, page'.box = page.box, typed' = typed,
           past.twice \subseteq past'.twice, \A l \in Asks : jobs'[l] = jobs[l]
    PROVE  MessageInv'
  BY SameMessages

LEMMA MessagesOfUsers ==
    ASSUME Base, MessageInv, UserSteps
    PROVE  MessageInv'
  <1> USE NamesOfListeners
  <1>1. ASSUME NEW s \in Conversations, Chosen(s)
        PROVE  MessageInv'
    <2>1. /\ SameQuestions /\ page'.box = page.box /\ typed' = typed
          /\ \A l \in Asks : jobs'[l] = jobs[l]
      BY <1>1 DEF Chosen, SameBut, SameQuestions
    <2>2. past'.twice = past.twice
      BY <1>1 DEF Chosen, Base, PageTyped, Pasts
    <2>3. QED
      BY <2>1, <2>2, OtherMessages
  <1>2. CASE SeedChosen
    <2>1. /\ SameQuestions /\ page'.box = page.box /\ typed' = typed /\ past' = past
          /\ \A l \in Asks : jobs'[l] = jobs[l]
      BY <1>2 DEF SeedChosen, SameBut, SameQuestions
    <2>2. QED
      BY <2>1, OtherMessages
  <1>3. CASE Ticked
    <2>1. /\ SameQuestions /\ page'.box = page.box /\ typed' = typed /\ past' = past
          /\ \A l \in Asks : jobs'[l] = jobs[l]
      BY <1>3 DEF Ticked, SameBut, SameQuestions
    <2>2. QED
      BY <2>1, OtherMessages
  <1>4. ASSUME NEW l \in Clicks \ Asks, Pressed(l)
        PROVE  MessageInv'
    <2>1. /\ SameQuestions /\ page'.box = page.box /\ typed' = typed
          /\ past.twice \subseteq past'.twice /\ \A k \in Asks : jobs'[k] = jobs[k]
      BY <1>4 DEF Pressed, SameQuestions
    <2>2. QED
      BY <2>1, OtherMessages
  <1>5. QED
    BY <1>1, <1>2, <1>3, <1>4, ReloadingMessages, TypingMessages, PressingMessages DEF UserSteps

LEMMA MessagesOfHandlers ==
    ASSUME Base, MessageInv, HandlerSteps
    PROVE  MessageInv'
  <1> USE NamesOfListeners
  <1>1. ASSUME NEW l \in Listeners, NEW ok \in BOOLEAN, NEW srv,
               HandlerReturns(l, ok, srv), SameTurns(srv), past'.twice = past.twice
        PROVE  MessageInv'
    <2>1. /\ server' = srv /\ page' = page /\ typed' = typed /\ jobs[l].step = "sent"
          /\ \A k \in Listeners \ {l} : jobs'[k] = jobs[k]
          /\ jobs'[l].m = jobs[l].m /\ jobs'[l].live = jobs[l].live
      BY <1>1, Returning DEF HandlerReturns, Sent
    <2>2. SameQuestions
      BY <1>1, <2>1 DEF SameTurns, SameQuestions
    <2>3. \A k \in Asks : /\ jobs'[k].m = jobs[k].m /\ jobs'[k].live = jobs[k].live
                          /\ jobs[k].step = "back" =>
                                jobs'[k].step = "back" /\ jobs'[k].ok = jobs[k].ok
      BY <2>1
    <2>4. QED
      BY <1>1, <2>1, <2>2, <2>3, SameMessages
  <1>2. ASSUME NEW l \in Listeners, NEW ok \in BOOLEAN, NEW srv, QuietReturns(l, ok, srv)
        PROVE  MessageInv'
    <2>1. past'.twice = past.twice
      BY <1>2 DEF QuietReturns, Base, PageTyped, Pasts
    <2>2. QED
      BY <1>1, <1>2, <2>1 DEF QuietReturns
  <1>3. ASSUME NEW l \in Listeners, NEW ok \in BOOLEAN, NEW srv, SaveReturns(l, ok, srv)
        PROVE  MessageInv'
    <2>1. past'.twice = past.twice
      BY <1>3 DEF SaveReturns, Base, PageTyped, Pasts
    <2>2. QED
      BY <1>1, <1>3, <2>1 DEF SaveReturns
  <1>4. ASSUME NEW s \in Conversations, NEW made \in BOOLEAN, NEW ok \in BOOLEAN,
               CreateReturns(s, made, ok)
        PROVE  MessageInv'
    <2>1. SameQuestions
      BY <1>4 DEF CreateReturns, SameQuestions, Base, NamesAreKnown
    <2>2. /\ page' = page /\ typed' = typed /\ past' = past
          /\ \A k \in Asks : jobs'[k] = jobs[k]
      BY <1>4 DEF CreateReturns
    <2>3. QED
      BY <2>1, <2>2, OtherMessages
  <1>5. QED
    BY <1>2, <1>3, <1>4, RecordingMessages DEF HandlerSteps

LEMMA MessagesOfShows ==
    ASSUME Base, MessageInv, ShowSteps
    PROVE  MessageInv'
  <1> USE NamesOfListeners
  <1>1. ASSUME NEW l \in Listeners \ Asks, NEW new \in Pages, Shows(l, new),
               new.box = page.box, past'.twice = past.twice
        PROVE  MessageInv'
    <2>1. /\ SameQuestions /\ page'.box = page.box /\ typed' = typed
          /\ \A k \in Asks : jobs'[k] = jobs[k]
      BY <1>1, Showing DEF SameQuestions
    <2>2. QED
      BY <1>1, <2>1, OtherMessages
  <1>2. ASSUME NEW new \in Pages, Selected(new)
        PROVE  MessageInv'
    <2>1. past'.twice = past.twice /\ "select" \in Listeners \ Asks
      BY <1>2 DEF Selected, Base, PageTyped, Pasts, Changes
    <2>2. QED
      BY <1>1, <1>2, <2>1 DEF Selected, SelectionShows
  <1>3. ASSUME NEW new \in Pages, CreationShows(new)
        PROVE  MessageInv'
    <2>1. past'.twice = past.twice
      BY <1>3 DEF CreationShows, Base, PageTyped, Pasts
    <2>2. QED
      BY <1>1, <1>3, <2>1 DEF CreationShows
  <1>4. ASSUME past' = past, NEW l \in {"controls", "inspect"}, NEW new \in Pages,
               FillingShows(l, new)
        PROVE  MessageInv'
    <2>1. l \in Listeners \ Asks
      BY DEF Changes
    <2>2. QED
      BY <1>1, <1>4, <2>1 DEF FillingShows
  <1>5. ASSUME past' = past, NEW l \in Clicks \ {"create"}, NEW new \in Pages,
               ClickShows(l, new)
        PROVE  MessageInv'
    <2>1. l \notin Asks => new.box = page.box /\ Shows(l, new)
      BY <1>5 DEF ClickShows
    <2>2. QED
      BY <1>1, <1>5, <2>1, ShowingMessages
  <1>6. ASSUME NEW l \in Listeners, Dropped(l)
        PROVE  MessageInv'
    <2>1. /\ SameQuestions /\ page' = page /\ typed' = typed /\ past' = past
          /\ l \notin Asks => \A k \in Asks : jobs'[k] = jobs[k]
      BY <1>6 DEF Dropped, SameQuestions
    <2>2. QED
      BY <1>6, <2>1, OtherMessages, DroppingMessages
  <1>7. QED
    BY <1>2, <1>3, <1>4, <1>5, <1>6 DEF ShowSteps

LEMMA MessageStep == Base /\ MessageInv /\ [PageNext]_pageVars => MessageInv'
  <1>1. CASE Base /\ MessageInv /\ PageNext
    BY <1>1, EveryStep, MessagesOfUsers, MessagesOfHandlers, MessagesOfShows
  <1>2. CASE Base /\ MessageInv /\ UNCHANGED pageVars
    <2>1. SameQuestions /\ page' = page /\ typed' = typed /\ past' = past /\ jobs' = jobs
      BY <1>2 DEF pageVars, SameQuestions
    <2>2. QED
      BY <1>2, <2>1, OtherMessages
  <1>3. QED
    BY <1>1, <1>2

-----------------------------------------------------------------------------
(* The page shows one conversation, and settings stay home.                *)

\* What no step but a choice, a selection and a filled form disturbs.
SameSelections ==
    /\ page'.active = page.active /\ page'.selector = page.selector
    /\ past'.mixed = past.mixed /\ past'.crossing = past.crossing
    /\ \A l \in {"select", "controls"} : /\ jobs'[l].s = jobs[l].s /\ jobs'[l].again = jobs[l].again
                                         /\ InFlight(l)' <=> InFlight(l)
FewerClicks == \A k \in Clicks : Under(k)' => Under(k) /\ jobs'[k].s = jobs[k].s
SameSaves ==
    Sent("save")' => /\ Sent("save") /\ jobs'["save"].odd = jobs["save"].odd
                     /\ jobs'["save"].of = jobs["save"].of /\ jobs'["save"].s = jobs["save"].s

LEMMA SettledShown ==
    ASSUME ShownInv, SameSelections, FewerClicks, SameSaves
    PROVE  SelectionsFollow' /\ ClicksAreOfIt' /\ SavesAreHome' /\ (Clear' <=> Clear)
  <1>1. SelectionsFollow'
    BY DEF ShownInv, SelectionsFollow, SameSelections
  <1>2. ClicksAreOfIt'
    BY DEF ShownInv, ClicksAreOfIt, SameSelections, FewerClicks
  <1>3. SavesAreHome'
    BY DEF ShownInv, SavesAreHome, SameSaves
  <1>4. Clear' <=> Clear
    BY DEF Clear, SameSelections
  <1>5. QED
    BY <1>1, <1>2, <1>3, <1>4

SameShell ==
    /\ page'.head = page.head /\ page'.chat.of = page.chat.of
    /\ page'.memory.of = page.memory.of /\ page'.form = page.form
SettingsKept ==
    /\ past.excused \subseteq past'.excused
    /\ \A s \in Conversations : server'[s].settings \in {server[s].settings, s}

LEMMA KeptAtHome ==
    ASSUME SettingsStayHome, SettingsKept
    PROVE  SettingsStayHome'
  BY DEF SettingsStayHome, SettingsKept

LEMMA SameShown ==
    ASSUME ShownInv, SameSelections, FewerClicks, SameSaves, SameShell, SettingsKept
    PROVE  ShownInv'
  <1>1. SelectionsFollow' /\ ClicksAreOfIt' /\ SavesAreHome' /\ (Clear' <=> Clear)
    BY SettledShown
  <1>2. OneIsShown'
    BY DEF ShownInv, OneIsShown, SameShell, SameSelections
  <1>3. FormFollows'
    BY <1>1 DEF ShownInv, FormFollows, SameShell, SameSelections
  <1>4. SettingsStayHome'
    BY KeptAtHome DEF ShownInv
  <1>5. QED
    BY <1>1, <1>2, <1>3, <1>4 DEF ShownInv

\* A choice and a new conversation select again, and the controls follow.
SelectsAgain(s) ==
    /\ page'.selector = s /\ past'.crossing = ((past.crossing /\ InFlight("select")) \/ Crossed(s))
    /\ \A k \in Clicks \ {"create"} : jobs'[k] = jobs[k]
    /\ \A l \in {"select", "controls"} : Follows(jobs[l], l, page')

LEMMA SelectingAgain ==
    ASSUME Base, ShownInv, NEW s, SelectsAgain(s), page' \in Pages
    PROVE  /\ \A l \in {"select", "controls"} :
                 /\ page.selector # s => InFlight(l)'
                 /\ page.selector = s => jobs'[l] = jobs[l]
                 /\ InFlight(l) => InFlight(l)' /\ jobs'[l].s = jobs[l].s
                 /\ InFlight(l)' /\ ~jobs'[l].again => jobs'[l].s = s
           /\ InFlight("select")' /\ ~past'.crossing =>
                 \A k \in Clicks : Under(k)' => jobs'[k].s = s /\ jobs'[k].s = jobs'["select"].s
           /\ SavesAreHome'
  <1> USE NamesOfListeners
  <1>1. ASSUME NEW l \in {"select", "controls"}
        PROVE  /\ page.selector # s => InFlight(l)'
               /\ page.selector = s => jobs'[l] = jobs[l]
               /\ InFlight(l) => InFlight(l)' /\ jobs'[l].s = jobs[l].s
               /\ InFlight(l)' /\ ~jobs'[l].again => jobs'[l].s = s
    <2>1. jobs[l] \in Events /\ l \in Listeners
      BY DEF Base, PageTyped, Changes
    <2>2. /\ page'.selector = s /\ Follows(jobs[l], l, page')
          /\ l \in Triggered(page, page') <=> page'.selector # page.selector
      BY TriggeredAre DEF SelectsAgain
    <2>3. CASE page.selector = s
      <3>1. jobs'[l] = jobs[l]
        BY <2>2, <2>3 DEF Follows
      <3>2. QED
        BY <2>3, <3>1 DEF InFlight, ShownInv, SelectionsFollow
    <2>4. CASE page.selector # s /\ ~InFlight(l)
      <3>1. jobs'[l] = Inputs(l, page')
        BY <2>2, <2>4 DEF Follows, InFlight
      <3>2. jobs'[l].step = "sent" /\ jobs'[l].s = s
        BY <2>1, <2>2, <3>1, InputsAre
      <3>3. QED
        BY <2>4, <3>2 DEF InFlight
    <2>5. CASE page.selector # s /\ InFlight(l)
      <3>1. jobs'[l] = [jobs[l] EXCEPT !.again = TRUE]
        BY <2>2, <2>5 DEF Follows, InFlight
      <3>2. jobs'[l].step = jobs[l].step /\ jobs'[l].s = jobs[l].s /\ jobs'[l].again
        BY <2>1, <3>1 DEF Events
      <3>3. QED
        BY <2>5, <3>2 DEF InFlight
    <2>6. QED
      BY <2>3, <2>4, <2>5
  <1>2. ASSUME InFlight("select")', ~past'.crossing, NEW k \in Clicks, Under(k)'
        PROVE  jobs'[k].s = s /\ jobs'[k].s = jobs'["select"].s
    <2>1. k # "create" /\ jobs'[k] = jobs[k] /\ Under(k)
      BY <1>2 DEF Under, SelectsAgain, InFlight
    <2>2. ~Crossed(s) /\ ~(past.crossing /\ InFlight("select"))
      BY <1>2 DEF SelectsAgain
    <2>3. jobs[k].s = s
      BY <2>1, <2>2 DEF Crossed, Under
    <2>4. CASE InFlight("select")
      <3>1. jobs[k].s = jobs["select"].s
        BY <2>1, <2>2, <2>4 DEF ShownInv, ClicksAreOfIt
      <3>2. jobs'["select"].s = jobs["select"].s
        BY <1>1, <2>4
      <3>3. QED
        BY <2>1, <2>3, <3>1, <3>2
    <2>5. CASE ~InFlight("select")
      <3>1. page.selector # s
        BY <1>1, <1>2, <2>5 DEF InFlight
      <3>2. jobs'["select"] = Inputs("select", page')
        BY <2>5, <3>1, TriggeredAre DEF SelectsAgain, Follows, InFlight
      <3>3. jobs'["select"].s = s
        BY <3>2, InputsAre DEF SelectsAgain, Changes
      <3>4. QED
        BY <2>1, <2>3, <3>3
    <2>6. QED
      BY <2>4, <2>5
  <1>3. SavesAreHome'
    BY DEF SelectsAgain, ShownInv, SavesAreHome, Sent
  <1>4. QED
    BY <1>1, <1>2, <1>3

LEMMA ChoosingShown ==
    ASSUME Base, ShownInv, NEW s \in Conversations, Chosen(s)
    PROVE  ShownInv'
  <1> USE NamesOfListeners
  <1>1. /\ page'.active = page.active /\ SameShell /\ page' \in Pages /\ page'.selector = s
        /\ server' = server
    BY DEF Chosen, SameBut, SameShell
  <1>2. /\ past'.crossing = ((past.crossing /\ InFlight("select")) \/ Crossed(s))
        /\ past'.mixed = past.mixed /\ past'.excused = past.excused
    BY DEF Chosen, Base, PageTyped, Pasts
  <1>3. SelectsAgain(s)
    BY <1>1, <1>2 DEF Chosen, SelectsAgain, Changes
  <1>4. /\ \A l \in {"select", "controls"} :
              /\ page.selector # s => InFlight(l)'
              /\ page.selector = s => jobs'[l] = jobs[l]
              /\ InFlight(l) => InFlight(l)' /\ jobs'[l].s = jobs[l].s
              /\ InFlight(l)' /\ ~jobs'[l].again => jobs'[l].s = s
        /\ InFlight("select")' /\ ~past'.crossing =>
              \A k \in Clicks : Under(k)' => jobs'[k].s = s /\ jobs'[k].s = jobs'["select"].s
        /\ SavesAreHome'
    BY <1>1, <1>3, SelectingAgain
  <1>5. OneIsShown'
    BY <1>1, <1>2 DEF ShownInv, OneIsShown, SameShell
  <1>6. SelectionsFollow'
    BY <1>1, <1>2, <1>4 DEF ShownInv, SelectionsFollow
  <1>7. ClicksAreOfIt'
    <2>1. \A k \in Clicks : Under(k)' => Under(k) /\ jobs'[k].s = jobs[k].s
      BY <1>3 DEF SelectsAgain, Under, InFlight
    <2>2. QED
      BY <1>1, <1>2, <1>4, <2>1 DEF ShownInv, ClicksAreOfIt
  <1>8. FormFollows'
    <2> SUFFICES ASSUME Clear', ~InFlight("controls")'
                 PROVE  page'.form \in {s, Nobody}
      BY <1>1 DEF FormFollows
    <2>1. page.selector = s /\ ~InFlight("controls") /\ (InFlight("select")' <=> InFlight("select"))
      BY <1>4 DEF InFlight
    <2>2. Clear
      BY <1>2, <2>1 DEF Clear
    <2>3. QED
      BY <1>1, <2>1, <2>2 DEF ShownInv, FormFollows, SameShell
  <1>9. SettingsStayHome'
    BY <1>1, <1>2, KeptAtHome DEF ShownInv, SettingsKept
  <1>10. QED
    BY <1>4, <1>5, <1>6, <1>7, <1>8, <1>9 DEF ShownInv

\* A conversation that is made is selected, and it is one the page did not list.
LEMMA CreatingShown ==
    ASSUME Base, ShownInv, NEW new \in Pages, CreationShows(new)
    PROVE  ShownInv'
  <1> USE NamesOfListeners
  <1>0. PICK s, ok : s = jobs["create"].s /\ ok = jobs["create"].ok
    OBVIOUS
  <1>1. /\ jobs["create"].step = "back" /\ jobs["create"].live /\ page' = new
        /\ server' = server /\ \A l \in Listeners \ {"create"} : Follows(jobs[l], l, new)
        /\ \A k \in Clicks : jobs'[k] = IF k = "create" THEN NoEvent ELSE jobs[k]
    BY Showing DEF CreationShows
  <1>2. FewerClicks /\ SameSaves
    BY <1>1, NoEventIs DEF FewerClicks, SameSaves, Under, InFlight, Sent
  <1>3. CASE ~ok
    <2>1. new = page /\ past' = past
      BY <1>0, <1>3 DEF CreationShows
    <2>2. \A l \in {"select", "controls"} : jobs'[l] = jobs[l]
      <3>1. "select" \notin Triggered(page, new) /\ "controls" \notin Triggered(page, new)
        BY <2>1, TriggeredAre
      <3>2. /\ Follows(jobs["select"], "select", new)
            /\ Follows(jobs["controls"], "controls", new)
        BY <1>1 DEF Changes
      <3>3. QED
        BY <3>1, <3>2 DEF Follows
    <2>3. SameSelections
      BY <1>1, <2>1, <2>2 DEF SameSelections, InFlight
    <2>4. SameShell
      BY <1>1, <2>1 DEF SameShell
    <2>5. SettingsKept
      BY <1>1, <2>1 DEF SettingsKept
    <2>6. QED
      BY <1>2, <2>3, <2>4, <2>5, SameShown
  <1>4. CASE ok
    <2>1. /\ page'.active = s /\ page'.head = s /\ page'.chat.of = s /\ page'.memory.of = s
          /\ page'.selector = s
          /\ past' = [past EXCEPT !.mixed = Crossed(s),
                                  !.crossing = (@ /\ InFlight("select")) \/ Crossed(s)]
      BY <1>0, <1>1, <1>4 DEF CreationShows
    <2>2. /\ past'.mixed = Crossed(s) /\ past'.excused = past.excused
          /\ past'.crossing = ((past.crossing /\ InFlight("select")) \/ Crossed(s))
      BY <2>1 DEF Base, PageTyped, Pasts
    <2>3. page.selector # s
      BY <1>0, <1>1, WorkbenchPageAssumption DEF Base, NewIsUnknown, NamesAreKnown, Listed
    <2>4. SelectsAgain(s)
      BY <1>1, <2>1, <2>2 DEF SelectsAgain, Changes
    <2>5. /\ \A l \in {"select", "controls"} :
                /\ page.selector # s => InFlight(l)'
                /\ page.selector = s => jobs'[l] = jobs[l]
                /\ InFlight(l) => InFlight(l)' /\ jobs'[l].s = jobs[l].s
                /\ InFlight(l)' /\ ~jobs'[l].again => jobs'[l].s = s
          /\ InFlight("select")' /\ ~past'.crossing =>
                \A k \in Clicks : Under(k)' => jobs'[k].s = s /\ jobs'[k].s = jobs'["select"].s
          /\ SavesAreHome'
      BY <1>1, <2>4, SelectingAgain
    <2>6. OneIsShown'
      BY <2>1 DEF OneIsShown
    <2>7. SelectionsFollow'
      BY <2>1, <2>3, <2>5 DEF SelectionsFollow
    <2>8. ClicksAreOfIt'
      <3>1. ASSUME ~Crossed(s), NEW k \in Clicks, Under(k)'
            PROVE  jobs'[k].s = s
        <4>1. k # "create" /\ jobs'[k] = jobs[k] /\ InFlight(k) /\ jobs[k].live
          BY <1>1, <3>1, NoEventIs DEF Under, InFlight
        <4>2. QED
          BY <3>1, <4>1 DEF Crossed
      <3>2. QED
        BY <2>1, <2>2, <2>5, <3>1 DEF ClicksAreOfIt
    <2>9. FormFollows'
      BY <2>3, <2>5 DEF FormFollows
    <2>10. SettingsStayHome'
      BY <1>1, <2>2, KeptAtHome DEF ShownInv, SettingsKept
    <2>11. QED
      BY <2>5, <2>6, <2>7, <2>8, <2>9, <2>10 DEF ShownInv
  <1>5. QED
    BY <1>3, <1>4

\* A page that is loaded again shows one conversation, and no event returns to it.
LEMMA ReloadingShown ==
    ASSUME Base, ShownInv, Reloaded
    PROVE  ShownInv'
  <1> USE NamesOfListeners
  <1>1. /\ page' = built /\ server' = server /\ past'.excused = past.excused
        /\ ~past'.mixed /\ ~past'.crossing
        /\ \A l \in {"select", "controls"} : ~InFlight(l)'
    BY NoEventIs DEF Reloaded, InFlight, Changes
  <1>2. \A k \in Clicks : ~Under(k)'
    <2> SUFFICES ASSUME NEW k \in Clicks, InFlight(k)' PROVE ~jobs'[k].live
      BY DEF Under
    <2>1. jobs'[k] = [jobs[k] EXCEPT !.live = FALSE] /\ jobs[k] \in Events
      BY NoEventIs DEF Reloaded, InFlight, Base, PageTyped
    <2>2. QED
      BY <2>1 DEF Events
  <1>3. SameSaves
    <2> SUFFICES ASSUME Sent("save")'
                 PROVE  /\ Sent("save") /\ jobs'["save"].odd = jobs["save"].odd
                        /\ jobs'["save"].of = jobs["save"].of /\ jobs'["save"].s = jobs["save"].s
      BY DEF SameSaves
    <2>1. jobs'["save"] = [jobs["save"] EXCEPT !.live = FALSE] /\ jobs["save"] \in Events
      BY NoEventIs DEF Reloaded, Sent, Base, PageTyped
    <2>2. QED
      BY <2>1 DEF Events, Sent
  <1>4. /\ built.head = built.active /\ built.chat.of = built.active
        /\ built.memory.of = built.active /\ built.form = built.active
        /\ built.selector = built.active
    BY DEF Base, BuiltIsOne, NamesAreKnown
  <1>5. OneIsShown' /\ SelectionsFollow' /\ ClicksAreOfIt' /\ FormFollows'
    BY <1>1, <1>2, <1>4 DEF OneIsShown, SelectionsFollow, ClicksAreOfIt, FormFollows
  <1>6. SavesAreHome'
    BY <1>3 DEF ShownInv, SavesAreHome, SameSaves
  <1>7. SettingsStayHome'
    BY <1>1, KeptAtHome DEF ShownInv, SettingsKept
  <1>8. QED
    BY <1>5, <1>6, <1>7 DEF ShownInv

\* A selection that is answered shows what is selected now, or is made again.
LEMMA SelectingShown ==
    ASSUME Base, ShownInv, NEW new \in Pages, Selected(new)
    PROVE  ShownInv'
  <1> USE NamesOfListeners
  <1>0. PICK s, ok, again : /\ s = jobs["select"].s /\ ok = jobs["select"].ok
                            /\ again = jobs["select"].again
    OBVIOUS
  <1>1. /\ "select" \in Listeners /\ "controls" \in Listeners \ {"select"} /\ Shows("select", new)
        /\ new.selector = page.selector /\ new.form = page.form
    BY DEF Selected, SelectionShows, Changes
  <1>2. /\ InFlight("select") /\ page' = new /\ server' = server
        /\ Follows(jobs["controls"], "controls", new)
        /\ IF "select" \in Triggered(page, new) \/ again
             THEN jobs'["select"] = Inputs("select", new) ELSE jobs'["select"] = NoEvent
        /\ \A k \in Clicks : k # "select" /\ jobs'[k] = jobs[k]
    <2>1. /\ jobs["select"].step = "back" /\ page' = new /\ server' = server
          /\ \A k \in Listeners \ {"select"} : Follows(jobs[k], k, new)
          /\ IF "select" \in Triggered(page, new) \/ again
               THEN jobs'["select"] = Inputs("select", new) ELSE jobs'["select"] = NoEvent
          /\ \A k \in Clicks : jobs'[k] = IF k = "select" THEN NoEvent ELSE jobs[k]
      BY <1>0, <1>1, Showing
    <2>2. "select" \notin Clicks
      BY DEF Changes
    <2>3. QED
      BY <1>1, <2>1, <2>2 DEF InFlight
  <1>3. /\ jobs'["controls"] = jobs["controls"]
        /\ again => InFlight("select")' /\ jobs'["select"].s = page.selector
        /\ ~again => ~InFlight("select")'
    <2>1. {"select", "controls"} \cap Triggered(page, new) = {}
      BY <1>1, TriggeredAre
    <2>2. QED
      BY <1>1, <1>2, <2>1, InputsAre, NoEventIs DEF Follows, InFlight
  <1>4. /\ past'.mixed = (~ok \/ past.crossing) /\ past'.crossing = past.crossing
        /\ past'.excused = past.excused
    BY <1>0 DEF Selected, Base, PageTyped, Pasts
  <1>5. \A k \in Clicks : Under(k)' <=> Under(k)
    BY <1>2 DEF Under, InFlight
  <1>6. ok => /\ page'.active = s /\ page'.head = s /\ page'.chat.of = s /\ page'.memory.of = s
    BY <1>0, <1>2 DEF Selected, SelectionShows
  <1>7. page'.selector = page.selector /\ page'.form = page.form
    BY <1>1, <1>2
  <1>8. ~again => s = page.selector
    BY <1>0, <1>2 DEF ShownInv, SelectionsFollow
  <1>9. ~past.crossing => \A k \in Clicks : Under(k) => jobs[k].s = page.selector /\ jobs[k].s = s
    BY <1>0, <1>2 DEF ShownInv, ClicksAreOfIt
  <1>10. OneIsShown'
    BY <1>4, <1>6 DEF OneIsShown
  <1>11. SelectionsFollow'
    <2>1. InFlight("controls")' <=> InFlight("controls")
      BY <1>3 DEF InFlight
    <2>2. QED
      BY <1>3, <1>4, <1>6, <1>7, <1>8, <2>1 DEF ShownInv, SelectionsFollow
  <1>12. ClicksAreOfIt'
    BY <1>2, <1>3, <1>4, <1>5, <1>6, <1>7, <1>9 DEF ClicksAreOfIt
  <1>13. FormFollows'
    <2>1. (Clear' => Clear) /\ (InFlight("controls")' <=> InFlight("controls"))
      BY <1>2, <1>3, <1>4 DEF Clear, InFlight
    <2>2. QED
      BY <1>7, <2>1 DEF ShownInv, FormFollows
  <1>14. SavesAreHome'
    BY <1>2 DEF ShownInv, SavesAreHome, Sent
  <1>15. SettingsStayHome'
    BY <1>2, <1>4, KeptAtHome DEF ShownInv, SettingsKept
  <1>16. QED
    BY <1>10, <1>11, <1>12, <1>13, <1>14, <1>15 DEF ShownInv

\* The form is filled with the settings of what is selected now, or read again.
LEMMA FillingShown ==
    ASSUME Base, ShownInv, NEW l \in {"controls", "inspect"}, NEW new \in Pages,
           FillingShows(l, new), past' = past
    PROVE  ShownInv'
  <1> USE NamesOfListeners
  <1>1. /\ l \in Listeners /\ {"select", "controls"} \subseteq Listeners /\ Shows(l, new)
        /\ l \notin Clicks
    BY DEF FillingShows, Changes
  <1>2. /\ page' = new /\ server' = server /\ InFlight(l)
        /\ \A k \in Listeners \ {l} : Follows(jobs[k], k, new)
        /\ IF l \in Triggered(page, new) \/ jobs[l].again
             THEN jobs'[l] = Inputs(l, new) ELSE jobs'[l] = NoEvent
        /\ \A k \in Clicks : jobs'[k] = IF k = l THEN NoEvent ELSE jobs[k]
    BY <1>1, Showing DEF InFlight
  <1>3. /\ new.selector = page.selector /\ new.active = page.active /\ new.head = page.head
        /\ new.chat = page.chat /\ new.memory = page.memory
    BY DEF FillingShows
  <1>4. \A k \in Clicks : jobs'[k] = jobs[k]
    BY <1>1, <1>2
  <1>5. FewerClicks /\ SameSaves
    BY <1>4 DEF FewerClicks, SameSaves, Under, InFlight, Sent
  <1>6. \A k \in {"select", "controls"} \ {l} : jobs'[k] = jobs[k]
    <2>1. {"select", "controls"} \cap Triggered(page, new) = {}
      BY <1>3, TriggeredAre
    <2>2. QED
      BY <1>1, <1>2, <2>1 DEF Follows
  <1>7. SettingsKept
    BY <1>2 DEF SettingsKept
  <1>8. CASE l = "inspect"
    <2>1. SameSelections
      BY <1>2, <1>3, <1>6, <1>8 DEF SameSelections, InFlight
    <2>2. SameShell
      BY <1>2, <1>3, <1>8 DEF SameShell, FillingShows
    <2>3. QED
      BY <1>5, <1>7, <2>1, <2>2, SameShown
  <1>9. CASE l = "controls"
    <2>1. PICK again : again = jobs["controls"].again
      OBVIOUS
    <2>2. /\ jobs'["select"] = jobs["select"]
          /\ again => InFlight("controls")' /\ jobs'["controls"].s = page'.selector
          /\ ~again => ~InFlight("controls")'
      BY <1>1, <1>2, <1>3, <1>6, <1>9, <2>1, TriggeredAre, InputsAre, NoEventIs DEF InFlight
    <2>3. page'.form \in {jobs["controls"].s, Nobody}
      BY <1>2, <1>9 DEF FillingShows
    <2>4. SelectionsFollow' /\ ClicksAreOfIt'
      BY <1>2, <1>3, <1>4, <2>2
         DEF ShownInv, SelectionsFollow, ClicksAreOfIt, InFlight, Under
    <2>5. OneIsShown'
      BY <1>2, <1>3 DEF ShownInv, OneIsShown
    <2>6. FormFollows'
      BY <1>2, <1>3, <1>9, <2>1, <2>2, <2>3 DEF ShownInv, FormFollows, SelectionsFollow
    <2>7. SavesAreHome'
      BY <1>5 DEF ShownInv, SavesAreHome, SameSaves
    <2>8. SettingsStayHome'
      BY <1>7, KeptAtHome DEF ShownInv
    <2>9. QED
      BY <2>4, <2>5, <2>6, <2>7, <2>8 DEF ShownInv
  <1>10. QED
    BY <1>8, <1>9

\* What the handler of a click shows is of the conversation that is shown.
LEMMA ClickingShown ==
    ASSUME Base, ShownInv, NEW l \in Clicks \ {"create"}, NEW new \in Pages,
           ClickShows(l, new), past' = past
    PROVE  ShownInv'
  <1> USE NamesOfListeners
  <1>0. PICK s : s = jobs[l].s
    OBVIOUS
  <1>1. /\ Shows(l, new) /\ new.selector = page.selector /\ new.active = page.active
        /\ new.head \in {page.head, s} /\ new.chat.of \in {page.chat.of, s}
        /\ new.memory.of \in {page.memory.of, s} /\ new.form \in {page.form, s}
    BY <1>0 DEF ClickShows
  <1>2. /\ Under(l) /\ page' = new /\ server' = server
        /\ \A k \in Listeners \ {l} : Follows(jobs[k], k, new)
        /\ \A k \in Clicks : jobs'[k] = IF k = l THEN NoEvent ELSE jobs[k]
    BY <1>1, Showing DEF Under, InFlight
  <1>3. FewerClicks /\ SameSaves
    BY <1>2, NoEventIs DEF FewerClicks, SameSaves, Under, InFlight, Sent
  <1>4. \A k \in {"select", "controls"} : jobs'[k] = jobs[k]
    <2>1. {"select", "controls"} \subseteq Listeners \ {l}
      BY DEF Changes
    <2>2. {"select", "controls"} \cap Triggered(page, new) = {}
      BY <1>1, TriggeredAre
    <2>3. QED
      BY <1>2, <2>1, <2>2 DEF Follows
  <1>5. SameSelections
    BY <1>1, <1>2, <1>4 DEF SameSelections, InFlight
  <1>6. SelectionsFollow' /\ ClicksAreOfIt' /\ SavesAreHome' /\ (Clear' <=> Clear)
    BY <1>3, <1>5, SettledShown
  <1>7. OneIsShown'
    <2>1. ~past.mixed => s = page.active
      BY <1>0, <1>2 DEF ShownInv, ClicksAreOfIt
    <2>2. QED
      BY <1>1, <1>2, <2>1 DEF ShownInv, OneIsShown
  <1>8. FormFollows'
    <2>1. Clear => s = page.selector
      BY <1>0, <1>2 DEF Clear, ShownInv, ClicksAreOfIt, SelectionsFollow
    <2>2. InFlight("controls")' <=> InFlight("controls")
      BY <1>4 DEF InFlight
    <2>3. QED
      BY <1>1, <1>2, <1>6, <2>1, <2>2 DEF ShownInv, FormFollows
  <1>9. SettingsStayHome'
    BY <1>2, KeptAtHome DEF ShownInv, SettingsKept
  <1>10. QED
    BY <1>6, <1>7, <1>8, <1>9 DEF ShownInv

\* A click is of the conversation that is shown.  Settings that are saved while nothing
\* is about to change are those the form was filled with, of that conversation.
LEMMA PressingShown ==
    ASSUME Base, ShownInv, NEW l \in Clicks, Pressed(l)
    PROVE  ShownInv'
  <1> USE NamesOfListeners
  <1>1. /\ l \in Listeners /\ l \notin Changes /\ ~InFlight(l) /\ page' = page /\ server' = server
        /\ \A k \in Listeners \ {l} : jobs'[k] = jobs[k]
        /\ jobs'[l].step = "sent" /\ jobs'[l].s = page.active /\ jobs'[l].odd = Unsettled(l)
        /\ l = "save" => jobs'[l].of = page.form
        /\ past'.mixed = past.mixed /\ past'.crossing = (past.crossing \/ InFlight("select"))
        /\ past'.excused = past.excused
    BY DEF Pressed
  <1>2. \A k \in {"select", "controls"} : jobs'[k] = jobs[k]
    BY <1>1 DEF Changes
  <1>3. \A k \in Clicks \ {l} : Under(k)' <=> Under(k)
    BY <1>1 DEF Under, InFlight
  <1>4. OneIsShown' /\ SelectionsFollow'
    BY <1>1, <1>2 DEF ShownInv, OneIsShown, SelectionsFollow, InFlight
  <1>5. ClicksAreOfIt'
    <2>1. past'.mixed = FALSE => \A k \in Clicks : Under(k)' => jobs'[k].s = page'.active
      BY <1>1, <1>3 DEF ShownInv, ClicksAreOfIt
    <2>2. InFlight("select")' => past'.crossing
      BY <1>1, <1>2 DEF InFlight
    <2>3. QED
      BY <2>1, <2>2 DEF ClicksAreOfIt
  <1>6. FormFollows'
    BY <1>1, <1>2 DEF ShownInv, FormFollows, Clear, InFlight
  <1>7. SavesAreHome'
    <2>1. CASE l = "save"
      <3> SUFFICES ASSUME ~Unsettled("save")
                   PROVE  page.form = page.active
        BY <1>1, <2>1 DEF SavesAreHome
      <3>1. /\ ~past.mixed /\ ~InFlight("controls") /\ ~InFlight("select")
            /\ page.form # Nobody
        BY DEF Unsettled
      <3>2. QED
        BY <3>1 DEF ShownInv, FormFollows, SelectionsFollow, Clear
    <2>2. CASE l # "save"
      BY <1>1, <2>2 DEF ShownInv, SavesAreHome, Sent
    <2>3. QED
      BY <2>1, <2>2
  <1>8. SettingsStayHome'
    BY <1>1, KeptAtHome DEF ShownInv, SettingsKept
  <1>9. QED
    BY <1>4, <1>5, <1>6, <1>7, <1>8 DEF ShownInv

LEMMA ShownOfUsers ==
    ASSUME Base, ShownInv, UserSteps
    PROVE  ShownInv'
  <1> USE NamesOfListeners
  <1>1. CASE SeedChosen
    <2>1. /\ page'.selector = page.selector /\ page'.active = page.active /\ SameShell
          /\ server' = server /\ past' = past /\ \A k \in Clicks : jobs'[k] = jobs[k]
          /\ \A k \in Listeners : Follows(jobs[k], k, page')
      BY <1>1 DEF SeedChosen, SameBut, SameShell
    <2>2. {"select", "controls"} \cap Triggered(page, page') = {}
      BY <2>1, TriggeredAre
    <2>3. \A l \in {"select", "controls"} : jobs'[l] = jobs[l]
      BY <2>1, <2>2 DEF Follows, Changes
    <2>4. SameSelections /\ FewerClicks /\ SameSaves /\ SettingsKept
      BY <2>1, <2>3 DEF SameSelections, FewerClicks, SameSaves, SettingsKept, Under, InFlight, Sent
    <2>5. QED
      BY <2>1, <2>4, SameShown
  <1>2. ASSUME SameBut({"box"}, page'), UNCHANGED <<server, jobs, past>>
        PROVE  ShownInv'
    <2>1. page'.selector = page.selector /\ page'.active = page.active /\ SameShell
      BY <1>2 DEF SameBut, SameShell
    <2>2. SameSelections /\ FewerClicks /\ SameSaves /\ SettingsKept
      BY <1>2, <2>1 DEF SameSelections, FewerClicks, SameSaves, SettingsKept, Under, InFlight, Sent
    <2>3. QED
      BY <2>1, <2>2, SameShown
  <1>3. CASE Ticked
    <2>1. SameBut({"box"}, page') /\ UNCHANGED <<server, jobs, past>>
      BY <1>3 DEF Ticked, SameBut
    <2>2. QED
      BY <1>2, <2>1
  <1>4. ASSUME NEW b \in Boxes, Entered(b)
        PROVE  ShownInv'
    BY <1>2, <1>4 DEF Entered
  <1>5. QED
    BY <1>1, <1>3, <1>4, ChoosingShown, ReloadingShown, PressingShown DEF UserSteps

LEMMA ShownOfHandlers ==
    ASSUME Base, ShownInv, HandlerSteps
    PROVE  ShownInv'
  <1> USE NamesOfListeners
  <1>1. ASSUME NEW l \in Listeners, NEW ok \in BOOLEAN, NEW srv, HandlerReturns(l, ok, srv),
               past'.mixed = past.mixed, past'.crossing = past.crossing, SettingsStayHome'
        PROVE  ShownInv'
    <2>1. /\ server' = srv /\ page' = page /\ jobs[l].step = "sent"
          /\ \A k \in Listeners \ {l} : jobs'[k] = jobs[k]
          /\ jobs'[l].step = "back" /\ jobs'[l].s = jobs[l].s /\ jobs'[l].again = jobs[l].again
          /\ jobs'[l].live = jobs[l].live
      BY <1>1, Returning DEF HandlerReturns, Sent
    <2>2. \A k \in Listeners : /\ InFlight(k)' <=> InFlight(k)
                               /\ jobs'[k].s = jobs[k].s /\ jobs'[k].again = jobs[k].again
                               /\ jobs'[k].live = jobs[k].live
      BY <2>1 DEF InFlight
    <2>3. SameSelections /\ FewerClicks
      BY <1>1, <2>1, <2>2 DEF SameSelections, FewerClicks, Under, Changes
    <2>4. SameSaves
      BY <2>1 DEF SameSaves, Sent
    <2>5. SelectionsFollow' /\ ClicksAreOfIt' /\ SavesAreHome' /\ (Clear' <=> Clear)
      BY <2>3, <2>4, SettledShown
    <2>6. OneIsShown' /\ FormFollows'
      BY <1>1, <2>1, <2>2, <2>5 DEF ShownInv, OneIsShown, FormFollows, Changes
    <2>7. QED
      BY <1>1, <2>5, <2>6 DEF ShownInv
  <1>2. ASSUME NEW l \in Listeners, NEW ok \in BOOLEAN, NEW srv, HandlerReturns(l, ok, srv),
               past'.mixed = past.mixed, past'.crossing = past.crossing,
               past'.excused = past.excused, SameSettings(srv)
        PROVE  ShownInv'
    <2>1. server' = srv
      BY <1>2, Returning DEF HandlerReturns
    <2>2. SettingsStayHome'
      BY <1>2, <2>1, KeptAtHome DEF ShownInv, SettingsKept, SameSettings
    <2>3. QED
      BY <1>1, <1>2, <2>2
  <1>3. ASSUME NEW l \in Listeners, NEW ok \in BOOLEAN, NEW srv, QuietReturns(l, ok, srv)
        PROVE  ShownInv'
    <2>1. /\ past'.mixed = past.mixed /\ past'.crossing = past.crossing
          /\ past'.excused = past.excused
      BY <1>3 DEF QuietReturns, Base, PageTyped, Pasts
    <2>2. QED
      BY <1>2, <1>3, <2>1 DEF QuietReturns
  <1>4. ASSUME NEW l \in Listeners, NEW ok \in BOOLEAN, NEW srv, TurnReturns(l, ok, srv)
        PROVE  ShownInv'
    <2>1. /\ past'.mixed = past.mixed /\ past'.crossing = past.crossing
          /\ past'.excused = past.excused
      BY <1>4 DEF TurnReturns, Base, PageTyped, Pasts
    <2>2. QED
      BY <1>2, <1>4, <2>1 DEF TurnReturns
  <1>5. ASSUME NEW l \in Listeners, NEW ok \in BOOLEAN, NEW srv, SaveReturns(l, ok, srv)
        PROVE  ShownInv'
    <2>0. PICK s, odd : s = jobs[l].s /\ odd = jobs[l].odd
      OBVIOUS
    <2>1. /\ HandlerReturns(l, ok, srv) /\ l \in {"preset", "save"} /\ s \in Conversations
          /\ srv[s].settings = (IF l = "preset" THEN s ELSE jobs[l].of)
          /\ \A t \in Conversations \ {s} : srv[t].settings = server[t].settings
          /\ past' = [past EXCEPT !.excused = IF odd THEN @ \cup {s} ELSE @ \ {s}]
      BY <1>5, <2>0 DEF SaveReturns
    <2>2. /\ past'.mixed = past.mixed /\ past'.crossing = past.crossing
          /\ past'.excused = (IF odd THEN past.excused \cup {s} ELSE past.excused \ {s})
      BY <2>1 DEF Base, PageTyped, Pasts
    <2>3. server' = srv /\ Sent(l)
      BY <2>1, Returning DEF HandlerReturns
    <2>4. ~odd => srv[s].settings = s
      BY <2>0, <2>1, <2>3 DEF ShownInv, SavesAreHome
    <2>5. SettingsStayHome'
      BY <2>1, <2>2, <2>3, <2>4 DEF ShownInv, SettingsStayHome
    <2>6. QED
      BY <1>1, <2>1, <2>2, <2>5
  <1>6. ASSUME NEW s \in Conversations, NEW made \in BOOLEAN, NEW ok \in BOOLEAN,
               CreateReturns(s, made, ok)
        PROVE  ShownInv'
    <2>1. /\ page' = page /\ past' = past /\ \A k \in Listeners \ {"create"} : jobs'[k] = jobs[k]
          /\ jobs["create"].step = "sent" /\ jobs'["create"].step = "back"
      BY <1>6 DEF CreateReturns
    <2>2. SameSelections /\ FewerClicks /\ SameSaves /\ SameShell
      BY <2>1 DEF SameSelections, FewerClicks, SameSaves, SameShell, Under, InFlight, Sent, Changes
    <2>3. SettingsKept
      BY <1>6 DEF CreateReturns, SettingsKept
    <2>4. QED
      BY <2>2, <2>3, SameShown
  <1>7. QED
    BY <1>3, <1>4, <1>5, <1>6 DEF HandlerSteps

LEMMA ShownOfShows ==
    ASSUME Base, ShownInv, ShowSteps
    PROVE  ShownInv'
  <1> USE NamesOfListeners
  <1>1. ASSUME NEW l \in Listeners, Dropped(l)
        PROVE  ShownInv'
    <2>1. /\ l \in Clicks /\ page' = page /\ past' = past /\ server' = server
          /\ jobs'[l] = NoEvent /\ \A k \in Listeners \ {l} : jobs'[k] = jobs[k]
      BY <1>1 DEF Dropped
    <2>2. FewerClicks /\ SameSaves
      BY <2>1, NoEventIs DEF FewerClicks, SameSaves, Under, InFlight, Sent
    <2>3. SameSelections /\ SameShell /\ SettingsKept
      BY <2>1 DEF SameSelections, SameShell, SettingsKept, InFlight, Changes
    <2>4. QED
      BY <2>2, <2>3, SameShown
  <1>2. QED
    BY <1>1, SelectingShown, CreatingShown, FillingShown, ClickingShown DEF ShowSteps

LEMMA ShownStep == Base /\ ShownInv /\ [PageNext]_pageVars => ShownInv'
  <1>1. CASE Base /\ ShownInv /\ PageNext
    BY <1>1, EveryStep, ShownOfUsers, ShownOfHandlers, ShownOfShows
  <1>2. CASE Base /\ ShownInv /\ UNCHANGED pageVars
    <2>1. page' = page /\ server' = server /\ past' = past /\ jobs' = jobs
      BY <1>2 DEF pageVars
    <2>2. SameSelections /\ FewerClicks /\ SameSaves /\ SameShell /\ SettingsKept
      BY <2>1 DEF SameSelections, FewerClicks, SameSaves, SameShell, SettingsKept, Under,
                  InFlight, Sent
    <2>3. QED
      BY <1>2, <2>2, SameShown
  <1>3. QED
    BY <1>1, <1>2

-----------------------------------------------------------------------------
(* What is recorded of a seed is recorded of the one whose story is shown. *)

SameActions ==
    \A l \in SeedActions :
        Sent(l)' => /\ Sent(l) /\ jobs'[l].picked = jobs[l].picked /\ jobs'[l].s = jobs[l].s
                    /\ jobs'[l].odd = jobs[l].odd /\ jobs'[l].of = jobs[l].of

LEMMA ActionsStay ==
    ASSUME StoryInv, SameActions, past'.blind = past.blind
    PROVE  ActionsAreOnIt' /\ SeedActionsAreSeen'
  BY DEF StoryInv, ActionsAreOnIt, SeedActionsAreSeen, SameActions

\* A seed that is picked, or no longer, is inspected again.
LEMMA InspectingAgain ==
    ASSUME Base, StoryInv, page' \in Pages, Follows(jobs["inspect"], "inspect", page'),
           page'.active = page.active \/ ~page'.picked
    PROVE  /\ InspectionFollows'
           /\ ~InFlight("inspect")' => page'.picked = page.picked /\ ~InFlight("inspect")
  <1> DEFINE l == "inspect"
  <1>1. jobs[l] \in Events /\ l \in Listeners
    BY NamesOfListeners DEF Base, PageTyped, Changes
  <1>2. l \in Triggered(page, page') <=> page'.picked # page.picked
    BY TriggeredAre
  <1>3. CASE page'.picked = page.picked
    <2>1. jobs'[l] = jobs[l]
      BY <1>2, <1>3 DEF Follows
    <2>2. QED
      BY <1>3, <2>1 DEF StoryInv, InspectionFollows, InFlight
  <1>4. CASE page'.picked # page.picked /\ ~InFlight(l)
    <2>1. jobs'[l] = Inputs(l, page')
      BY <1>2, <1>4 DEF Follows, InFlight
    <2>2. /\ jobs'[l].step = "sent" /\ jobs'[l].s = page'.active
          /\ jobs'[l].picked = page'.picked
      BY <1>1, <2>1, InputsAre
    <2>3. QED
      BY <2>2 DEF InspectionFollows, InFlight
  <1>5. CASE page'.picked # page.picked /\ InFlight(l)
    <2>1. jobs'[l] = [jobs[l] EXCEPT !.again = TRUE]
      BY <1>2, <1>5 DEF Follows, InFlight
    <2>2. jobs'[l].step = jobs[l].step /\ jobs'[l].again
      BY <1>1, <2>1 DEF Events
    <2>3. QED
      BY <1>5, <2>2 DEF InspectionFollows, InFlight
  <1>6. QED
    BY <1>3, <1>4, <1>5

LEMMA SameStory ==
    ASSUME StoryInv, SameActions, past'.blind = past.blind, past'.mixed = past.mixed,
           page'.active = page.active, page'.picked = page.picked, page'.story = page.story,
           InFlight("inspect")' <=> InFlight("inspect"),
           jobs'["inspect"].again = jobs["inspect"].again,
           jobs'["inspect"].picked = jobs["inspect"].picked,
           jobs'["inspect"].s = jobs["inspect"].s
    PROVE  StoryInv'
  <1>1. InspectionFollows' /\ StoryFollows'
    BY DEF StoryInv, InspectionFollows, StoryFollows
  <1>2. QED
    BY <1>1, ActionsStay DEF StoryInv

LEMMA StoryOfUsers ==
    ASSUME Base, StoryInv, UserSteps
    PROVE  StoryInv'
  <1> USE NamesOfListeners
  <1>1. ASSUME NEW s \in Conversations, Chosen(s)
        PROVE  StoryInv'
    <2>1. /\ page'.active = page.active /\ page'.picked = page.picked /\ page'.story = page.story
          /\ \A k \in Clicks : jobs'[k] = jobs[k]
          /\ \A k \in Listeners : Follows(jobs[k], k, page')
      BY <1>1 DEF Chosen, SameBut
    <2>2. past'.blind = past.blind /\ past'.mixed = past.mixed
      BY <1>1 DEF Chosen, Base, PageTyped, Pasts
    <2>3. jobs'["inspect"] = jobs["inspect"]
      BY <2>1, TriggeredAre DEF Follows, Changes
    <2>4. SameActions
      BY <2>1 DEF SameActions, Sent
    <2>5. QED
      BY <2>1, <2>2, <2>3, <2>4, SameStory DEF InFlight
  <1>2. CASE SeedChosen
    <2>1. /\ page' \in Pages /\ page'.active = page.active /\ page'.picked
          /\ page'.story = page.story /\ past' = past
          /\ \A k \in Clicks : jobs'[k] = jobs[k]
          /\ \A k \in Listeners : Follows(jobs[k], k, page')
      BY <1>2 DEF SeedChosen, SameBut
    <2>2. Follows(jobs["inspect"], "inspect", page')
      BY <2>1 DEF Changes
    <2>3. InspectionFollows' /\ StoryFollows'
      BY <2>1, <2>2, InspectingAgain DEF StoryInv, StoryFollows
    <2>4. SameActions
      BY <2>1 DEF SameActions, Sent
    <2>5. QED
      BY <2>1, <2>3, <2>4, ActionsStay DEF StoryInv
  <1>3. CASE Ticked \/ \E b \in Boxes : Entered(b)
    <2>1. /\ page'.active = page.active /\ page'.picked = page.picked /\ page'.story = page.story
          /\ past' = past /\ jobs' = jobs
      BY <1>3 DEF Ticked, Entered, SameBut
    <2>2. SameActions
      BY <2>1 DEF SameActions, Sent
    <2>3. QED
      BY <2>1, <2>2, SameStory DEF InFlight
  <1>4. ASSUME NEW l \in Clicks, Pressed(l)
        PROVE  StoryInv'
    <2>1. /\ page' = page /\ past'.mixed = past.mixed /\ past'.blind = past.blind
          /\ \A k \in Listeners \ {l} : jobs'[k] = jobs[k]
          /\ jobs'[l].s = page.active /\ jobs'[l].odd = Unsettled(l)
          /\ l \in SeedActions => jobs'[l].picked = page.picked /\ jobs'[l].of = page.story.of
      BY <1>4 DEF Pressed
    <2>2. jobs'["inspect"] = jobs["inspect"]
      BY <2>1 DEF Changes
    <2>3. InspectionFollows' /\ StoryFollows' /\ SeedActionsAreSeen'
      BY <2>1, <2>2 DEF StoryInv, InspectionFollows, StoryFollows, SeedActionsAreSeen, InFlight
    <2>4. ASSUME NEW k \in SeedActions, Sent(k)', jobs'[k].picked, jobs'[k].s # Nobody,
                 ~jobs'[k].odd
          PROVE  jobs'[k].of = jobs'[k].s
      <3>1. CASE k # l
        BY <2>1, <2>4, <3>1 DEF StoryInv, ActionsAreOnIt, Sent
      <3>2. CASE k = l
        <4>1. /\ ~past.mixed /\ ~InFlight("inspect")
              /\ page.story.seed \notin {"unread", "unpicked"}
          BY <2>1, <2>4, <3>2 DEF Unsettled
        <4>2. page.picked /\ page.active # Nobody
          BY <2>1, <2>4, <3>2
        <4>3. page.story.of = page.active
          BY <4>1, <4>2 DEF StoryInv, StoryFollows
        <4>4. QED
          BY <2>1, <3>2, <4>3
      <3>3. QED
        BY <3>1, <3>2
    <2>5. QED
      BY <2>3, <2>4 DEF StoryInv, ActionsAreOnIt
  <1>5. CASE Reloaded
    <2>1. /\ page' = built /\ past'.blind = past.blind /\ ~InFlight("inspect")' /\ ~built.picked
      BY <1>5, NoEventIs DEF Reloaded, InFlight, Changes, Base, BuiltIsOne
    <2>2. SameActions
      <3> SUFFICES ASSUME NEW l \in SeedActions, Sent(l)'
                   PROVE  /\ Sent(l) /\ jobs'[l].picked = jobs[l].picked /\ jobs'[l].s = jobs[l].s
                          /\ jobs'[l].odd = jobs[l].odd /\ jobs'[l].of = jobs[l].of
        BY DEF SameActions
      <3>1. jobs'[l] = [jobs[l] EXCEPT !.live = FALSE] /\ jobs[l] \in Events
        BY <1>5, NoEventIs DEF Reloaded, Sent, Base, PageTyped
      <3>2. QED
        BY <3>1 DEF Events, Sent
    <2>3. QED
      BY <2>1, <2>2, ActionsStay DEF StoryInv, InspectionFollows, StoryFollows
  <1>6. QED
    BY <1>1, <1>2, <1>3, <1>4, <1>5 DEF UserSteps

LEMMA StoryOfHandlers ==
    ASSUME Base, StoryInv, HandlerSteps
    PROVE  StoryInv'
  <1> USE NamesOfListeners
  <1>1. ASSUME NEW l \in Listeners, NEW ok \in BOOLEAN, NEW srv, HandlerReturns(l, ok, srv),
               past'.blind = past.blind, past'.mixed = past.mixed
        PROVE  StoryInv'
    <2>1. /\ page' = page /\ jobs[l].step = "sent"
          /\ \A k \in Listeners \ {l} : jobs'[k] = jobs[k]
          /\ jobs'[l].step = "back" /\ jobs'[l].s = jobs[l].s /\ jobs'[l].again = jobs[l].again
          /\ jobs'[l].picked = jobs[l].picked
      BY <1>1, Returning DEF HandlerReturns, Sent
    <2>2. SameActions
      BY <2>1 DEF SameActions, Sent
    <2>3. /\ InFlight("inspect")' <=> InFlight("inspect")
          /\ jobs'["inspect"].again = jobs["inspect"].again
          /\ jobs'["inspect"].picked = jobs["inspect"].picked
          /\ jobs'["inspect"].s = jobs["inspect"].s
      BY <2>1 DEF InFlight, Changes
    <2>4. QED
      BY <1>1, <2>1, <2>2, <2>3, SameStory
  <1>2. ASSUME NEW l \in Listeners, NEW ok \in BOOLEAN, NEW srv, QuietReturns(l, ok, srv)
        PROVE  StoryInv'
    <2>1. past \in Pasts /\ Sent(l)
      BY <1>2 DEF Base, PageTyped, QuietReturns, HandlerReturns
    <2>2. past'.mixed = past.mixed
      BY <1>2, <2>1 DEF QuietReturns, Pasts
    <2>3. past'.blind = past.blind
      <3>1. CASE past' = past \/ past' = [past EXCEPT !.behind = FALSE]
        BY <2>1, <3>1 DEF Pasts
      <3>2. CASE /\ l \in SeedActions
                 /\ past' = [past EXCEPT !.blind = @ \/ (/\ jobs[l].picked /\ jobs[l].s # Nobody
                                                         /\ jobs[l].of # jobs[l].s /\ ~jobs[l].odd)]
        <4>1. ~(/\ jobs[l].picked /\ jobs[l].s # Nobody
                /\ jobs[l].of # jobs[l].s /\ ~jobs[l].odd)
          BY <2>1, <3>2 DEF StoryInv, ActionsAreOnIt
        <4>2. past'.blind = (past.blind \/ FALSE)
          BY <2>1, <3>2, <4>1 DEF Pasts
        <4>3. past.blind \in BOOLEAN
          BY <2>1 DEF Pasts
        <4>4. QED
          BY <4>2, <4>3
      <3>3. QED
        BY <1>2, <3>1, <3>2 DEF QuietReturns
    <2>4. QED
      BY <1>1, <1>2, <2>2, <2>3 DEF QuietReturns
  <1>3. ASSUME NEW l \in Listeners, NEW ok \in BOOLEAN, NEW srv,
               TurnReturns(l, ok, srv) \/ SaveReturns(l, ok, srv)
        PROVE  StoryInv'
    <2>1. past \in Pasts /\ HandlerReturns(l, ok, srv)
      BY <1>3 DEF Base, PageTyped, TurnReturns, SaveReturns
    <2>2. past'.mixed = past.mixed /\ past'.blind = past.blind
      BY <1>3, <2>1 DEF TurnReturns, SaveReturns, Pasts
    <2>3. QED
      BY <1>1, <2>1, <2>2
  <1>4. ASSUME NEW s \in Conversations, NEW made \in BOOLEAN, NEW ok \in BOOLEAN,
               CreateReturns(s, made, ok)
        PROVE  StoryInv'
    <2>1. /\ page' = page /\ past' = past /\ \A k \in Listeners \ {"create"} : jobs'[k] = jobs[k]
      BY <1>4 DEF CreateReturns
    <2>2. SameActions /\ jobs'["inspect"] = jobs["inspect"]
      BY <2>1 DEF SameActions, Sent, Changes
    <2>3. QED
      BY <2>1, <2>2, SameStory DEF InFlight
  <1>5. QED
    BY <1>2, <1>3, <1>4 DEF HandlerSteps

LEMMA StoryOfShows ==
    ASSUME Base, ShownInv, StoryInv, ShowSteps
    PROVE  StoryInv'
  <1> USE NamesOfListeners
  <1>1. ASSUME NEW l \in Listeners, NEW new \in Pages, Shows(l, new)
        PROVE  /\ page' = new /\ InFlight(l) /\ jobs[l].step = "back" /\ SameActions
               /\ l # "inspect" => Follows(jobs["inspect"], "inspect", page')
    <2>1. /\ page' = new /\ jobs[l].step = "back"
          /\ \A k \in Listeners \ {l} : Follows(jobs[k], k, new)
          /\ \A k \in Clicks : jobs'[k] = IF k = l THEN NoEvent ELSE jobs[k]
      BY <1>1, Showing
    <2>2. SameActions
      BY <2>1, NoEventIs DEF SameActions, Sent
    <2>3. QED
      BY <2>1, <2>2 DEF InFlight, Changes
  <1>2. ASSUME NEW l \in Listeners \ {"inspect"}, NEW new \in Pages, Shows(l, new), ~new.picked,
               past'.blind = past.blind
        PROVE  StoryInv'
    <2>1. /\ page' = new /\ SameActions /\ Follows(jobs["inspect"], "inspect", page')
      BY <1>1, <1>2
    <2>2. InspectionFollows' /\ StoryFollows'
      BY <1>2, <2>1, InspectingAgain DEF StoryFollows
    <2>3. QED
      BY <1>2, <2>1, <2>2, ActionsStay DEF StoryInv
  <1>3. ASSUME NEW l \in Listeners \ {"inspect"}, NEW new \in Pages, Shows(l, new),
               new.active = page.active, new.picked = page.picked, new.story = page.story,
               past'.blind = past.blind, past'.mixed = past.mixed \/ past'.mixed
        PROVE  StoryInv'
    <2>1. /\ page' = new /\ SameActions /\ Follows(jobs["inspect"], "inspect", page')
      BY <1>1, <1>3
    <2>2. InspectionFollows' /\ (~InFlight("inspect")' => ~InFlight("inspect"))
      BY <1>3, <2>1, InspectingAgain
    <2>3. StoryFollows'
      BY <1>3, <2>1, <2>2 DEF StoryInv, StoryFollows
    <2>4. QED
      BY <1>3, <2>1, <2>2, <2>3, ActionsStay DEF StoryInv
  <1>4. ASSUME NEW new \in Pages, Selected(new)
        PROVE  StoryInv'
    <2>1. /\ past'.blind = past.blind /\ "select" \in Listeners \ {"inspect"} /\ Shows("select", new)
          /\ ~jobs["select"].ok => past'.mixed
      BY <1>4 DEF Selected, SelectionShows, Base, PageTyped, Pasts, Changes
    <2>2. ~new.picked \/ (~jobs["select"].ok /\ new = page)
      BY <1>4 DEF Selected, SelectionShows
    <2>3. QED
      BY <1>2, <1>3, <2>1, <2>2
  <1>5. ASSUME NEW new \in Pages, CreationShows(new)
        PROVE  StoryInv'
    <2>1. past'.blind = past.blind /\ "create" \in Listeners \ {"inspect"} /\ Shows("create", new)
      BY <1>5 DEF CreationShows, Base, PageTyped, Pasts, Changes
    <2>2. ~new.picked \/ (past' = past /\ new = page)
      BY <1>5 DEF CreationShows
    <2>3. QED
      BY <1>2, <1>3, <2>1, <2>2
  <1>6. ASSUME past' = past, NEW new \in Pages, FillingShows("controls", new)
        PROVE  StoryInv'
    <2>1. /\ "controls" \in Listeners \ {"inspect"} /\ Shows("controls", new)
          /\ new.active = page.active /\ new.picked = page.picked /\ new.story = page.story
      BY <1>6 DEF FillingShows, Changes
    <2>2. QED
      BY <1>3, <1>6, <2>1
  <1>7. ASSUME past' = past, NEW new \in Pages, FillingShows("inspect", new)
        PROVE  StoryInv'
    <2> DEFINE l == "inspect"
    <2>0. PICK j : j = jobs[l]
      OBVIOUS
    <2>1. /\ l \in Listeners /\ Shows(l, new) /\ new.active = page.active
          /\ new.picked = page.picked
          /\ \/ new.story.of = j.s \/ new.story.seed = "unread"
             \/ j.s = Nobody \/ ~j.picked
      BY <1>7, <2>0 DEF FillingShows, Changes
    <2>2. page' = new /\ InFlight(l) /\ SameActions
      BY <1>1, <2>1
    <2>3. IF j.again THEN jobs'[l] = Inputs(l, new) ELSE jobs'[l] = NoEvent
      <3>1. l \notin Triggered(page, new)
        BY <2>1, TriggeredAre
      <3>2. QED
        BY <2>0, <2>1, <3>1, Showing
    <2>4. CASE j.again
      <3>1. /\ jobs'[l].step = "sent" /\ jobs'[l].picked = page'.picked
            /\ jobs'[l].s = page'.active
        BY <2>1, <2>2, <2>3, <2>4, InputsAre
      <3>2. QED
        BY <1>7, <2>2, <3>1, ActionsStay
           DEF StoryInv, InspectionFollows, StoryFollows, InFlight
    <2>5. CASE ~j.again
      <3>1. ~InFlight(l)'
        BY <2>3, <2>5, NoEventIs DEF InFlight
      <3>2. j.picked = page.picked /\ (page.picked => j.s = page.active)
        BY <2>0, <2>2, <2>5 DEF StoryInv, InspectionFollows
      <3>3. StoryFollows'
        BY <2>1, <2>2, <3>2 DEF StoryFollows
      <3>4. QED
        BY <1>7, <2>2, <3>1, <3>3, ActionsStay DEF StoryInv, InspectionFollows
    <2>6. QED
      BY <2>4, <2>5
  <1>8. ASSUME past' = past, NEW l \in Clicks \ {"create"}, NEW new \in Pages,
               ClickShows(l, new)
        PROVE  StoryInv'
    <2>0. PICK s : s = jobs[l].s
      OBVIOUS
    <2>1. /\ l \in Listeners \ {"inspect"} /\ Shows(l, new) /\ new.active = page.active
          /\ \/ ~new.picked \/ s = Nobody
             \/ new.picked = page.picked /\ new.story = page.story
             \/ new.story.of = s
             \/ new.story.seed \in {"unread", "unpicked"}
      BY <1>8, <2>0 DEF ClickShows, Changes
    <2>2. /\ page' = new /\ InFlight(l) /\ SameActions
          /\ Follows(jobs["inspect"], "inspect", page')
      BY <1>1, <2>1
    <2>3. /\ InspectionFollows'
          /\ ~InFlight("inspect")' => page'.picked = page.picked /\ ~InFlight("inspect")
      BY <2>1, <2>2, InspectingAgain
    <2>4. ~past.mixed => s = page.active
      BY <2>0, <2>1, <2>2 DEF ShownInv, ClicksAreOfIt, Under, Shows
    <2>5. StoryFollows'
      BY <1>8, <2>1, <2>2, <2>3, <2>4 DEF StoryInv, StoryFollows
    <2>6. QED
      BY <1>8, <2>2, <2>3, <2>5, ActionsStay DEF StoryInv
  <1>9. ASSUME NEW l \in Listeners, Dropped(l)
        PROVE  StoryInv'
    <2>1. /\ l \in Clicks /\ page' = page /\ past' = past /\ jobs'[l] = NoEvent
          /\ \A k \in Listeners \ {l} : jobs'[k] = jobs[k]
      BY <1>9 DEF Dropped
    <2>2. SameActions /\ jobs'["inspect"] = jobs["inspect"]
      BY <2>1, NoEventIs DEF SameActions, Sent, Changes
    <2>3. QED
      BY <2>1, <2>2, SameStory DEF InFlight
  <1>10. QED
    BY <1>4, <1>5, <1>6, <1>7, <1>8, <1>9 DEF ShowSteps

LEMMA StoryStep == Base /\ ShownInv /\ StoryInv /\ [PageNext]_pageVars => StoryInv'
  <1>1. CASE Base /\ ShownInv /\ StoryInv /\ PageNext
    BY <1>1, EveryStep, StoryOfUsers, StoryOfHandlers, StoryOfShows
  <1>2. CASE StoryInv /\ UNCHANGED pageVars
    <2>1. page' = page /\ past' = past /\ jobs' = jobs
      BY <1>2 DEF pageVars
    <2>2. SameActions
      BY <2>1 DEF SameActions, Sent
    <2>3. QED
      BY <1>2, <2>1, <2>2, SameStory DEF InFlight
  <1>3. QED
    BY <1>1, <1>2

-----------------------------------------------------------------------------
(* Once nothing is under way the chat has all turns.                       *)

SelectionStays ==
    /\ InFlight("select") => InFlight("select")'
    /\ jobs'["select"].step = "back" =>
         /\ jobs["select"].step = "back" /\ jobs'["select"].ok = jobs["select"].ok
         /\ jobs'["select"].s = jobs["select"].s /\ jobs'["select"].view = jobs["select"].view
ChatStays ==
    /\ SameQuestions /\ page'.active = page.active /\ page'.chat.n = page.chat.n
    /\ past'.mixed = past.mixed /\ past'.behind = past.behind

LEMMA ChangesStay ==
    ASSUME Base, NEW new \in Pages, page' = new, Follows(jobs["select"], "select", new)
    PROVE  SelectionStays /\ (new.selector # page.selector => InFlight("select")')
  <1>1. jobs["select"] \in Events /\ "select" \in Listeners
    BY NamesOfListeners DEF Base, PageTyped, Changes
  <1>2. "select" \in Triggered(page, new) <=> new.selector # page.selector
    BY TriggeredAre
  <1>3. CASE new.selector = page.selector
    <2>1. jobs'["select"] = jobs["select"]
      BY <1>2, <1>3 DEF Follows
    <2>2. QED
      BY <1>3, <2>1 DEF SelectionStays, InFlight
  <1>4. CASE new.selector # page.selector /\ ~InFlight("select")
    <2>1. jobs'["select"] = Inputs("select", new)
      BY <1>2, <1>4 DEF Follows, InFlight
    <2>2. jobs'["select"].step = "sent"
      BY <1>1, <2>1, InputsAre
    <2>3. QED
      BY <2>2 DEF SelectionStays, InFlight
  <1>5. CASE new.selector # page.selector /\ InFlight("select")
    <2>1. jobs'["select"] = [jobs["select"] EXCEPT !.again = TRUE]
      BY <1>2, <1>5 DEF Follows, InFlight
    <2>2. /\ jobs'["select"].step = jobs["select"].step /\ jobs'["select"].ok = jobs["select"].ok
          /\ jobs'["select"].s = jobs["select"].s /\ jobs'["select"].view = jobs["select"].view
      BY <1>1, <2>1 DEF Events
    <2>3. QED
      BY <1>5, <2>2 DEF SelectionStays, InFlight
  <1>6. QED
    BY <1>3, <1>4, <1>5

LEMMA SomebodyIs ==
    ASSUME Base
    PROVE  /\ \A l \in Listeners : jobs[l].s # Nobody => jobs[l].s \in Conversations
           /\ page.active # Nobody => page.active \in Conversations
  BY DEF Base, PageTyped, Events, Pages, Somebody

\* The answers stay as they are, and so does what a selection read.
LEMMA AnswersStay ==
    ASSUME Base, CurrentInv, SameQuestions, past'.behind = past.behind, SelectionStays,
           \A l \in Asks : jobs'[l] = jobs[l]
    PROVE  AnswersAreCurrent'
  <1> USE NamesOfListeners
  <1>1. \A l \in Listeners : jobs[l].s # Nobody => jobs[l].s \in Conversations
    BY SomebodyIs
  <1>2. "select" \in Listeners
    BY DEF Changes
  <1>3. \A l \in Asks : InFlight(l)' /\ ~jobs'[l].live => past'.behind
    BY DEF CurrentInv, AnswersAreCurrent, InFlight
  <1>4. ~past'.behind => \A l \in Asks : jobs'[l].step = "back" /\ jobs'[l].s # Nobody =>
             jobs'[l].view.n = Len(server'[jobs'[l].s].turns)
    <2>1. ASSUME ~past'.behind, NEW l \in Asks, jobs'[l].step = "back", jobs'[l].s # Nobody
          PROVE  jobs'[l].view.n = Len(server'[jobs'[l].s].turns)
      <3>1. jobs'[l] = jobs[l] /\ l \in Listeners /\ ~past.behind
        BY <2>1
      <3>2. jobs[l].view.n = Len(server[jobs[l].s].turns) /\ jobs[l].s \in Conversations
        BY <1>1, <2>1, <3>1 DEF CurrentInv, AnswersAreCurrent, TurnsOf
      <3>3. QED
        BY <3>1, <3>2 DEF SameQuestions
    <2>2. QED
      BY <2>1
  <1>5. ~past'.behind => (jobs'["select"].step = "back" /\ jobs'["select"].ok
             /\ jobs'["select"].s # Nobody =>
                   jobs'["select"].view.n = Len(server'[jobs'["select"].s].turns))
    <2> SUFFICES ASSUME ~past'.behind, jobs'["select"].step = "back", jobs'["select"].ok,
                        jobs'["select"].s # Nobody
                 PROVE  jobs'["select"].view.n = Len(server'[jobs'["select"].s].turns)
      OBVIOUS
    <2>1. /\ jobs["select"].step = "back" /\ jobs["select"].ok
          /\ jobs'["select"].s = jobs["select"].s /\ jobs'["select"].view = jobs["select"].view
      BY DEF SelectionStays
    <2>2. /\ jobs["select"].s \in Conversations
          /\ jobs["select"].view.n = Len(server[jobs["select"].s].turns)
      BY <1>1, <1>2, <2>1 DEF CurrentInv, AnswersAreCurrent, TurnsOf
    <2>3. QED
      BY <2>1, <2>2 DEF SameQuestions
  <1>6. QED
    BY <1>3, <1>4, <1>5 DEF AnswersAreCurrent, TurnsOf

LEMMA SameCurrent ==
    ASSUME Base, CurrentInv, ChatStays, SelectionStays, \A l \in Asks : jobs'[l] = jobs[l]
    PROVE  CurrentInv'
  <1>1. AnswersAreCurrent'
    BY AnswersStay DEF ChatStays
  <1>2. ChatIsCurrent'
    BY SomebodyIs
       DEF CurrentInv, ChatIsCurrent, TurnsOf, ChatStays, SameQuestions, SelectionStays, Waiting
  <1>3. QED
    BY <1>1, <1>2 DEF CurrentInv

LEMMA CurrentOfUsers ==
    ASSUME Base, CurrentInv, UserSteps
    PROVE  CurrentInv'
  <1> USE NamesOfListeners
  <1>1. ASSUME NEW s \in Conversations, Chosen(s)
        PROVE  CurrentInv'
    <2>1. /\ page' \in Pages /\ page'.active = page.active /\ page'.chat = page.chat
          /\ SameQuestions /\ \A k \in Asks : jobs'[k] = jobs[k]
          /\ Follows(jobs["select"], "select", page')
      BY <1>1 DEF Chosen, SameBut, SameQuestions, Changes
    <2>2. past'.behind = past.behind /\ past'.mixed = past.mixed
      BY <1>1 DEF Chosen, Base, PageTyped, Pasts
    <2>3. SelectionStays
      BY <2>1, ChangesStay
    <2>4. QED
      BY <2>1, <2>2, <2>3, SameCurrent DEF ChatStays
  <1>2. CASE SeedChosen
    <2>1. /\ page' \in Pages /\ page'.active = page.active /\ page'.chat = page.chat
          /\ SameQuestions /\ past' = past /\ \A k \in Asks : jobs'[k] = jobs[k]
          /\ Follows(jobs["select"], "select", page')
      BY <1>2 DEF SeedChosen, SameBut, SameQuestions, Changes
    <2>2. SelectionStays
      BY <2>1, ChangesStay
    <2>3. QED
      BY <2>1, <2>2, SameCurrent DEF ChatStays
  <1>3. CASE Ticked \/ \E b \in Boxes : Entered(b)
    <2>1. /\ page'.active = page.active /\ page'.chat = page.chat
          /\ SameQuestions /\ past' = past /\ jobs' = jobs
      BY <1>3 DEF Ticked, Entered, SameBut, SameQuestions
    <2>2. SelectionStays
      BY <2>1 DEF SelectionStays, InFlight
    <2>3. QED
      BY <2>1, <2>2, SameCurrent DEF ChatStays
  <1>4. ASSUME NEW l \in Clicks, Pressed(l)
        PROVE  CurrentInv'
    <2>1. /\ page' = page /\ server' = server /\ past'.mixed = past.mixed
          /\ past'.behind = past.behind
          /\ \A k \in Listeners \ {l} : jobs'[k] = jobs[k]
          /\ ~InFlight(l) /\ jobs'[l].step = "sent" /\ jobs'[l].live
      BY <1>4 DEF Pressed
    <2>2. jobs'["select"] = jobs["select"]
      BY <2>1 DEF Changes
    <2>3. \A k \in Asks : /\ jobs'[k].live \/ jobs'[k] = jobs[k]
                          /\ jobs'[k].step = "back" => jobs'[k] = jobs[k]
                          /\ Waiting(k)' <=> Waiting(k)
      BY <2>1 DEF Waiting, InFlight
    <2>4. AnswersAreCurrent'
      BY <2>1, <2>2, <2>3 DEF CurrentInv, AnswersAreCurrent, TurnsOf, InFlight
    <2>5. ChatIsCurrent'
      BY <2>1, <2>2, <2>3 DEF CurrentInv, ChatIsCurrent, TurnsOf, InFlight
    <2>6. QED
      BY <2>4, <2>5 DEF CurrentInv
  <1>5. CASE Reloaded
    BY <1>5 DEF Reloaded, CurrentInv, AnswersAreCurrent, ChatIsCurrent
  <1>6. QED
    BY <1>1, <1>2, <1>3, <1>4, <1>5 DEF UserSteps

\* A turn that is answered alone leaves the chat behind until its answer is shown.
LEMMA TurnCurrent ==
    ASSUME Base, CurrentInv, NEW l \in Listeners, NEW ok \in BOOLEAN, NEW srv,
           TurnReturns(l, ok, srv)
    PROVE  CurrentInv'
  <1> USE NamesOfListeners
  <1>0. PICK others : others = {k \in Asks \cup {"select", "create"} : k # l /\ InFlight(k)}
    OBVIOUS
  <1>1. /\ HandlerReturns(l, ok, srv) /\ l \in Asks
        /\ past'.behind = (past.behind \/ ~ok \/ others # {})
    BY <1>0 DEF TurnReturns, Base, PageTyped, Pasts
  <1>2. /\ server' = srv /\ page' = page /\ jobs[l].step = "sent"
        /\ \A k \in Listeners \ {l} : jobs'[k] = jobs[k]
        /\ jobs'[l].step = "back" /\ jobs'[l].ok = ok /\ jobs'[l].s = jobs[l].s
        /\ jobs'[l].view = ViewOf(srv, jobs[l].s) /\ jobs'[l].live = jobs[l].live
    BY <1>1, Returning DEF HandlerReturns, Sent
  <1>3. CASE past'.behind
    BY <1>3 DEF CurrentInv, AnswersAreCurrent, ChatIsCurrent
  <1>4. CASE ~past'.behind
    <2>1. ~past.behind /\ ok /\ others = {}
      BY <1>1, <1>4
    <2>2. /\ \A k \in Asks \ {l} : ~InFlight(k)' /\ jobs'[k].step # "back"
          /\ ~InFlight("select")' /\ jobs'["select"].step # "back"
      BY <1>0, <1>1, <1>2, <2>1 DEF InFlight, Changes
    <2>3. jobs'[l].live
      BY <1>1, <1>2, <2>1 DEF CurrentInv, AnswersAreCurrent, InFlight
    <2>4. jobs'[l].s # Nobody => jobs'[l].view.n = Len(server'[jobs'[l].s].turns)
      <3>1. jobs[l].s \in Somebody /\ srv \in [Conversations -> Chats]
        BY <1>1 DEF Base, PageTyped, Events, HandlerReturns
      <3>2. QED
        BY <1>2, <3>1, ViewIs
    <2>5. AnswersAreCurrent'
      BY <2>2, <2>3, <2>4 DEF AnswersAreCurrent, TurnsOf
    <2>6. Waiting(l)'
      BY <1>1, <1>2, <2>1, <2>3 DEF Waiting
    <2>7. ChatIsCurrent'
      BY <1>1, <2>6 DEF ChatIsCurrent
    <2>8. QED
      BY <2>5, <2>7 DEF CurrentInv
  <1>5. QED
    BY <1>3, <1>4

LEMMA CurrentOfHandlers ==
    ASSUME Base, CurrentInv, HandlerSteps
    PROVE  CurrentInv'
  <1> USE NamesOfListeners
  <1>1. ASSUME NEW l \in Listeners, NEW ok \in BOOLEAN, NEW srv, HandlerReturns(l, ok, srv),
               SameTurns(srv), past'.mixed = past.mixed,
               past'.behind = past.behind
               \/ (~past'.behind /\ l = "select" /\ \A k \in Asks : ~InFlight(k))
        PROVE  CurrentInv'
    <2>1. /\ server' = srv /\ page' = page /\ jobs[l].step = "sent"
          /\ \A k \in Listeners \ {l} : jobs'[k] = jobs[k]
          /\ jobs'[l].step = "back" /\ jobs'[l].s = jobs[l].s
          /\ jobs'[l].view = ViewOf(srv, jobs[l].s) /\ jobs'[l].live = jobs[l].live
      BY <1>1, Returning DEF HandlerReturns, Sent
    <2>2. SameQuestions
      BY <1>1, <2>1 DEF SameTurns, SameQuestions
    <2>3. \A k \in Listeners : jobs[k].s # Nobody => jobs[k].s \in Conversations
      BY SomebodyIs
    <2>4. jobs'[l].s # Nobody => jobs'[l].view.n = Len(server'[jobs'[l].s].turns)
      <3>1. jobs[l].s \in Somebody /\ srv \in [Conversations -> Chats]
        BY <1>1 DEF Base, PageTyped, Events, HandlerReturns
      <3>2. QED
        BY <2>1, <3>1, ViewIs
    <2>5. \A k \in Asks : InFlight(k)' /\ ~jobs'[k].live => past'.behind
      <3> SUFFICES ASSUME NEW k \in Asks, InFlight(k)', ~jobs'[k].live PROVE past'.behind
        OBVIOUS
      <3>1. InFlight(k) /\ ~jobs[k].live
        BY <2>1 DEF InFlight
      <3>2. QED
        BY <1>1, <3>1 DEF CurrentInv, AnswersAreCurrent
    <2>6. ASSUME ~past'.behind, NEW k \in Asks \cup {"select"}, k # l, jobs'[k].step = "back",
                 jobs'[k].s # Nobody, jobs'[k].ok \/ k # "select"
          PROVE  jobs'[k].view.n = Len(server'[jobs'[k].s].turns)
      <3>1. jobs'[k] = jobs[k] /\ k \in Listeners
        BY <2>1, <2>6 DEF Changes
      <3>2. ~past.behind
        BY <1>1, <2>6, <3>1 DEF InFlight
      <3>3. jobs[k].view.n = Len(server[jobs[k].s].turns)
        BY <2>6, <3>1, <3>2 DEF CurrentInv, AnswersAreCurrent, TurnsOf
      <3>4. QED
        BY <2>2, <2>3, <2>6, <3>1, <3>3 DEF SameQuestions
    <2>7. AnswersAreCurrent'
      <3>1. ~past'.behind => \A k \in Asks : jobs'[k].step = "back" /\ jobs'[k].s # Nobody =>
               jobs'[k].view.n = Len(server'[jobs'[k].s].turns)
        <4> SUFFICES ASSUME ~past'.behind, NEW k \in Asks, jobs'[k].step = "back",
                            jobs'[k].s # Nobody
                     PROVE  jobs'[k].view.n = Len(server'[jobs'[k].s].turns)
          OBVIOUS
        <4>1. CASE k = l
          BY <2>4, <4>1
        <4>2. CASE k # l
          BY <2>6, <4>2, "select" \notin Asks DEF Asks
        <4>3. QED
          BY <4>1, <4>2
      <3>2. ~past'.behind => (jobs'["select"].step = "back" /\ jobs'["select"].ok
               /\ jobs'["select"].s # Nobody =>
                     jobs'["select"].view.n = Len(server'[jobs'["select"].s].turns))
        BY <2>4, <2>6
      <3>3. QED
        BY <2>5, <3>1, <3>2 DEF AnswersAreCurrent, TurnsOf
    <2>8. ChatIsCurrent'
      <3> SUFFICES ASSUME ~past'.mixed, ~past'.behind, page'.active # Nobody,
                          ~InFlight("select")', \A k \in Asks : ~Waiting(k)'
                   PROVE  page'.chat.n = Len(server'[page'.active].turns)
        BY DEF ChatIsCurrent, TurnsOf
      <3>1. l # "select" /\ ~InFlight("select")
        BY <2>1 DEF InFlight, Changes
      <3>2. \A k \in Asks : ~Waiting(k)
        BY <2>1 DEF Waiting
      <3>3. page.chat.n = Len(server[page.active].turns)
        BY <1>1, <2>1, <3>1, <3>2 DEF CurrentInv, ChatIsCurrent, TurnsOf
      <3>4. QED
        BY <2>1, <2>2, <3>3, SomebodyIs DEF SameQuestions
    <2>9. QED
      BY <2>7, <2>8 DEF CurrentInv
  <1>2. ASSUME NEW l \in Listeners, NEW ok \in BOOLEAN, NEW srv, QuietReturns(l, ok, srv)
        PROVE  CurrentInv'
    <2>1. past \in Pasts
      BY DEF Base, PageTyped
    <2>2. /\ past'.mixed = past.mixed
          /\ \/ past'.behind = past.behind
             \/ ~past'.behind /\ l = "select" /\ \A k \in Asks : ~InFlight(k)
      BY <1>2, <2>1 DEF QuietReturns, Pasts
    <2>3. QED
      BY <1>1, <1>2, <2>2 DEF QuietReturns
  <1>3. ASSUME NEW l \in Listeners, NEW ok \in BOOLEAN, NEW srv, SaveReturns(l, ok, srv)
        PROVE  CurrentInv'
    <2>1. past'.behind = past.behind /\ past'.mixed = past.mixed
      BY <1>3 DEF SaveReturns, Base, PageTyped, Pasts
    <2>2. QED
      BY <1>1, <1>3, <2>1 DEF SaveReturns
  <1>4. ASSUME NEW s \in Conversations, NEW made \in BOOLEAN, NEW ok \in BOOLEAN,
               CreateReturns(s, made, ok)
        PROVE  CurrentInv'
    <2>1. SameQuestions
      BY <1>4 DEF CreateReturns, SameQuestions, Base, NamesAreKnown
    <2>2. /\ page' = page /\ past' = past /\ \A k \in Listeners \ {"create"} : jobs'[k] = jobs[k]
      BY <1>4 DEF CreateReturns
    <2>3. /\ jobs'["select"] = jobs["select"] /\ \A k \in Asks : jobs'[k] = jobs[k]
      BY <2>2 DEF Changes
    <2>4. SelectionStays
      BY <2>3 DEF SelectionStays, InFlight
    <2>5. QED
      BY <2>1, <2>2, <2>3, <2>4, SameCurrent DEF ChatStays
  <1>5. QED
    BY <1>2, <1>3, <1>4, TurnCurrent DEF HandlerSteps

\* What is shown of the answers is what there is, unless one was left behind.
LEMMA CurrentOfClicks ==
    ASSUME Base, ShownInv, CurrentInv, NEW l \in Clicks \ {"create"}, NEW new \in Pages,
           ClickShows(l, new), past' = past
    PROVE  CurrentInv'
  <1> USE NamesOfListeners
  <1>0. PICK s, ok, view : s = jobs[l].s /\ ok = jobs[l].ok /\ view = jobs[l].view
    OBVIOUS
  <1>1. /\ Shows(l, new) /\ new.selector = page.selector /\ new.active = page.active
        /\ IF l \in Asks /\ s # Nobody /\ (ok \/ l = "research")
             THEN new.chat = ChatOf(view) ELSE new.chat = page.chat
    BY <1>0 DEF ClickShows
  <1>2. /\ jobs[l].step = "back" /\ jobs[l].live /\ page' = new /\ server' = server
        /\ \A k \in Listeners \ {l} : Follows(jobs[k], k, new)
        /\ \A k \in Clicks : jobs'[k] = IF k = l THEN NoEvent ELSE jobs[k]
    BY <1>1, Showing
  <1>3. jobs'["select"] = jobs["select"]
    <2>1. "select" \in Listeners \ {l} /\ "select" \notin Triggered(page, new)
      BY <1>1, TriggeredAre DEF Changes
    <2>2. QED
      BY <1>2, <2>1 DEF Follows
  <1>4. /\ \A k \in Asks : /\ jobs'[k] = IF k = l THEN NoEvent ELSE jobs[k]
        /\ ~Waiting(l)'
    BY <1>2, NoEventIs DEF Waiting
  <1>5. AnswersAreCurrent'
    BY <1>2, <1>3, <1>4, NoEventIs DEF CurrentInv, AnswersAreCurrent, TurnsOf, InFlight
  <1>6. ChatIsCurrent'
    <2> SUFFICES ASSUME ~past.mixed, ~past.behind, page.active # Nobody,
                        ~InFlight("select"), \A k \in Asks : ~Waiting(k)'
                 PROVE  page'.chat.n = Len(server[page.active].turns)
      BY <1>1, <1>2, <1>3 DEF ChatIsCurrent, TurnsOf, InFlight
    <2>1. s = page.active
      BY <1>0, <1>2 DEF ShownInv, ClicksAreOfIt, Under, InFlight
    <2>2. \A k \in Asks \ {l} : ~Waiting(k)
      BY <1>4 DEF Waiting
    <2>3. CASE Waiting(l)
      <3>1. /\ l \in Asks /\ (ok \/ l = "research") /\ view.n = Len(server[s].turns)
        BY <1>0, <1>2, <2>1, <2>3 DEF Waiting, CurrentInv, AnswersAreCurrent, TurnsOf
      <3>2. new.chat = ChatOf(view)
        BY <1>1, <2>1, <3>1
      <3>3. QED
        BY <1>2, <2>1, <3>1, <3>2 DEF ChatOf
    <2>4. CASE ~Waiting(l)
      <3>1. new.chat = page.chat
        BY <1>0, <1>1, <1>2, <2>4 DEF Waiting
      <3>2. page.chat.n = Len(server[page.active].turns)
        BY <2>2, <2>4 DEF CurrentInv, ChatIsCurrent, TurnsOf
      <3>3. QED
        BY <1>2, <3>1, <3>2
    <2>5. QED
      BY <2>3, <2>4
  <1>7. QED
    BY <1>5, <1>6 DEF CurrentInv

LEMMA CurrentOfShows ==
    ASSUME Base, ShownInv, CurrentInv, ShowSteps
    PROVE  CurrentInv'
  <1> USE NamesOfListeners
  <1>1. ASSUME NEW new \in Pages, Selected(new)
        PROVE  CurrentInv'
    <2>0. PICK j : j = jobs["select"]
      OBVIOUS
    <2>1. /\ "select" \in Listeners \ Clicks /\ Shows("select", new)
          /\ j.ok => new.active = j.s /\ new.chat.n = j.view.n
      BY <1>1, <2>0 DEF Selected, SelectionShows, Changes
    <2>2. /\ j.step = "back" /\ page' = new /\ server' = server
          /\ jobs'["select"] \in {Inputs("select", new), NoEvent}
          /\ \A k \in Clicks : jobs'[k] = jobs[k]
      BY <2>0, <2>1, Showing
    <2>3. past'.mixed = (~j.ok \/ past.crossing) /\ past'.behind = past.behind
      BY <1>1, <2>0 DEF Selected, Base, PageTyped, Pasts
    <2>4. jobs'["select"].step # "back"
      BY <2>1, <2>2, InputsAre, NoEventIs
    <2>5. AnswersAreCurrent'
      BY <2>2, <2>3, <2>4 DEF CurrentInv, AnswersAreCurrent, TurnsOf, InFlight
    <2>6. ChatIsCurrent'
      BY <2>0, <2>1, <2>2, <2>3 DEF CurrentInv, AnswersAreCurrent, ChatIsCurrent, TurnsOf
    <2>7. QED
      BY <2>5, <2>6 DEF CurrentInv
  <1>2. ASSUME NEW new \in Pages, CreationShows(new)
        PROVE  CurrentInv'
    <2>0. PICK j : j = jobs["create"]
      OBVIOUS
    <2>1. /\ page' = new /\ server' = server /\ Follows(jobs["select"], "select", new)
          /\ j.step = "back" /\ j.live
          /\ \A k \in Asks : jobs'[k] = jobs[k]
      BY <1>2, <2>0, Showing DEF CreationShows, Changes, Asks
    <2>2. SelectionStays /\ (new.selector # page.selector => InFlight("select")')
      BY <2>1, ChangesStay
    <2>3. SameQuestions
      BY <2>1 DEF SameQuestions
    <2>4. CASE ~j.ok
      <3>1. new = page /\ past' = past
        BY <1>2, <2>0, <2>4 DEF CreationShows
      <3>2. QED
        BY <2>1, <2>2, <2>3, <3>1, SameCurrent DEF ChatStays
    <2>5. CASE j.ok
      <3>1. /\ new.selector = j.s
            /\ past' = [past EXCEPT !.mixed = Crossed(j.s),
                                    !.crossing = (@ /\ InFlight("select")) \/ Crossed(j.s)]
        BY <1>2, <2>0, <2>5 DEF CreationShows
      <3>2. past'.behind = past.behind
        BY <3>1 DEF Base, PageTyped, Pasts
      <3>3. page.selector # j.s
        BY <2>0, <2>1, WorkbenchPageAssumption DEF Base, NewIsUnknown, NamesAreKnown, Listed
      <3>4. AnswersAreCurrent'
        BY <2>1, <2>2, <2>3, <3>2, AnswersStay
      <3>5. ChatIsCurrent'
        BY <2>2, <3>1, <3>3 DEF ChatIsCurrent
      <3>6. QED
        BY <3>4, <3>5 DEF CurrentInv
    <2>6. QED
      BY <2>4, <2>5
  <1>3. ASSUME past' = past, NEW l \in {"controls", "inspect"}, NEW new \in Pages,
               FillingShows(l, new)
        PROVE  CurrentInv'
    <2>1. /\ l \in Listeners \ Clicks /\ Shows(l, new) /\ "select" \in Listeners \ {l}
          /\ new.active = page.active /\ new.chat = page.chat
      BY <1>3 DEF FillingShows, Changes
    <2>2. /\ page' = new /\ server' = server /\ Follows(jobs["select"], "select", new)
          /\ \A k \in Asks : jobs'[k] = jobs[k]
      BY <2>1, Showing
    <2>3. SelectionStays
      BY <2>2, ChangesStay
    <2>4. ChatStays
      BY <1>3, <2>1, <2>2 DEF ChatStays, SameQuestions
    <2>5. QED
      BY <2>2, <2>3, <2>4, SameCurrent
  <1>4. ASSUME NEW l \in Listeners, Dropped(l)
        PROVE  CurrentInv'
    <2>1. /\ l \in Clicks /\ jobs[l].step = "back" /\ ~jobs[l].live
          /\ page' = page /\ server' = server /\ past' = past
          /\ \A k \in Listeners \ {l} : jobs'[k] = jobs[k]
      BY <1>4 DEF Dropped
    <2>2. CASE l \in Asks
      <3>1. past.behind
        BY <2>1, <2>2 DEF CurrentInv, AnswersAreCurrent, InFlight
      <3>2. QED
        BY <2>1, <3>1 DEF CurrentInv, AnswersAreCurrent, ChatIsCurrent
    <2>3. CASE l \notin Asks
      <3>1. jobs'["select"] = jobs["select"] /\ \A k \in Asks : jobs'[k] = jobs[k]
        BY <2>1, <2>3 DEF Changes
      <3>2. SelectionStays /\ ChatStays
        BY <2>1, <3>1 DEF SelectionStays, ChatStays, SameQuestions, InFlight
      <3>3. QED
        BY <3>1, <3>2, SameCurrent
    <2>4. QED
      BY <2>2, <2>3
  <1>5. QED
    BY <1>1, <1>2, <1>3, <1>4, CurrentOfClicks DEF ShowSteps

LEMMA CurrentStep == Base /\ ShownInv /\ CurrentInv /\ [PageNext]_pageVars => CurrentInv'
  <1>1. CASE Base /\ ShownInv /\ CurrentInv /\ PageNext
    BY <1>1, EveryStep, CurrentOfUsers, CurrentOfHandlers, CurrentOfShows
  <1>2. CASE Base /\ CurrentInv /\ UNCHANGED pageVars
    <2>1. page' = page /\ server' = server /\ past' = past /\ jobs' = jobs
      BY <1>2 DEF pageVars
    <2>2. SelectionStays /\ ChatStays
      BY <2>1 DEF SelectionStays, ChatStays, SameQuestions, InFlight
    <2>3. QED
      BY <1>2, <2>1, <2>2, SameCurrent
  <1>3. QED
    BY <1>1, <1>2

-----------------------------------------------------------------------------
(* The page that is loaded first, and what is always so.                   *)

LEMMA PInitially == PageInit => PInv
  <1> SUFFICES ASSUME PageInit PROVE PInv
    OBVIOUS
  <1> USE NamesOfListeners
  <1>0. Base
    BY BaseInitially
  <1>1. /\ page = built /\ \A l \in Listeners : jobs[l] = NoEvent
        /\ typed = 0 /\ ~past.mixed /\ ~past.blind
    BY DEF PageInit
  <1>2. /\ \A s \in Conversations : server[s].turns = <<>> /\ server[s].settings \in {s, Nobody}
    <2>1. PICK made \in SUBSET Conversations, seed \in Seeds :
            server = [c \in Conversations |-> IF c \in made THEN Fresh(c, seed) ELSE Unmade]
      BY DEF PageInit
    <2>2. Unmade.turns = <<>> /\ Unmade.settings = Nobody
      BY DEF Unmade
    <2>3. \A c : Fresh(c, seed).turns = <<>> /\ Fresh(c, seed).settings = c
      BY DEF Fresh, Unmade
    <2>4. QED
      BY <2>1, <2>2, <2>3
  <1>3. \A l \in Listeners : ~InFlight(l)
    BY <1>1, NoEventIs DEF InFlight
  <1>4. Sent("save") = FALSE /\ \A l \in SeedActions : ~Sent(l)
    BY <1>1, NoEventIs DEF Sent
  <1>5. MessageInv
    <2>1. \A m : ~Recorded(m)
      BY <1>2 DEF Recorded
    <2>2. \A b \in Boxes : page.box[b] = Empty
      BY <1>0, <1>1 DEF Base, BuiltIsOne
    <2>3. \A l \in Asks : jobs[l].m = Empty
      BY <1>1, NoEventIs
    <2>4. MessagesAreTyped
      BY <1>1, <2>1, <2>2, <2>3 DEF MessagesAreTyped, Empty
    <2>5. BoxesAreApart /\ MessagesAreSingle
      BY <2>1, <2>2, <2>3 DEF BoxesAreApart, MessagesAreSingle, Holds, InBox
    <2>6. AskedOnce
      BY <1>2 DEF AskedOnce
    <2>7. QED
      BY <2>4, <2>5, <2>6 DEF MessageInv
  <1>6. ShownInv
    <2>1. /\ page.head = page.active /\ page.chat.of = page.active
          /\ page.memory.of = page.active /\ page.form = page.active
          /\ page.selector = page.active
      BY <1>0, <1>1 DEF Base, BuiltIsOne, NamesAreKnown
    <2>2. OneIsShown /\ SelectionsFollow /\ ClicksAreOfIt /\ FormFollows
      BY <1>3, <2>1 DEF OneIsShown, SelectionsFollow, ClicksAreOfIt, FormFollows, Under, Changes
    <2>3. SavesAreHome /\ SettingsStayHome
      BY <1>2, <1>4 DEF SavesAreHome, SettingsStayHome
    <2>4. QED
      BY <2>2, <2>3 DEF ShownInv
  <1>7. StoryInv
    <2>1. ~page.picked /\ ~InFlight("inspect")
      BY <1>0, <1>1, <1>3 DEF Base, BuiltIsOne, Changes
    <2>2. QED
      BY <1>1, <1>4, <2>1
         DEF StoryInv, InspectionFollows, StoryFollows, ActionsAreOnIt, SeedActionsAreSeen
  <1>8. CurrentInv
    <2>1. AnswersAreCurrent
      BY <1>1, <1>3, NoEventIs DEF AnswersAreCurrent, Changes
    <2>2. page.chat.n = (IF page.active = Nobody THEN 0 ELSE Len(server[page.active].turns))
      BY DEF PageInit, Started, ChatOf, ViewOf, NoView
    <2>3. ChatIsCurrent
      BY <2>2 DEF ChatIsCurrent, TurnsOf
    <2>4. QED
      BY <2>1, <2>3 DEF CurrentInv
  <1>9. QED
    BY <1>0, <1>5, <1>6, <1>7, <1>8 DEF PInv

LEMMA PAlways == PageSpec => []PInv
  <1>1. PageInit => PInv
    BY PInitially
  <1>2. PInv /\ [PageNext]_pageVars => PInv'
    BY BaseStep, MessageStep, ShownStep, StoryStep, CurrentStep DEF PInv
  <1>3. QED
    BY <1>1, <1>2, PTL DEF PageSpec

\* What was typed once is asked once, in one conversation: the handlers of a question by
\* its button, by Enter and by the comparison clear their box when they recorded it.
THEOREM QuestionsAreAskedOnce == PageSpec => []AskedOnce
  <1>1. PInv => AskedOnce
    BY DEF PInv, MessageInv
  <1>2. QED
    BY <1>1, PAlways, PTL

\* Title, chat and memory are of the active conversation, and once nothing is under way
\* the chat has all its turns, however selections, answers and new conversations cross,
\* but for the cases the history names.
THEOREM ThePageIsCurrent == PageSpec => []PageIsCurrent
  <1>1. PInv => PageIsCurrent
    <2> SUFFICES ASSUME PInv PROVE PageIsCurrent
      OBVIOUS
    <2>1. OneIsShown /\ ChatIsCurrent
      BY DEF PInv, ShownInv, CurrentInv
    <2>2. ASSUME \A l \in Listeners : ~InFlight(l)
          PROVE  ~InFlight("select") /\ \A l \in Asks : ~Waiting(l)
      BY <2>2, NamesOfListeners DEF Waiting, InFlight, Changes
    <2>3. QED
      BY <2>1, <2>2 DEF PageIsCurrent, OneIsShown, ChatIsCurrent, TurnsOf
  <1>2. QED
    BY <1>1, PAlways, PTL

\* What is saved from the form is saved for the conversation it was filled for, and what
\* is recorded of a seed is recorded of the one whose story was shown.
THEOREM WorkAlwaysStaysHome == PageSpec => []WorkStaysHome
  <1>1. PInv => WorkStaysHome
    BY DEF PInv, ShownInv, StoryInv, WorkStaysHome
  <1>2. QED
    BY <1>1, PAlways, PTL
=============================================================================

--------------------------- MODULE WindowSelection ---------------------------
(***************************************************************************)
(* The highlighted radio of a window: the selection in Go's store, the     *)
(* hotkeys and profiles that change it, and the hydrate that               *)
(* useClientStateSync keeps beside it (frontend/src/shared/store/          *)
(* useClientStateSync.ts, internal/app/audio.go: dispatchAudioPressed,     *)
(* internal/app/profiles.go: applyProfile).  A click is left out: it       *)
(* announces nothing.                                                      *)
(***************************************************************************)
EXTENDS Hydrate

CONSTANTS Radios,      \* radio ids
          Hotkeys,     \* goroutines that dispatch hotkeys
          profile,     \* the call that loads a profile
          MaxSelects,  \* bound: changes of the selection
          MaxLogins    \* bound: sessions

SelectionAssumption == HydrateAssumption /\ profile \notin Hotkeys /\ Radios \subseteq Nat \ {0}

VARIABLES
  selected,   \* Store.selectedRadio
  chosen,     \* the selection each goroutine has still to tell of
  connected,  \* a session is connected
  wire,       \* events emitted and not delivered (external)
  mounted,
  voice,      \* the hydrates started so far; the handle is of the last
  highlight,  \* useRadios.selectedRadioId
  selects, logins,
  told        \* history: the selection told last, 0 where a profile was

go == <<selected, chosen, connected, selects, logins, told>>
window == <<mounted, voice, highlight>>
vars == <<go, wire, window>>

Selectors == Hotkeys \cup {profile}

\* The selection of the last run is in the configuration (main.go).
Init ==
  /\ selected \in Radios /\ chosen = [t \in Selectors |-> 0] /\ connected = FALSE
  /\ wire = <<>> /\ mounted = FALSE /\ voice = <<>> /\ highlight = 0
  /\ selects = 0 /\ logins = 0 /\ told = 0

\* A window that is not mounted hears nothing.
Emit(e) == wire' = IF mounted THEN Append(wire, e) ELSE wire

-----------------------------------------------------------------------------
Connects ==
  /\ ~connected /\ logins < MaxLogins
  /\ connected' = TRUE /\ logins' = logins + 1
  /\ Emit([type |-> "connected"])
  /\ UNCHANGED <<selected, chosen, selects, told, window>>

LogsOut ==
  /\ connected /\ connected' = FALSE
  /\ Emit([type |-> "logged_out"])
  /\ UNCHANGED <<selected, chosen, selects, logins, told, window>>

\* The store first ...
Selects(t, r) ==
  /\ chosen[t] = 0 /\ selects < MaxSelects
  /\ selects' = selects + 1
  /\ selected' = r /\ chosen' = [chosen EXCEPT ![t] = r]
  /\ UNCHANGED <<connected, logins, told, wire, window>>

\* ... and the event after it: a hotkey is told of as it was pressed, a
\* profile as that something changed.
Tells(t) ==
  /\ chosen[t] # 0
  /\ IF t = profile
       THEN Emit([type |-> "profile"]) /\ told' = 0
       ELSE Emit([type |-> "select", radio |-> chosen[t]]) /\ told' = chosen[t]
  /\ chosen' = [chosen EXCEPT ![t] = 0]
  /\ UNCHANGED <<selected, connected, selects, logins, window>>

-----------------------------------------------------------------------------
Mounts ==
  /\ ~mounted /\ mounted' = TRUE
  /\ voice' = Hydrated(voice)
  /\ UNCHANGED <<go, wire, highlight>>

VoiceState(i) ==
  /\ voice[i].at = "asked"
  /\ voice' = [voice EXCEPT ![i] = Answered(@, selected)]
  /\ UNCHANGED <<go, wire, mounted, highlight>>

AnswerArrives(i) ==
  /\ voice[i].at = "answered"
  /\ voice' = [voice EXCEPT ![i] = Settled]
  /\ highlight' = IF AppliesSnapshot(voice[i]) THEN voice[i].answer ELSE highlight
  /\ UNCHANGED <<go, wire, mounted>>

OnConnected(e) ==
  e.type = "connected" /\ voice' = Hydrated(voice) /\ UNCHANGED highlight

OnLoggedOut(e) ==
  e.type = "logged_out" /\ voice' = GivenUp(voice) /\ highlight' = 0

\* Mutant: a hotkey's selection is taken back by an older answer.
SelectsUnmarked(e) ==
  e.type = "select" /\ highlight' = e.radio /\ UNCHANGED voice

OnSelect(e) ==
  e.type = "select" /\ highlight' = e.radio /\ voice' = Marked(voice)

\* Mutant: the answer under way serves for the new profile too.
KeepsAsking(e) ==
  /\ e.type = "profile"
  /\ voice' = IF voice # <<>> /\ InFlight(voice[Len(voice)]) THEN voice ELSE Hydrated(voice)
  /\ UNCHANGED highlight

OnProfile(e) ==
  e.type = "profile" /\ voice' = Hydrated(voice) /\ UNCHANGED highlight

Deliver ==
  /\ wire # <<>>
  /\ wire' = Tail(wire)
  /\ LET e == Head(wire) IN
       OnConnected(e) \/ OnLoggedOut(e) \/ OnSelect(e) \/ OnProfile(e)
  /\ UNCHANGED <<go, mounted>>

Next ==
  \/ Connects \/ LogsOut
  \/ \E t \in Selectors : Tells(t) \/ \E r \in Radios : Selects(t, r)
  \/ Mounts \/ Deliver
  \/ \E i \in DOMAIN voice : VoiceState(i) \/ AnswerArrives(i)

Spec == Init /\ [][Next]_vars

-----------------------------------------------------------------------------
\* Nothing is under way between Go and the window.
AtRest ==
  /\ mounted /\ wire = <<>> /\ \A t \in Selectors : chosen[t] = 0
  /\ \A i \in DOMAIN voice : ~InFlight(voice[i])

\* At rest in a session the highlighted radio is the one Go has selected,
\* whatever answers and events passed each other.  Excepted is a hotkey that
\* was told of behind one that was dispatched after it
\* (useClientStateSync.ts:72-76, 103-124).
HighlightIsMirrored ==
  AtRest /\ connected /\ told \in {0, selected} => highlight = selected
=============================================================================

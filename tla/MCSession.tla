----------------------------- MODULE MCSession -----------------------------
(***************************************************************************)
(* The control session on small sets of callers, streams and tokens, and   *)
(* what a window mirrors of Go: the roster, the highlighted radio, the     *)
(* settings and the log.                                                   *)
(* The modules share no state, so that TLC explores them side by side      *)
(* instead of multiplied: "subject" names the component a behaviour is of, *)
(* and the variables of the others keep their initial values.              *)
(***************************************************************************)
EXTENDS Session, TLC

CONSTANTS
  maxAttempts, Clients, MaxUpdates, MaxSyncs,
  Radios, Hotkeys, profile, MaxSelects, MaxLogins,
  MaxChoices, MaxFails,
  Writers, user, Cap, MaxRows, MaxClears

VARIABLES
  session, info, radio, routed, clientWire, clientMounted, client, stores,
  changes, syncs, late, clientForced,
  selected, chosen, connected, radioWire, radioMounted, voice, highlight,
  selects, logins, told,
  cfg, settingsWire, store, settingsFetch, sent, pending, knob, choices, fails,
  wished, unruly,
  log, owed, logWire, logFetch, entries, rows, clears, crossed, logForced,
  subject  \* the component whose behaviour this is

rosterVars == <<session, info, radio, routed, clientWire, clientMounted, client,
  stores, changes, syncs, late, clientForced>>
selectionVars == <<selected, chosen, connected, radioWire, radioMounted, voice,
  highlight, selects, logins, told>>
settingsVars == <<cfg, settingsWire, store, settingsFetch, sent, pending, knob,
  choices, fails, wished, unruly>>
historyVars == <<log, owed, logWire, logFetch, entries, rows, clears, crossed, logForced>>

Roster == INSTANCE WindowRoster WITH
  wire <- clientWire, mounted <- clientMounted, forced <- clientForced
Selection == INSTANCE WindowSelection WITH wire <- radioWire, mounted <- radioMounted
Settings == INSTANCE WindowSettings WITH wire <- settingsWire, fetch <- settingsFetch
History == INSTANCE WindowHistory WITH
  wire <- logWire, fetch <- logFetch, forced <- logForced

ASSUME RosterBounds == Roster!RosterAssumption
ASSUME SelectionBounds == Selection!SelectionAssumption
ASSUME SettingsBounds == Settings!WindowSettingsAssumption
ASSUME HistoryBounds == History!WindowHistoryAssumption

WindowsInit == Roster!Init /\ Selection!Init /\ Settings!Init /\ History!Init

SideInit ==
  /\ subject \in {"session", "roster", "selection", "settings", "history"}
  /\ Init /\ WindowsInit
  /\ subject # "selection" => selected = 1

SideNext ==
  /\ UNCHANGED subject
  /\ \/ /\ subject = "session" /\ Next
        /\ UNCHANGED <<rosterVars, selectionVars, settingsVars, historyVars>>
     \/ /\ subject = "roster" /\ Roster!Next
        /\ UNCHANGED <<vars, selectionVars, settingsVars, historyVars>>
     \/ /\ subject = "selection" /\ Selection!Next
        /\ UNCHANGED <<vars, rosterVars, settingsVars, historyVars>>
     \/ /\ subject = "settings" /\ Settings!Next
        /\ UNCHANGED <<vars, rosterVars, selectionVars, historyVars>>
     \/ /\ subject = "history" /\ History!Next
        /\ UNCHANGED <<vars, rosterVars, selectionVars, settingsVars>>

SideSpec ==
  SideInit /\ [][SideNext]_<<subject, vars, rosterVars, selectionVars, settingsVars, historyVars>>

\* When a window is at rest it shows what Go holds, whatever answers and
\* events passed each other: the roster, the highlighted radio, the settings
\* and the log (hydrateSnapshot, hydrateDelta, commitSettings).
WindowsMirrorGo ==
  /\ subject = "roster" => Roster!RosterIsMirrored
  /\ subject = "selection" => Selection!HighlightIsMirrored
  /\ subject = "settings" => Settings!SettingsAreMirrored
  /\ subject = "history" => History!ScreenListsTheLog

Symmetry == Permutations(Callers) \cup Permutations(Streams) \cup Permutations(Tokens)
=============================================================================

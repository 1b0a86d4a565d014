------------------------------- MODULE MCParts -------------------------------
(***************************************************************************)
(* The rows of the history and their file, what the user sets up: the      *)
(* hotkey stream and the refresh of its bindings, the trigger capture and  *)
(* the keybinding store, the settings, the windows' places, the shipped    *)
(* profiles and the comms profiles; and the load generator. The modules    *)
(* share no state, so that TLC explores them side by side instead of       *)
(* multiplied: "subject" names the component a behaviour is of, and the    *)
(* variables of the others keep their initial values.                      *)
(***************************************************************************)
EXTENDS KeyBindings, Integers, FiniteSets

CONSTANTS
  Talkers, QueueMax, MaxRows, LogCap, LogRows, MaxClears, LogFails, Actions,
  MaxStreams, MaxCycles, Wedges, CaptureRows, NoRow, MaxTokens, Radios,
  NoRadios, Updaters, Hooks, MaxChanges, MaxAsks, MaxEvents, MaxKeys,
  MaxSelects, MaxEdits, MaxOthers, SettingsFails, WindowIds, MaxHandles,
  MaxMoves, WindowFails, MaxProfile, LastVersion, MaxFaults, Stems, Widths,
  DefaultW, windowEchoTolerancePx, MaxBots, MaxInFlight, MaxHolds, MaxDeaths

VARIABLES
  streams, muHeld, rowReader, pass, queue, delivery, closer, sweep, done,
  begun, rowOwed, logged, dropped,
  entries, dirty, rev, logFile, tmp, logFlush, logStopped, shutdown,
  rowsSoFar, clears, logFails,
  running, retryArmed, disabled, starts, hookBinds, latched, source, hookReader,
  quit, caller, todo, restarts, cycles,
  captureGen, captureAction, captureTimer, hkSuspended, jmSuspended, armed,
  row, begin, resume, poll, bound,
  radios, updater, sig, radioSig, refreshPending, refreshStopped, wake,
  refresher, refreshQuit, granted, lastPerm, permPoll, cancelled, permCancel,
  hook, click, clicks, refreshMu, applied, changes, focuses, returned, peeked,
  rebuilt,
  cfg, settingsFile, layoutPending, persistedSeq, kb, writeMu, tx,
  settingsFlush, keys, selects, edits, others, queued, lost, settingsFails,
  open, wplace, geom, windowsFile, handles, timers, settling, closing, placing,
  windowsOwed, clones, moves, windowsFails, unsaved, overtaken,
  shipped, profileFile, recorded, seedPhase, next, results, faults, users,
  wrote, unsure, spared,
  profileFiles, live, disk, profilePending, call, window, same, calm,
  overwritten, profileChanges,
  loadPhase, cmd, ctx, join, bots, nextIdx, tally, ticker, life, dead, finds,
  deadTotal, deadSinceStep, deadInHold, noted, reported, inHold, counted,
  wrong, holdsDone,
  subject  \* the component whose behaviour this is

rowVars == <<streams, muHeld, rowReader, pass, queue, delivery, closer, sweep, done,
  begun, rowOwed, logged, dropped>>
logVars == <<entries, dirty, rev, logFile, tmp, logFlush, logStopped, shutdown,
  rowsSoFar, clears, logFails>>
hookVars == <<running, retryArmed, disabled, starts, hookBinds, latched, source, hookReader,
  quit, caller, todo, restarts, cycles>>
captureVars == <<captureGen, captureAction, captureTimer, hkSuspended, jmSuspended, armed,
  row, begin, resume, poll, bound>>
refreshVars == <<radios, updater, sig, radioSig, refreshPending, refreshStopped, wake,
  refresher, refreshQuit, granted, lastPerm, permPoll, cancelled, permCancel,
  hook, click, clicks, refreshMu, applied, changes, focuses, returned, peeked,
  rebuilt>>
settingsVars == <<cfg, settingsFile, layoutPending, persistedSeq, kb, writeMu, tx,
  settingsFlush, keys, selects, edits, others, queued, lost, settingsFails>>
windowsVars == <<open, wplace, geom, windowsFile, handles, timers, settling, closing, placing,
  windowsOwed, clones, moves, windowsFails, unsaved, overtaken>>
builtinsVars == <<shipped, profileFile, recorded, seedPhase, next, results, faults, users,
  wrote, unsure, spared>>
profilesVars == <<profileFiles, live, disk, profilePending, call, window, same, calm,
  overwritten, profileChanges>>
loadVars == <<loadPhase, cmd, ctx, join, bots, nextIdx, tally, ticker, life, dead, finds,
  deadTotal, deadSinceStep, deadInHold, noted, reported, inHold, counted,
  wrong, holdsDone>>

Row == INSTANCE TransmissionRows WITH
  reader <- rowReader, owed <- rowOwed
Log == INSTANCE HistoryLog WITH
  file <- logFile, flush <- logFlush, stopped <- logStopped,
  fails <- logFails, Cap <- LogCap, MaxRows <- LogRows, MaxFails <- LogFails
Hook == INSTANCE HookStream WITH
  reader <- hookReader, binds <- hookBinds
Capture == INSTANCE Capture WITH
  Rows <- CaptureRows
Refresh == INSTANCE HotkeyRefresh WITH
  pending <- refreshPending, stopped <- refreshStopped, quit <- refreshQuit,
  poll <- permPoll, writeMu <- refreshMu

\* Two chords and a button; "alias" is another spelling of a chord.
KeyChords == {"k1", "k2"}
KeyJoys == {"j1"}
KeyTexts == KeyChords \cup KeyJoys \cup {"alias", "junk"}
KeyParse ==
  [x \in KeyTexts |-> IF x = "alias" THEN "k1" ELSE IF x = "junk" THEN "bad" ELSE x]
KeyString == [t \in KeyChords \cup KeyJoys |-> t]
KeyDefaults == <<<<"k1">>, <<>>, <<"k2">>>>
\* Files edited by hand: a chord of two actions, two chords of one, a key
\* spelled in two ways, a button named twice, an action of another version.
KeyEdits ==
  {<<<<"k1">>, <<"junk", "k2">>, <<"alias", "k2", "j1">>>>,
   <<<<"j1", "k1", "alias", "k2">>, <<>>, <<"junk", "j1", "j1">>>>}
Settings == INSTANCE Settings WITH
  file <- settingsFile, flush <- settingsFlush, fails <- settingsFails,
  MaxFails <- SettingsFails
Windows == INSTANCE WindowRegistry WITH
  file <- windowsFile, place <- wplace, owed <- windowsOwed, fails <- windowsFails,
  Ids <- WindowIds, MaxFails <- WindowFails
Builtin == INSTANCE Builtins WITH
  file <- profileFile, phase <- seedPhase, excused <- spared

\* A radio comes and another changes its frequency; the file made by hand
\* names no width, a radio it has not and one twice, and lacks one variant.
Tuned(radio, f) == [id |-> radio, khz |-> f]
Block(radio, v) == [radio |-> radio, variant |-> v]
RadioSets == {<<Tuned(2, 1), Tuned(1, 2)>>}
Variants == {"", "vertical", "wide"}
BlockSets == {<<Block(1, "wide"), Block(2, "vertical")>>}
Handwritten(rs, blocks, width) ==
  [state |-> "ok", radios |-> rs, blocks |-> blocks, width |-> width]
HandMade ==
  {Handwritten(<<Tuned(2, 1), Tuned(1, 1)>>,
     <<Block(1, ""), Block(3, "wide"), Block(1, "vertical")>>, 0)}
Profile == INSTANCE Profiles WITH
  files <- profileFiles, pending <- profilePending, changes <- profileChanges
Load == INSTANCE LoadRunner WITH
  phase <- loadPhase, holds <- holdsDone

ASSUME RowBounds == Row!RowsAssumption
ASSUME LogBounds == Log!LogAssumption
ASSUME HookBounds == Hook!StreamAssumption
ASSUME CaptureBounds == Capture!CaptureAssumption
ASSUME RefreshBounds == Refresh!RefreshAssumption
ASSUME KeyBounds == KeyAssumption
ASSUME BuiltinBounds == Builtin!BuiltinsAssumption
ASSUME ProfileBounds == Profile!ProfilesAssumption
ASSUME LoadBounds == Load!LoadAssumption

PartsInit ==
  /\ subject \in {"row", "log", "hook", "capture", "refresh", "keys", "settings",
      "windows", "builtins", "profiles", "load"}
  /\ Row!Init /\ Log!Init
  /\ Hook!Init /\ Capture!Init /\ Refresh!Init /\ Settings!Init /\ Windows!Init
  /\ Init /\ (subject # "keys" => file = NoKeybinds)
  /\ Builtin!Init /\ (subject # "builtins" => profileFile = Builtin!NoResults)
  /\ Profile!Init
  /\ (subject # "profiles" => profileFiles = [p \in Profile!Paths |-> Profile!Missing])
  /\ Load!Init

PartsNext ==
  /\ UNCHANGED subject
  /\ \/ /\ subject = "row" /\ Row!Next
        /\ UNCHANGED <<logVars, hookVars, captureVars, refreshVars, vars,
          settingsVars, windowsVars, builtinsVars, profilesVars, loadVars>>
     \/ /\ subject = "log" /\ Log!Next
        /\ UNCHANGED <<rowVars, hookVars, captureVars, refreshVars, vars,
          settingsVars, windowsVars, builtinsVars, profilesVars, loadVars>>
     \/ /\ subject = "hook" /\ Hook!Next
        /\ UNCHANGED <<rowVars, logVars, captureVars, refreshVars, vars,
          settingsVars, windowsVars, builtinsVars, profilesVars, loadVars>>
     \/ /\ subject = "capture" /\ Capture!Next
        /\ UNCHANGED <<rowVars, logVars, hookVars, refreshVars, vars, settingsVars,
          windowsVars, builtinsVars, profilesVars, loadVars>>
     \/ /\ subject = "refresh" /\ Refresh!Next
        /\ UNCHANGED <<rowVars, logVars, hookVars, captureVars, vars, settingsVars,
          windowsVars, builtinsVars, profilesVars, loadVars>>
     \/ /\ subject = "keys" /\ Next
        /\ UNCHANGED <<rowVars, logVars, hookVars, captureVars, refreshVars,
          settingsVars, windowsVars, builtinsVars, profilesVars, loadVars>>
     \/ /\ subject = "settings" /\ Settings!Next
        /\ UNCHANGED <<rowVars, logVars, hookVars, captureVars, refreshVars, vars,
          windowsVars, builtinsVars, profilesVars, loadVars>>
     \/ /\ subject = "windows" /\ Windows!Next
        /\ UNCHANGED <<rowVars, logVars, hookVars, captureVars, refreshVars, vars,
          settingsVars, builtinsVars, profilesVars, loadVars>>
     \/ /\ subject = "builtins" /\ Builtin!Next
        /\ UNCHANGED <<rowVars, logVars, hookVars, captureVars, refreshVars, vars,
          settingsVars, windowsVars, profilesVars, loadVars>>
     \/ /\ subject = "profiles" /\ Profile!Next
        /\ UNCHANGED <<rowVars, logVars, hookVars, captureVars, refreshVars, vars,
          settingsVars, windowsVars, builtinsVars, loadVars>>
     \/ /\ subject = "load" /\ Load!Next
        /\ UNCHANGED <<rowVars, logVars, hookVars, captureVars, refreshVars, vars,
          settingsVars, windowsVars, builtinsVars, profilesVars>>

partsVars == <<subject, rowVars, logVars, hookVars, captureVars, refreshVars, vars,
  settingsVars, windowsVars, builtinsVars, profilesVars, loadVars>>

PartsSpec == PartsInit /\ [][PartsNext]_partsVars

\* What a component promises is looked at where it is the subject.
Of(s, P) == subject = s => P

\* One row for every transmission (endTransmission, endOpenRXStreams), and the
\* log of them is on file when it says so, and after quitting (Flush).
HistoryIsKept == Of("row", Row!RowsAreFaithful) /\ Of("log", Log!LogIsKept)
\* A held key can be released, a stream restarts once (planStream); a capture
\* binds its row and gives the hotkeys back (resumeCapture); the hotkeys in
\* force are those of the radios and the grant (applyHotkeys).
HotkeysRecover ==
  /\ Of("hook", Hook!StreamIsMended)
  /\ Of("capture", Capture!CaptureIsContained)
  /\ Of("refresh", Refresh!HotkeysAreCurrent)
\* No setting is lost to a failed or a late save (persistCfg), a window reopens
\* where it was left (settleBounds, persist), no start puts a shipped profile
\* back over what the user made of it (Seed), and a comms profile gives back
\* what was saved to it (applyProfile, profileDirty, uniqueProfilePath).
FilesAreKept ==
  /\ Of("settings", Settings!SettingsAreKept)
  /\ Of("windows", Windows!PlaceIsKept)
  /\ Of("builtins", Builtin!BuiltinsRespectUser)
  /\ Of("profiles", Profile!ProfilesAreKept)
\* What the load generator reports adds up (rampJoin, hold, onDead, shutdown).
LoadIsAccounted == Of("load", Load!LoadIsAccounted)
=============================================================================

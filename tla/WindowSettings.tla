---------------------------- MODULE WindowSettings ----------------------------
(***************************************************************************)
(* Changing the settings in a window: the overlay of the newest request    *)
(* that has not settled, the throttle of a knob that is dragged, and the   *)
(* hydrate of the store (frontend/src/shared/store/settingsCommit.ts and   *)
(* useSettingsSync.ts, frontend/src/shared/hooks/useThrottledCommit.ts,    *)
(* internal/app/settings.go: SetSettings).                                 *)
(*                                                                         *)
(* A value is the number of the choice that made it.  Calls of one window  *)
(* run in Go side by side, and are answered when they are answered; events *)
(* reach the window in the order in which they were emitted.               *)
(***************************************************************************)
EXTENDS Hydrate

CONSTANTS MaxChoices,  \* bound: choices of the user, the steps of a drag included
          MaxFails     \* bound: saves that fail

WindowSettingsAssumption == HydrateAssumption /\ MaxChoices \in Nat /\ MaxFails \in Nat

VARIABLES
  cfg,      \* the configuration
  wire,     \* settings:changed emitted and not delivered (external)
  store,    \* useSettings.settings; <<>> is null
  fetch,    \* its hydrate
  sent,     \* the requests, in the order they were issued
  pending,  \* the request whose settings the overlay is; 0 is null
  knob,     \* the knob and its throttle
  choices, fails,
  wished,   \* history: what the user chose last for each field
  unruly    \* history: a request overtook an older one in Go, or was built on
            \* the store ahead of an echo

window == <<store, fetch, pending, knob>>
hand == <<choices, wished>>
vars == <<cfg, wire, window, sent, fails, hand, unruly>>

\* A level, which has a knob, and a switch.
Fields == {"level", "switch"}
Factory == [f \in Fields |-> 0]

NoTimer == 0
Init ==
  /\ cfg = Factory /\ wire = <<>> /\ sent = <<>> /\ fails = 0
  /\ store = <<>> /\ fetch = Asked /\ pending = 0
  /\ knob = [drag |-> "none", trailing |-> NoTimer]
  /\ choices = 0 /\ wished = Factory /\ unruly = FALSE

Open == {n \in DOMAIN sent : sent[n].at # "settled"}

-----------------------------------------------------------------------------
(* Go.                                                                     *)

\* SetSettings persists and broadcasts under writeMu.
Saves(n) ==
  /\ sent[n].at = "sent"
  /\ sent' = [sent EXCEPT ![n].at = "saved"]
  /\ cfg' = sent[n].settings
  /\ wire' = Append(wire, sent[n].settings)
  /\ unruly' = (unruly \/ \E m \in 1..(n - 1) : sent[m].at = "sent")
  /\ UNCHANGED <<window, fails, hand>>

FailsToSave(n) ==
  /\ sent[n].at = "sent" /\ fails < MaxFails
  /\ fails' = fails + 1
  /\ sent' = [sent EXCEPT ![n].at = "failed"]
  /\ UNCHANGED <<cfg, wire, window, hand, unruly>>

GetSettings ==
  /\ fetch.at = "asked"
  /\ fetch' = Answered(fetch, cfg)
  /\ UNCHANGED <<cfg, wire, store, pending, knob, sent, fails, hand, unruly>>

-----------------------------------------------------------------------------
(* The store.                                                              *)

AnswerArrives ==
  /\ fetch.at = "answered"
  /\ fetch' = Settled
  /\ store' = IF AppliesSnapshot(fetch) THEN fetch.answer ELSE store
  /\ UNCHANGED <<cfg, wire, pending, knob, sent, fails, hand, unruly>>

Echo ==
  /\ wire # <<>>
  /\ wire' = Tail(wire) /\ store' = Head(wire) /\ fetch' = Pushed(fetch)
  /\ UNCHANGED <<cfg, pending, knob, sent, fails, hand, unruly>>

-----------------------------------------------------------------------------
(* commitSettings.                                                         *)

\* Mutant: the change is put on what the store holds.
StoreOnly == store

\* Every request is built on the newest one.
Base == IF pending # 0 THEN sent[pending].settings ELSE store

Commit(f, v) ==
  /\ sent' = Append(sent, [settings |-> [Base EXCEPT ![f] = v], at |-> "sent"])
  /\ pending' = Len(sent) + 1
  /\ unruly' = (unruly \/ (pending = 0 /\ wire # <<>>))

\* Mutant: an older answer clears the overlay of a newer request.
ClearsAny(n) == 0

\* The overlay is cleared if it is still this request's.
Cleared(n) == IF pending = n THEN 0 ELSE pending

Settles(n) ==
  /\ sent[n].at \in {"saved", "failed"}
  /\ sent' = [sent EXCEPT ![n].at = "settled"]
  /\ pending' = Cleared(n)
  /\ UNCHANGED <<cfg, wire, store, fetch, knob, fails, hand, unruly>>

\* Before there are settings there are no controls.
Shown == pending # 0 \/ store # <<>>

Chooses(f) ==
  /\ Shown /\ choices < MaxChoices
  /\ choices' = choices + 1
  /\ wished' = [wished EXCEPT ![f] = choices + 1]

Switch ==
  /\ Chooses("switch")
  /\ Commit("switch", choices + 1)
  /\ UNCHANGED <<cfg, wire, store, fetch, knob, fails>>

-----------------------------------------------------------------------------
(* The knob: useThrottledCommit.  Its interval may pass at any time.       *)

\* The trailing value replaces the one that waits.
Waits(v) == knob' = [knob EXCEPT !.drag = "on", !.trailing = v] /\ UNCHANGED <<sent, pending, unruly>>
Sends(v, drag) == knob' = [drag |-> drag, trailing |-> NoTimer] /\ Commit("level", v)

\* The knob has sent before, so that an interval may be running.
HasSent == \E n \in DOMAIN sent : sent[n].settings["level"] # Factory["level"]

\* push: at once if the interval has passed, otherwise when it has.
Drags ==
  /\ Chooses("level")
  /\ \/ knob.trailing = NoTimer /\ Sends(choices + 1, "on")
     \/ HasSent /\ Waits(choices + 1)
  /\ UNCHANGED <<cfg, wire, store, fetch, fails>>

\* The timer's callback.
Fires ==
  /\ knob.trailing # NoTimer
  /\ Sends(knob.trailing, knob.drag)
  /\ UNCHANGED <<cfg, wire, store, fetch, fails, hand>>

\* Mutant: the timer is cancelled and what it held is forgotten.
CancelsOnly(v) ==
  knob' = [drag |-> "none", trailing |-> NoTimer] /\ UNCHANGED <<sent, pending, unruly>>

\* flush: the timer is cancelled and the value the pointer stopped at is sent.
SendsLast(v) == Sends(v, "none")

Releases ==
  /\ knob.drag = "on"
  /\ SendsLast(wished["level"])
  /\ UNCHANGED <<cfg, wire, store, fetch, fails, hand>>

\* The section is left in the middle of a drag: what waits is sent.
Unmounts ==
  /\ knob.drag = "on"
  /\ IF knob.trailing # NoTimer
       THEN SendsLast(knob.trailing)
       ELSE knob' = [knob EXCEPT !.drag = "none"] /\ UNCHANGED <<sent, pending, unruly>>
  /\ UNCHANGED <<cfg, wire, store, fetch, fails, hand>>

Next ==
  \/ \E n \in DOMAIN sent : Saves(n) \/ FailsToSave(n) \/ Settles(n)
  \/ GetSettings \/ AnswerArrives \/ Echo
  \/ Switch \/ Drags \/ Fires \/ Releases \/ Unmounts

Spec == Init /\ [][Next]_vars

-----------------------------------------------------------------------------
\* While the newest request is under way its settings are those shown, so that
\* a control stays where it was put (settingsCommit.ts:41-47).
NewestIsShown == \A n \in Open : n = Len(sent) => pending = n

\* When all is settled the window shows the configuration, after a save that
\* failed too: the overlay is gone and the last echo, or the hydrate, is in the
\* store (settingsCommit.ts:17-22, useSettingsSync.ts:40-45).
AllSettled == Open = {} /\ wire = <<>> /\ fetch = Settled
SettledShowsGo == AllSettled => pending = 0 /\ store = cfg

\* Nothing the user chose is lost to a choice made before its echo: when all is
\* settled and the knob is at rest, every field is as it was chosen last.
\* Excepted are saves that failed, requests that overtook each other on their
\* way to writeMu, and one built on the store ahead of the echo of a request
\* that had been answered (settingsCommit.ts:14-16, useThrottledCommit.ts:4-12).
ChoicesSurvive ==
  AllSettled /\ knob.trailing = NoTimer /\ fails = 0 /\ ~unruly => cfg = wished

SettingsAreMirrored == NewestIsShown /\ SettledShowsGo /\ ChoicesSurvive
=============================================================================

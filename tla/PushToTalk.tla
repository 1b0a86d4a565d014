----------------------------- MODULE PushToTalk -----------------------------
(* From a key or a joystick button to the microphone's gate.               *)
(*                                                                         *)
(* The keyboard dispatcher (internal/hotkeys/dispatch.go) and the joystick *)
(* manager (internal/joystick/manager.go) each decide their edges under a  *)
(* lock of their own and call the application after dropping it; the       *)
(* application joins the two sources in a press count, keeps the set of    *)
(* transmitting actions under a third lock, and stores the gate in an      *)
(* atomic (internal/app/settings.go, presscount.go, voice.go, audio.go).   *)
(* Four goroutines call it: the reader of the OS key stream ("hook"), the  *)
(* watchdogs of stuck keys ("dog"), the joystick poll ("poll") and the one *)
(* that rebinds, suspends and resumes ("ui").                              *)
(*                                                                         *)
(* Every action here is a HOLD action with one key, one button, or both.   *)
(* A key edge happens when the reader takes it; a poll reads the buttons   *)
(* and commits at once. isHold and the press count, two short locks in a   *)
(* row, are one step.                                                      *)
EXTENDS Integers, FiniteSets, SequencesExt

CONSTANTS
  Keyed,      \* actions bound to a key
  Stick,      \* actions bound to a joystick button
  Transient,  \* actions of a radio the server may remove and add again
  MaxPresses,   \* bound: presses of keys and buttons
  MaxGen,     \* bound: latches set
  MaxOps,     \* bound: rebinds, suspensions and resumptions
  MaxFaults   \* bound: key-ups lost and streams that die

ASSUME PttAssumption ==
  /\ IsFiniteSet(Keyed) /\ IsFiniteSet(Stick)
  /\ {MaxPresses, MaxGen, MaxOps, MaxFaults} \subseteq Nat

Actions == Keyed \cup Stick
Threads == {"hook", "dog", "poll", "ui"}
NoCalls == << >>

VARIABLES
  keyDown, btnDown, presses, faults,                 \* the user and the OS
  binds, latched, gen, fired, stream, hkSuspended, \* dispatcher, registrar
  jbinds, active, notifyMu, jmSuspended,           \* joystick manager
  holds, count, tx, ptt,  \* application
  calls, at, held, owed, raced, late,              \* the goroutines
  ui, registry, ops                                \* applyHotkeys, capture

phys == <<keyDown, btnDown, presses, faults>>
keyb == <<binds, latched, gen, fired, stream, hkSuspended>>
joy  == <<jbinds, active, notifyMu, jmSuspended>>
app  == <<holds, count, tx, ptt>>
thr  == <<calls, at, held, owed, raced, late>>
uiv  == <<ui, registry, ops>>
vars == <<phys, keyb, joy, app, thr, uiv>>

Call == [edge : {"press", "release"}, a : Actions]

(* The Handler calls one source makes for a set of actions, in order.      *)
Edges(e, S) == SetToSeq({[edge |-> e, a |-> x] : x \in S})

(* The calls of goroutine t that the press count has not seen.             *)
Rest(s, step) == {s[i] : i \in {j \in DOMAIN s : j > 1 \/ step = "next"}}
Uncounted(t) == Rest(calls[t], at[t])

Held == {a \in Keyed : latched[a] # 0}
AtRest == \A t \in Threads : calls[t] = NoCalls

Init ==
  /\ keyDown = {} /\ btnDown = {} /\ presses = 0 /\ faults = 0
  /\ binds = Keyed /\ latched = [a \in Keyed |-> 0] /\ gen = 0
  /\ fired = [a \in Keyed |-> {}] /\ stream = "up" /\ hkSuspended = FALSE
  /\ jbinds = Stick /\ active = {} /\ notifyMu = "free" /\ jmSuspended = FALSE
  /\ holds = Actions /\ count = [a \in Actions |-> 0]
  /\ tx = {} /\ ptt = FALSE
  /\ calls = [t \in Threads |-> NoCalls] /\ at = [t \in Threads |-> "next"]
  /\ held = [t \in Threads |-> FALSE] /\ raced = FALSE /\ late = FALSE
  /\ owed = [s \in {"key", "stick"} |-> [a \in Actions |-> 0]]
  /\ ui = "idle" /\ registry = Actions /\ ops = 0

(* Goroutine t leaves its lock and owes the Handler these calls. raced     *)
(* remembers that two goroutines were ever on their way to it at once.     *)
Begin(t, s) ==
  /\ calls[t] = NoCalls
  /\ calls' = [calls EXCEPT ![t] = s]
  /\ raced' = (raced \/ (s # NoCalls /\ \E u \in Threads \ {t} : calls[u] # NoCalls))
  /\ UNCHANGED <<at, held, owed, late>>

(***************************************************************************)
(* The keyboard dispatcher                                                 *)
(***************************************************************************)

(* A latch is set; its watchdog is armed with its generation.              *)
SetLatch(a) ==
  /\ gen < MaxGen
  /\ gen' = gen + 1
  /\ latched' = [latched EXCEPT ![a] = gen + 1]

\* Mutant: the watchdog is armed for the first latch only.
ArmedOnce(a) == latched[a] = 1 /\ latched[a] \notin fired[a]
Armed(a) == latched[a] # 0 /\ latched[a] \notin fired[a]

(* Every latch of S is taken, with the Released each one owes; a watchdog  *)
(* that has not fired is stopped with its latch.                           *)
TakeLatches(t, S) ==
  /\ latched' = [a \in Keyed |-> IF a \in S THEN 0 ELSE latched[a]]
  /\ Begin(t, Edges("release", Held \cap S \cap binds))

(* A key goes down, or repeats: the latch swallows the repetition.         *)
KeyDown(a) ==
  /\ stream = "up" /\ presses < MaxPresses
  /\ presses' = presses + 1 /\ keyDown' = keyDown \cup {a}
  /\ \/ a \in binds /\ latched[a] = 0
        /\ SetLatch(a)
        /\ Begin("hook", Edges("press", {a}))
     \/ (a \notin binds \/ latched[a] # 0) /\ a \notin keyDown
        /\ Begin("hook", NoCalls)
        /\ UNCHANGED <<latched, gen>>
  /\ UNCHANGED <<btnDown, faults, binds, fired, stream, hkSuspended, joy, app, uiv>>

KeyUp(a) ==
  /\ stream = "up" /\ a \in keyDown
  /\ keyDown' = keyDown \ {a}
  /\ TakeLatches("hook", {a} \cap binds)
  /\ UNCHANGED <<btnDown, presses, faults, binds, gen, fired, stream, hkSuspended, joy, app, uiv>>

(* The hook's buffer was full, or the stream is dead: nobody sees the up.  *)
KeyUpLost(a) ==
  /\ a \in keyDown
  /\ keyDown' = keyDown \ {a}
  /\ \/ stream = "dead" /\ UNCHANGED faults
     \/ stream = "up" /\ faults < MaxFaults /\ faults' = faults + 1
  /\ UNCHANGED <<btnDown, presses, keyb, joy, app, thr, uiv>>

(* The stream reports itself dead: what is held is released, and what is   *)
(* registered stays.                                                       *)
StreamDies ==
  /\ stream = "up" /\ faults < MaxFaults
  /\ faults' = faults + 1 /\ stream' = "dead"
  /\ TakeLatches("hook", Keyed)
  /\ UNCHANGED <<keyDown, btnDown, presses, binds, gen, fired, hkSuspended, joy, app, uiv>>

Expire(a) ==
  /\ Armed(a)
  /\ fired' = [fired EXCEPT ![a] = @ \cup {latched[a]}]
  /\ UNCHANGED <<phys, binds, latched, gen, stream, hkSuspended, joy, app, thr, uiv>>

\* Mutant: whatever is latched now is released.
Stale(a, g) == latched[a] = 0
(* The latch the watchdog was armed for is gone.                           *)
Outdated(a, g) == latched[a] = 0 \/ latched[a] # g

ForceRelease(a, g) ==
  /\ g \in fired[a]
  /\ fired' = [fired EXCEPT ![a] = @ \ {g}]
  /\ TakeLatches("dog", IF Outdated(a, g) THEN {} ELSE {a})
  /\ UNCHANGED <<phys, binds, gen, stream, hkSuspended, joy, app, uiv>>

(***************************************************************************)
(* The joystick manager                                                    *)
(***************************************************************************)

ButtonDown(a) ==
  /\ a \notin btnDown /\ presses < MaxPresses
  /\ presses' = presses + 1 /\ btnDown' = btnDown \cup {a}
  /\ UNCHANGED <<keyDown, faults, keyb, joy, app, thr, uiv>>

ButtonUp(a) ==
  /\ a \in btnDown /\ btnDown' = btnDown \ {a}
  /\ UNCHANGED <<keyDown, presses, faults, keyb, joy, app, thr, uiv>>

\* Mutant: a span of calls does not exclude another.
TakeUnguarded(t, s) == notifyMu' = notifyMu /\ Begin(t, s)
(* notifyMu is held from the commit until the last Handler call returned.  *)
TakeNotify(t, s) ==
  /\ notifyMu = "free"
  /\ notifyMu' = IF s = NoCalls THEN "free" ELSE t
  /\ Begin(t, s)

(* One poll: the active set becomes the bound buttons that are down.       *)
Tick ==
  LET want == btnDown \cap jbinds IN
  /\ ~jmSuspended /\ active # want
  /\ TakeNotify("poll", Edges("press", want \ active) \o
                        Edges("release", (active \ want) \cap jbinds))
  /\ active' = want
  /\ UNCHANGED <<phys, keyb, jbinds, jmSuspended, app, uiv>>

(***************************************************************************)
(* Rebinding and capturing                                                 *)
(***************************************************************************)

UiIs(from, to) == ui = from /\ ui' = to /\ calls["ui"] = NoCalls

\* Mutant: the new map is installed before the two managers release.
NewHolds == registry'
(* While the managers release and register, an action owes a Released if   *)
(* it did before or will after.                                            *)
UnionHolds == holds \cup registry'

(* A keybind changed, or the server changed the radios: applyHotkeys.      *)
StartApply(R) ==
  /\ UiIs("idle", "clear") /\ ops < MaxOps /\ ops' = ops + 1
  /\ registry' = R
  /\ holds' = UnionHolds
  /\ UNCHANGED <<phys, keyb, joy, count, tx, ptt, thr>>

\* Mutant: the registrations go before the latches, which owe nothing then.
ClearForgets ==
  /\ binds' = {} /\ latched' = [a \in Keyed |-> 0]
  /\ Begin("ui", NoCalls)
(* UnregisterAll: every latch is released and every registration dropped.  *)
Clear == binds' = {} /\ TakeLatches("ui", Keyed)

(* Apply records the set while suspended, and clears otherwise; Resume     *)
(* clears too.                                                             *)
ApplyClears ==
  /\ UiIs("clear", "register") /\ ~hkSuspended
  /\ Clear
  /\ UNCHANGED <<phys, gen, fired, stream, hkSuspended, joy, app, registry, ops>>

ApplyRecords ==
  /\ UiIs("clear", "stick") /\ hkSuspended
  /\ UNCHANGED <<phys, keyb, joy, app, thr, registry, ops>>

(* Register: a dead stream is restarted once its reader has stopped.       *)
Register ==
  /\ UiIs("register", "stick")
  /\ stream = "up" \/ calls["hook"] = NoCalls
  /\ stream' = "up"
  /\ binds' = Keyed \cap registry
  /\ UNCHANGED <<phys, latched, gen, fired, hkSuspended, joy, app, thr, registry, ops>>

ApplyStick ==
  /\ UiIs("stick", "holds")
  /\ TakeNotify("ui", Edges("release", active \cap jbinds))
  /\ active' = active \ jbinds
  /\ jbinds' = Stick \cap registry
  /\ UNCHANGED <<phys, keyb, jmSuspended, app, registry, ops>>

(* The union is dropped for the new map. late remembers that a call, its   *)
(* latch gone, was still to be counted for an action dropped with it.      *)
EndApply ==
  /\ UiIs("holds", "idle")
  /\ holds' = registry
  /\ late' = (late \/ \E t \in Threads : \E c \in Uncounted(t) : c.a \notin registry)
  /\ UNCHANGED <<phys, keyb, joy, count, tx, ptt, calls, at, held, owed, raced, registry, ops>>

(* BeginCapture suspends the keyboard, then the joysticks.                 *)
Suspend ==
  /\ UiIs("idle", "suspend") /\ ~hkSuspended /\ ops < MaxOps /\ ops' = ops + 1
  /\ hkSuspended' = TRUE
  /\ Clear
  /\ UNCHANGED <<phys, gen, fired, stream, joy, app, registry>>

SuspendStick ==
  /\ UiIs("suspend", "idle")
  /\ jmSuspended' = TRUE
  /\ TakeNotify("ui", Edges("release", active \cap jbinds))
  /\ active' = active \ jbinds
  /\ UNCHANGED <<phys, keyb, jbinds, app, registry, ops>>

(* EndCapture, or its timeout, resumes both.                               *)
Resume ==
  /\ UiIs("idle", "resume") /\ hkSuspended /\ ops < MaxOps /\ ops' = ops + 1
  /\ stream = "up" \/ calls["hook"] = NoCalls
  /\ hkSuspended' = FALSE /\ stream' = "up"
  /\ binds' = Keyed \cap registry
  /\ UNCHANGED <<phys, latched, gen, fired, joy, app, thr, registry>>

ResumeStick ==
  /\ UiIs("resume", "idle")
  /\ jmSuspended' = FALSE
  /\ UNCHANGED <<phys, keyb, jbinds, active, notifyMu, app, thr, registry, ops>>

(***************************************************************************)
(* The application's handler                                               *)
(***************************************************************************)

Now(t) == Head(calls[t])
SourceOf(t) == IF t = "poll" \/ (t = "ui" /\ ui \in {"holds", "idle"}) THEN "stick" ELSE "key"

(* The call of t is over; the last call of a joystick span frees notifyMu. *)
Return(t) ==
  /\ calls' = [calls EXCEPT ![t] = Tail(@)]
  /\ at' = [at EXCEPT ![t] = "next"]
  /\ held' = [held EXCEPT ![t] = FALSE]
  /\ notifyMu' = IF notifyMu = t /\ Len(calls[t]) = 1 THEN "free" ELSE notifyMu

Goes(t, step) == at' = [at EXCEPT ![t] = step] /\ UNCHANGED <<calls, held, notifyMu>>

(* Only the first press and the last release of a hold action go on.       *)
FirstOrLast(c) ==
  \/ c.a \notin holds
  \/ c.edge = "press" /\ count[c.a] = 0
  \/ c.edge = "release" /\ count[c.a] = 1

Counted(c) ==
  IF c.a \notin holds THEN count[c.a]
  ELSE IF c.edge = "press" THEN count[c.a] + 1
  ELSE IF count[c.a] = 0 THEN 0 ELSE count[c.a] - 1

Enter(t) ==
  /\ calls[t] # NoCalls /\ at[t] = "next"
  /\ count' = [count EXCEPT ![Now(t).a] = Counted(Now(t))]
  /\ owed' = [owed EXCEPT ![SourceOf(t)][Now(t).a] =
                IF Now(t).edge = "press" THEN @ + 1 ELSE @ - 1]
  /\ IF FirstOrLast(Now(t)) THEN Goes(t, "tx") ELSE Return(t)
  /\ UNCHANGED <<phys, keyb, jbinds, active, jmSuspended, holds, tx, ptt, raced, late, uiv>>

(* txPress and txRelease change the set of transmitting actions under     *)
(* voiceState.mu. What they and scheduleTXTargetClear set on the session   *)
(* is a module of its own.                                                 *)
TxPress(t) ==
  /\ at[t] = "tx" /\ Now(t).edge = "press"
  /\ tx' = tx \cup {Now(t).a}
  /\ Goes(t, "gate")
  /\ UNCHANGED <<phys, keyb, jbinds, active, jmSuspended, holds, count, ptt, owed, raced, late, uiv>>

TxRelease(t) ==
  /\ at[t] = "tx" /\ Now(t).edge = "release"
  /\ tx' = tx \ {Now(t).a}
  /\ held' = [held EXCEPT ![t] = tx' # {}]
  /\ at' = [at EXCEPT ![t] = "gate"]
  /\ UNCHANGED <<phys, keyb, joy, holds, count, ptt, calls, owed, raced, late, uiv>>

(* SetPTT stores what this goroutine found under the lock it has left.     *)
Gate(t) ==
  /\ at[t] = "gate"
  /\ ptt' = (Now(t).edge = "press" \/ held[t])
  /\ Return(t)
  /\ UNCHANGED <<phys, keyb, jbinds, active, jmSuspended, holds, count, tx, owed, raced, late, uiv>>

HandlerStep(t) == Enter(t) \/ TxPress(t) \/ TxRelease(t) \/ Gate(t)
UiEnds == ApplyClears \/ ApplyRecords \/ Register \/ ApplyStick \/ EndApply
          \/ SuspendStick \/ ResumeStick
WatchdogStep == \E a \in Keyed : Expire(a) \/ \E g \in fired[a] : ForceRelease(a, g)

Next ==
  \/ \E a \in Keyed : KeyDown(a) \/ KeyUp(a) \/ KeyUpLost(a)
  \/ StreamDies
  \/ WatchdogStep
  \/ \E a \in Stick : ButtonDown(a) \/ ButtonUp(a)
  \/ Tick
  \/ \E R \in {Actions, Actions \ Transient} : StartApply(R)
  \/ Suspend \/ Resume \/ UiEnds
  \/ \E t \in Threads : HandlerStep(t)

Spec == Init /\ [][Next]_vars
(* The runtime schedules every goroutine and fires every timer; the user,  *)
(* the OS and the settings screen owe nothing. A waiter gets notifyMu.     *)
FairSpec ==
  /\ Spec
  /\ \A t \in Threads : WF_vars(HandlerStep(t))
  /\ WF_vars(WatchdogStep) /\ SF_vars(UiEnds)

(***************************************************************************)
(* Properties                                                              *)
(***************************************************************************)

(* Types of the dispatcher, both managers and the application's handler.   *)
TypeOK ==
  /\ keyDown \subseteq Keyed /\ btnDown \subseteq Stick
  /\ presses \in 0..MaxPresses /\ faults \in 0..MaxFaults
  /\ binds \subseteq Keyed /\ latched \in [Keyed -> 0..MaxGen] /\ gen \in 0..MaxGen
  /\ fired \in [Keyed -> SUBSET (1..MaxGen)] /\ stream \in {"up", "dead"}
  /\ hkSuspended \in BOOLEAN /\ jmSuspended \in BOOLEAN
  /\ ptt \in BOOLEAN /\ raced \in BOOLEAN /\ late \in BOOLEAN
  /\ jbinds \subseteq Stick /\ active \subseteq Stick
  /\ notifyMu \in {"free", "poll", "ui"}
  /\ holds \subseteq Actions /\ count \in [Actions -> Nat]
  /\ tx \subseteq Actions
  /\ calls \in [Threads -> Seq(Call)]
  /\ at \in [Threads -> {"next", "tx", "gate"}]
  /\ held \in [Threads -> BOOLEAN]
  /\ owed \in [{"key", "stick"} -> [Actions -> Int]]
  /\ ui \in {"idle", "clear", "register", "stick", "holds", "suspend", "resume"}
  /\ registry \subseteq Actions /\ ops \in 0..MaxOps

(* Calls for a that source s still has to make to the Handler.             *)
Waiting(t, s, e, a) ==
  IF SourceOf(t) = s /\ [edge |-> e, a |-> a] \in Uncounted(t) THEN 1 ELSE 0
AllWaiting(s, e, a) ==
  Waiting("hook", s, e, a) + Waiting("dog", s, e, a) + Waiting("poll", s, e, a)
    + Waiting("ui", s, e, a)

(* dispatcher: a latch never disappears without its Released, whichever of *)
(* the reader, a rebind, a suspension, a dead stream or a watchdog took it *)
(* (dispatch.go:152-173).                                                  *)
LatchOwesReleased ==
  \A a \in Keyed :
    owed["key"][a] + AllWaiting("key", "press", a) - AllWaiting("key", "release", a)
      = (IF latched[a] # 0 THEN 1 ELSE 0)

(* Manager.notifyMu: for one action the joystick's calls alternate,        *)
(* Pressed first, although poll and rebind make them (manager.go:36-62).   *)
ButtonEdgesAlternate == \A a \in Stick : owed["stick"][a] \in {0, 1}

(* Presses and releases balance on both ways into the handler, the         *)
(* dispatcher's and the joystick manager's.                                *)
EdgesBalance == LatchOwesReleased /\ ButtonEdgesAlternate

(* pressed, released, applyHotkeys: as long as no two goroutines have met  *)
(* in the handler, and no rebind ended while a call for an action it drops *)
(* was on its way, the gate is open and the action transmits exactly while *)
(* a source holds it, over every rebind that drops or adds actions.        *)
MicFollowsHolds ==
  AtRest /\ ~raced /\ ~late =>
    /\ \A a \in Actions : (a \in Held \cup active) <=> (a \in tx)
    /\ ptt <=> tx # {}

(* forceRelease: a key that is down and bound loses its latch to a         *)
(* watchdog only when the timeout of this very press has run out.          *)
HeldKeyIsNotCut ==
  [][\A a \in Keyed :
       latched[a] # 0 /\ latched'[a] = 0 /\ a \in keyDown' /\ binds' # {}
         /\ stream' = "up" => latched[a] \in fired[a]]_vars

(* forceRelease: no latch outlives its watchdog, lost key-up or not.       *)
LostKeyUpIsReleased == \A a \in Keyed : [](latched[a] # 0 => <>(latched[a] = 0))

(* A microphone nobody holds is shut: once every call has been made and    *)
(* neither source holds anything, nothing transmits (dispatch.go:108-111,  *)
(* voice.go:520-522).                                                      *)
MicShutWhenNothingHeld == AtRest /\ Held \cup active = {} => tx = {} /\ ~ptt
=============================================================================

---------------------------- MODULE HotkeyRefresh ----------------------------
(***************************************************************************)
(* When the registered hotkeys are applied anew (internal/app):            *)
(* keybindrefresh.go queues a refresh for every change of the local        *)
(* radios; settings.go applies them when the operating system has granted  *)
(* the permission to see keys, noticed by a poll that the user's click     *)
(* arms, by the focus of the main window, or by the click itself.          *)
(*                                                                         *)
(* Store observers run on the goroutine that changed the store: the update *)
(* stream's and a binding's.  A section of sb.mu or of the refresher's mu  *)
(* is one step; writeMu is held across an apply, which reads the radios    *)
(* and builds the event taps under the grant of that moment.  A signature  *)
(* is the radios it is of.  The user answers the prompt after the click    *)
(* that raised it has returned.                                            *)
(***************************************************************************)
EXTENDS Integers

CONSTANTS Radios,      \* what the local client's radios can be
          NoRadios,    \* before the first login, one of them
          Updaters,    \* goroutines that change the store
          Hooks,       \* window hooks that run at once
          MaxAsks,     \* bound: clicks on GRANT ACCESS and focus events
          MaxEvents    \* bound: those and changes of the radios

RefreshAssumption ==
  NoRadios \in Radios /\ MaxAsks \in Nat /\ MaxEvents \in Nat

Polls == 1 .. MaxAsks
NoPoll == 0
Free == <<"free", 0>>  \* writeMu, otherwise whose it is

VARIABLES
  radios,           \* the local radios in the store
  updater, sig,     \* where an updater is, and the signature it has read
  radioSig,         \* settingsBackend.radioSig
  pending, stopped, wake,  \* keybindRefresher
  refresher,        \* where its loop is
  quit,             \* where ServiceShutdown is
  granted,          \* the operating system's answer
  lastPerm,         \* whether settingsBackend.lastPerm is granted
  poll, cancelled,  \* where each poll is; the polls whose channel is closed
  permCancel,       \* the poll of settingsBackend.permCancel
  hook,             \* where a window hook is
  click, clicks,    \* where RequestHotkeyPermission is, and its calls
  writeMu,          \* settingsBackend.writeMu
  applied,          \* the radios and the grant of the last apply
  changes, focuses, \* counted against the bounds
  returned,         \* history: radios became again what radioSig still was
  peeked,           \* history: the grant was found by one who only looked
  rebuilt           \* history: taps rebuilt by polls and hooks under the grant

radioVars == <<radios, updater, sig, radioSig, pending, stopped, wake, refresher,
               quit, changes, returned>>
permVars == <<granted, lastPerm, poll, cancelled, permCancel, hook, click, clicks,
              focuses, peeked, rebuilt>>
vars == <<radioVars, permVars, writeMu, applied>>

TypeOK ==
  /\ {radios, radioSig, applied.radios} \subseteq Radios /\ sig \in [Updaters -> Radios]
  /\ updater \in [Updaters -> {"idle", "changed", "read", "enqueue", "wake"}]
  /\ pending \in 0 .. MaxEvents /\ changes \in 0 .. MaxEvents
  /\ {stopped, wake, granted, lastPerm, returned, peeked, applied.granted} \subseteq BOOLEAN
  /\ refresher \in {"wait", "check", "ready", "applied", "returned"}
  /\ quit \in {"no", "polls", "stopping", "closed"}
  /\ poll \in [Polls -> {"none", "ticking", "found", "applied", "over"}]
  /\ cancelled \subseteq Polls /\ permCancel \in Polls \cup {NoPoll}
  /\ hook \in [Hooks -> {"idle", "passed", "locked", "found", "applied"}]
  /\ click \in {"idle", "arm", "cancel", "ready", "applied"}
  /\ clicks \in 0 .. MaxAsks /\ focuses \in 0 .. MaxAsks
  /\ rebuilt \in 0 .. MaxAsks

\* SetSettingsBackend has applied the hotkeys once, without radios or grant.
Init ==
  /\ radios = NoRadios /\ radioSig = NoRadios
  /\ updater = [u \in Updaters |-> "idle"] /\ sig = [u \in Updaters |-> NoRadios]
  /\ pending = 0 /\ stopped = FALSE /\ wake = FALSE
  /\ refresher = "wait" /\ quit = "no"
  /\ granted = FALSE /\ lastPerm = FALSE
  /\ poll = [p \in Polls |-> "none"] /\ cancelled = {} /\ permCancel = NoPoll
  /\ hook = [h \in Hooks |-> "idle"] /\ click = "idle" /\ clicks = 0
  /\ writeMu = Free /\ applied = [radios |-> NoRadios, granted |-> FALSE]
  /\ changes = 0 /\ focuses = 0
  /\ returned = FALSE /\ peeked = FALSE /\ rebuilt = 0

MoreEvents == changes + clicks + focuses < MaxEvents

-----------------------------------------------------------------------------
(* onRadiosChanged, on the goroutine of an updater.                        *)

ChangeRadios(u) ==
  /\ updater[u] = "idle" /\ MoreEvents /\ quit = "no"
  /\ radios' \in Radios \ {radios} /\ changes' = changes + 1
  /\ updater' = [updater EXCEPT ![u] = "changed"]
  /\ returned' = (returned \/ radios' = radioSig)
  /\ UNCHANGED <<sig, radioSig, pending, stopped, wake, refresher, quit, permVars,
                 writeMu, applied>>

ReadSignature(u) ==
  /\ updater[u] = "changed"
  /\ updater' = [updater EXCEPT ![u] = "read"] /\ sig' = [sig EXCEPT ![u] = radios]
  /\ UNCHANGED <<radios, radioSig, pending, stopped, wake, refresher, quit, changes,
                 returned, permVars, writeMu, applied>>

\* Mutant: a refresh that is under way is taken to see the change.
ChangedUnlessRunning(u) == sig[u] # radioSig /\ refresher # "applied"
Changed(u) == sig[u] # radioSig

SwapSignature(u) ==
  /\ updater[u] = "read"
  /\ radioSig' = sig[u] /\ sig' = [sig EXCEPT ![u] = NoRadios]
  /\ updater' = [updater EXCEPT ![u] = IF Changed(u) THEN "enqueue" ELSE "idle"]
  /\ UNCHANGED <<radios, pending, stopped, wake, refresher, quit, changes,
                 returned, permVars, writeMu, applied>>

Enqueue(u) ==
  /\ updater[u] = "enqueue"
  /\ pending' = IF stopped THEN pending ELSE pending + 1
  /\ updater' = [updater EXCEPT ![u] = IF stopped THEN "idle" ELSE "wake"]
  /\ UNCHANGED <<radios, sig, radioSig, stopped, wake, refresher, quit, changes,
                 returned, permVars, writeMu, applied>>

Wake(u) ==
  /\ updater[u] = "wake" /\ wake' = TRUE
  /\ updater' = [updater EXCEPT ![u] = "idle"]
  /\ UNCHANGED <<radios, sig, radioSig, pending, stopped, refresher, quit, changes,
                 returned, permVars, writeMu, applied>>

-----------------------------------------------------------------------------
(* What every apply does (applyHotkeys): the bindings of the radios of the *)
(* moment go to event taps built under the grant of the moment, and        *)
(* emitHotkeyState then looks at the grant again.                          *)

Apply(who) ==
  /\ writeMu = Free /\ writeMu' = who
  /\ applied' = [radios |-> radios, granted |-> granted]
Unlock == writeMu' = Free
\* permissionStatus, by one who does not apply because of what it says.
Look == lastPerm' = granted /\ peeked' = (peeked \/ (granted /\ ~applied.granted))
\* permissionStatus, by one who does.
See == lastPerm' = granted /\ UNCHANGED peeked

-----------------------------------------------------------------------------
(* keybindRefresher.loop and close.                                        *)

RefresherWakes ==
  /\ refresher = "wait" /\ wake /\ wake' = FALSE /\ refresher' = "check"
  /\ UNCHANGED <<radios, updater, sig, radioSig, pending, stopped, quit, changes,
                 returned, permVars, writeMu, applied>>

RefresherReturns ==
  /\ refresher = "wait" /\ quit = "stopping" /\ refresher' = "returned"
  /\ UNCHANGED <<radios, updater, sig, radioSig, pending, stopped, wake, quit, changes,
                 returned, permVars, writeMu, applied>>

TakeJob ==
  /\ refresher = "check"
  /\ IF stopped \/ pending = 0
       THEN refresher' = "wait" /\ UNCHANGED pending
       ELSE refresher' = "ready" /\ pending' = pending - 1
  /\ UNCHANGED <<radios, updater, sig, radioSig, stopped, wake, quit, changes, returned,
                 permVars, writeMu, applied>>

RefresherApplies ==
  /\ refresher = "ready" /\ refresher' = "applied" /\ Apply(<<"refresher", 0>>)
  /\ UNCHANGED <<radios, updater, sig, radioSig, pending, stopped, wake, quit, changes,
                 returned, permVars>>

\* Mutant: one job for each wake-up.
AfterJobOnce == "wait"
AfterJob == "check"

RefresherEmits ==
  /\ refresher = "applied" /\ refresher' = AfterJob /\ Look /\ Unlock
  /\ UNCHANGED <<radios, updater, sig, radioSig, pending, stopped, wake, quit, changes,
                 returned, granted, poll, cancelled, permCancel, hook, click, clicks,
                 focuses, rebuilt, applied>>

StopRefresher ==
  /\ quit = "polls" /\ quit' = "stopping" /\ stopped' = TRUE /\ pending' = 0
  /\ UNCHANGED <<radios, updater, sig, radioSig, wake, refresher, changes, returned,
                 permVars, writeMu, applied>>

\* Mutant: the hotkey layer is closed without waiting for the worker.
NotJoined == TRUE
Joined == refresher = "returned"

CloseHotkeys ==
  /\ quit = "stopping" /\ Joined /\ quit' = "closed"
  /\ UNCHANGED <<radios, updater, sig, radioSig, pending, stopped, wake, refresher,
                 changes, returned, permVars, writeMu, applied>>

-----------------------------------------------------------------------------
(* The permission.                                                         *)

Grant ==
  /\ ~granted /\ click # "arm" /\ granted' = TRUE
  /\ UNCHANGED <<lastPerm, poll, cancelled, permCancel, hook, click, clicks, focuses,
                 peeked, rebuilt, radioVars, writeMu, applied>>

\* A view asks for the state.
GetHotkeyState ==
  /\ lastPerm # granted /\ Look
  /\ UNCHANGED <<granted, poll, cancelled, permCancel, hook, click, clicks, focuses,
                 rebuilt, radioVars, writeMu, applied>>

cancelPermissionPoll ==
  /\ permCancel' = NoPoll
  /\ cancelled' = cancelled \cup ({permCancel} \ {NoPoll})

\* stopPermissionPoll: the wait for the poll is bounded.
StopPolls ==
  /\ quit = "no" /\ quit' = "polls" /\ cancelPermissionPoll
  /\ UNCHANGED <<radios, updater, sig, radioSig, pending, stopped, wake, refresher,
                 changes, returned, granted, lastPerm, poll, hook, click, clicks, focuses,
                 peeked, rebuilt, writeMu, applied>>

Request ==
  /\ click = "idle" /\ clicks + focuses < MaxAsks /\ MoreEvents /\ quit = "no"
  /\ clicks' = clicks + 1
  /\ click' = (IF granted THEN "cancel" ELSE "arm") /\ See
  /\ UNCHANGED <<granted, poll, cancelled, permCancel, hook, focuses, rebuilt,
                 radioVars, writeMu, applied>>

\* A second click supersedes the poll of the first.
ArmPoll ==
  /\ click = "arm" /\ click' = "idle"
  /\ cancelled' = cancelled \cup ({permCancel} \ {NoPoll}) /\ permCancel' = clicks
  /\ poll' = [poll EXCEPT ![clicks] = "ticking"]
  /\ UNCHANGED <<granted, lastPerm, hook, clicks, focuses, peeked, rebuilt, radioVars,
                 writeMu, applied>>

ClickCancels ==
  /\ click = "cancel" /\ click' = "ready" /\ cancelPermissionPoll
  /\ UNCHANGED <<granted, lastPerm, poll, hook, clicks, focuses, peeked, rebuilt,
                 radioVars, writeMu, applied>>

ClickApplies ==
  /\ click = "ready" /\ click' = "applied" /\ Apply(<<"click", 0>>)
  /\ UNCHANGED <<granted, lastPerm, poll, cancelled, permCancel, hook, clicks, focuses,
                 peeked, rebuilt, radioVars>>

ClickEmits ==
  /\ click = "applied" /\ click' = "idle" /\ See /\ Unlock
  /\ UNCHANGED <<granted, poll, cancelled, permCancel, hook, clicks, focuses, rebuilt,
                 radioVars, applied>>

\* The ticker of a poll.
Tick(p) ==
  /\ poll[p] = "ticking" /\ granted
  /\ poll' = [poll EXCEPT ![p] = "found"] /\ See
  /\ UNCHANGED <<granted, cancelled, permCancel, hook, click, clicks, focuses, rebuilt,
                 radioVars, writeMu, applied>>

\* Its channel.
Superseded(p) ==
  /\ poll[p] = "ticking" /\ p \in cancelled
  /\ poll' = [poll EXCEPT ![p] = "over"]
  /\ UNCHANGED <<granted, lastPerm, cancelled, permCancel, hook, click, clicks, focuses,
                 peeked, rebuilt, radioVars, writeMu, applied>>

\* Its deadline, half a minute after the poll it superseded has seen its channel;
\* a grant between the last tick and the deadline is as one after both.
Deadline(p) ==
  /\ poll[p] = "ticking" /\ p \notin cancelled /\ ~granted
  /\ \A q \in cancelled : poll[q] # "ticking"
  /\ poll' = [poll EXCEPT ![p] = "over"]
  /\ UNCHANGED <<granted, lastPerm, cancelled, permCancel, hook, click, clicks, focuses,
                 peeked, rebuilt, radioVars, writeMu, applied>>

\* Mutant: the channel is only looked at before the lock.
NotSuperseded(p) == TRUE
StillWanted(p) == p \notin cancelled

\* applyGrantedHotkeys looks at its channel once more under the lock.
PollApplies(p) ==
  /\ poll[p] = "found"
  /\ IF StillWanted(p)
       THEN /\ Apply(<<"poll", p>>) /\ poll' = [poll EXCEPT ![p] = "applied"]
            /\ rebuilt' = rebuilt + 1
       ELSE /\ writeMu = Free /\ poll' = [poll EXCEPT ![p] = "over"]
            /\ UNCHANGED <<writeMu, applied, rebuilt>>
  /\ UNCHANGED <<granted, lastPerm, cancelled, permCancel, hook, click, clicks, focuses,
                 peeked, radioVars>>

PollEmits(p) ==
  /\ poll[p] = "applied" /\ poll' = [poll EXCEPT ![p] = "over"] /\ See /\ Unlock
  /\ UNCHANGED <<granted, cancelled, permCancel, hook, click, clicks, focuses, rebuilt,
                 radioVars, applied>>

\* RecheckHotkeyPermission: a look before the lock, and another under it.
Focus(h) ==
  /\ hook[h] = "idle" /\ clicks + focuses < MaxAsks /\ MoreEvents /\ quit = "no"
  /\ focuses' = focuses + 1
  /\ hook' = [hook EXCEPT ![h] = IF lastPerm THEN "idle" ELSE "passed"]
  /\ UNCHANGED <<granted, lastPerm, poll, cancelled, permCancel, click, clicks, peeked,
                 rebuilt, radioVars, writeMu, applied>>

\* Mutant: the look before the lock is enough.
NobodyElse == TRUE
NotYetFound == ~lastPerm

HookLocks(h) ==
  /\ hook[h] = "passed" /\ writeMu = Free
  /\ IF NotYetFound
       THEN writeMu' = <<"hook", h>> /\ hook' = [hook EXCEPT ![h] = "locked"]
       ELSE UNCHANGED writeMu /\ hook' = [hook EXCEPT ![h] = "idle"]
  /\ UNCHANGED <<granted, lastPerm, poll, cancelled, permCancel, click, clicks, focuses,
                 peeked, rebuilt, radioVars, applied>>

\* Mutant: a poll that is armed is left to do it.
GrantedWithoutPoll == granted /\ permCancel = NoPoll
GrantedNow == granted

HookLooks(h) ==
  /\ hook[h] = "locked" /\ See
  /\ IF GrantedNow
       THEN hook' = [hook EXCEPT ![h] = "found"] /\ UNCHANGED writeMu
       ELSE hook' = [hook EXCEPT ![h] = "idle"] /\ Unlock
  /\ UNCHANGED <<granted, poll, cancelled, permCancel, click, clicks, focuses, rebuilt,
                 radioVars, applied>>

HookApplies(h) ==
  /\ hook[h] = "found" /\ hook' = [hook EXCEPT ![h] = "applied"]
  /\ cancelPermissionPoll
  /\ applied' = [radios |-> radios, granted |-> granted] /\ rebuilt' = rebuilt + 1
  /\ UNCHANGED <<granted, lastPerm, poll, click, clicks, focuses, peeked, radioVars,
                 writeMu>>

HookEmits(h) ==
  /\ hook[h] = "applied" /\ hook' = [hook EXCEPT ![h] = "idle"] /\ See /\ Unlock
  /\ UNCHANGED <<granted, poll, cancelled, permCancel, click, clicks, focuses, rebuilt,
                 radioVars, applied>>

Next ==
  \/ \E u \in Updaters :
       ChangeRadios(u) \/ ReadSignature(u) \/ SwapSignature(u) \/ Enqueue(u) \/ Wake(u)
  \/ RefresherWakes \/ RefresherReturns \/ TakeJob
  \/ RefresherApplies \/ RefresherEmits
  \/ StopPolls \/ StopRefresher \/ CloseHotkeys
  \/ Grant \/ GetHotkeyState \/ Request \/ ArmPoll
  \/ ClickCancels \/ ClickApplies \/ ClickEmits
  \/ \E p \in Polls : Tick(p) \/ Superseded(p) \/ Deadline(p) \/ PollApplies(p) \/ PollEmits(p)
  \/ \E h \in Hooks :
       \/ Focus(h) \/ HookLocks(h) \/ HookLooks(h)
       \/ HookApplies(h) \/ HookEmits(h)

Spec == Init /\ [][Next]_vars

-----------------------------------------------------------------------------
(* Properties.                                                             *)

\* When nothing is on its way any more, the hotkeys are those of the radios in
\* the store, in whatever order observers read and store their signatures
\* (onRadiosChanged, keybindRefresher).  Not so once radios that differed from
\* the signature in force, stale or not yet stored over, returned to it: they
\* look unchanged.
HotkeysFollowRadios ==
  quit = "no" /\ refresher = "wait" /\ ~wake /\ ~returned
  /\ (\A u \in Updaters : updater[u] = "idle")
  => pending = 0 /\ applied.radios = radios

\* A grant that the program shows has been built into the event taps, once
\* whoever found it is done (RecheckHotkeyPermission, applyGrantedHotkeys).
\* Not so when one who only looked found it first: the focus then looks away.
GrantTakesEffect ==
  quit = "no" /\ lastPerm /\ ~peeked /\ click = "idle"
  /\ (\A p \in Polls : poll[p] \in {"none", "over"})
  /\ (\A h \in Hooks : hook[h] = "idle")
  => applied.granted

\* The event taps built under a fresh grant are not torn down and built again
\* by the next window hook or by a poll that found the same grant.
TapsAreBuiltOnce == rebuilt <= 1

\* The worker is gone when the hotkey layer is closed (stopKeybindRefresh).
NoRefreshAfterClose == quit = "closed" => refresher = "returned"

\* The hotkeys in force are those of the radios and the grant (applyHotkeys).
HotkeysAreCurrent ==
  /\ HotkeysFollowRadios /\ GrantTakesEffect
  /\ TapsAreBuiltOnce /\ NoRefreshAfterClose
=============================================================================

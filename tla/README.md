# vcs-srs-client in TLA+

A verification development of the VCS SRS client: a desktop program (Go behind a Wails web
view) that logs in to a server over gRPC, keeps a roster of clients from an update stream,
sends and receives voice over UDP, and keys the microphone from the keyboard and from
joysticks. This directory has TLA+ modules of the parts in which goroutines, locks, timers,
files and an unreliable network meet, TLC configurations that check them on small instances,
and machine-checked proofs about eight of them (section 7).

Paths are relative to `src/`. Line numbers are in `PROJECT.json` ("map").

## 1. Inventory

Three planes run side by side; `internal/app` (the Wails bindings) joins them.

| component | state it keeps | operations | what makes it correct |
|---|---|---|---|
| control session `internal/session` | connection, remembered token, stream generation, attempt and cancel counters (`Session.mu`, `lifeMu`) | Connect, Reconnect, Disconnect, CancelConnect, PingOnce, the end of a stream, resync | one session at a time, never back once it is over; its loss reported once; a cancel is heard; a connection is always watched |
| roster hydration `internal/control` | the store's roster, `Held`'s buffer | Subscribe, SyncClient, Consume, Release | no update falls between the snapshot and the stream |
| connection health `internal/connhealth` | snapshot, failures, loss latch (`emitMu`, `mu`) | Tick, SetControlState, SetVoiceState | snapshots in commit order, a half-open link is dropped |
| voice session `internal/voice/session.go` | socket and its generation, state, callback queue, keepalives unanswered | Dial, HELLO ladder, keepalives, rebind, Close, OnState | connected means acknowledged; Close returns and leaves nothing behind; what a round trip means |
| capture path `audio/ring.go`, `frame_buffer.go` | accumulator, ring, the DSP loop's place in it | push, Write, Read, Drain | whole frames in order, a backlog is dropped at once and not in part |
| voice gate `audio/gate.go` | tails, sustain and hang of push-to-talk and voice activation | Step, SetConfig | open exactly when its settings say |
| voice transmit `voice/tx.go` | accumulator, generation, free list, queue | WriteFrame, txLoop, SetTargets, Close | no frame spans two transmissions; the encoder outlives its use |
| voice receive `voice/jitter.go`, `rx.go` | a stream per talker: jitter buffer, PCM ring | push, pop, reap | played in order, only late frames are given up, silent streams go |
| transmission rows `voice/rx.go`, `session.go` | a transmission's begin and end per stream, event queue | stamp, restart, end, sweep, drain | one row per transmission, at Close too |
| history log `internal/history` | rows, revision, dirty flag, file | Append, Clear, Tick, Flush | what is clean is in the file; quitting keeps the log |
| push-to-talk `internal/hotkeys`, `internal/joystick`, `app/presscount.go`, `app/audio.go` | latches and watchdogs, active buttons, press count, gate | key and button edges, rebind, suspend, resume | the gate is open exactly while something is held |
| hook stream `hotkeys/registrar_gohook.go` | OS stream, reader, the one retry | Register, UnregisterAll, Close | a stream that died restarts once per call; a held key gets its release |
| hotkey refresh and permission `app/keybindrefresh.go`, `settings.go` | radio signature, refresh queue, permission poll | onRadiosChanged, Request, Recheck, poll, close | the hotkeys in force are those of the radios and the grant |
| trigger capture `app/settings.go`, `joystick/capture.go` | capture token, timer, suspensions | BeginCapture, EndCapture, timeout, a button | a capture binds its own row; hotkeys come back |
| keybindings `internal/keybinds` | triggers per action, entries of other versions | Load, Add, RemoveAt, Clear, save, undo | one trigger fires one action; a change that is not saved is undone whole |
| configuration `app/persistcfg.go`, `settings.go`, `profiles.go` | config in memory and on disk, pending layout | transactions, late selections, flush at quit | a newer setting is never overwritten by an older |
| comms profiles `internal/profile`, `app/profiles.go` | profile files, the active one | load, save, save as, import, rename, delete, reset | a profile is clean until somebody edits something |
| shipped profiles `profile/builtin.go` | hashes of what was written | Seed at every start | the user's edits and deletions are kept |
| windows `app/windows.go`, `windowstate` | open windows, geometry | Open, Close, settle, persist | the last geometry is the one kept |
| notification centre `internal/notify` | items, suppressions, pending windows | Raise, Resolve, Dismiss, Clear | no settled state lost, no dismissed item back |
| voice plane `app/voice.go` | live session, generation, targets, own transmissions, clear timer | start, swap, redirect, teardown, txPress, txRelease | one session open, never behind a teardown, targets follow the hold |
| audio manager `audio/manager.go` | streams and their epoch, device targets, backoff | Start, Stop, poll, reopen | no microphone left open by an abandoned goroutine |
| load generator `internal/loadgen` | bots, tallies, deaths | set_n, burst, hold, quit | its report adds up; every connection is closed |
| window stores `frontend/src/shared/store` | a window's clients, radios, highlighted radio, settings and log; the fetch under way; the settings it has sent | hydrate, push, commit, drag | at rest a window shows what Go holds |
| conversions, codecs, device I/O, views, build | – | – | not modelled, see section 8 |

**How they interact.** The bindings call the session; the session's update stream writes the
store, whose observers (radios, voice redirect) run in order on goroutines of their own. The
health monitor pings through the session and calls back into `MarkControlLost`, which publishes
through the application into the monitor. The store's voice credentials start, redirect and
end the voice session; the generation counter in `voiceState` decides which dial may install
its session. Keys and buttons reach the application's Handler from four goroutines; it keeps
the press count, the set of transmitting actions and the audio gate under three locks, one
after the other. The DSP tick calls the voice session through an atomic pointer (the bridge).
Every settings call ends in `persistCfg`; a change of bindings or radios ends in `applyHotkeys`,
which rebuilds both hotkey managers.

**What is hard here.** Every component decides under a short lock and acts after dropping it
(RPC, callback, publication, Close of a replaced object, write of a file), so almost every
property depends on interleavings in these gaps. The windows fetch a snapshot and listen to events, and
either may be older than the other. Generations, epochs and tickets stand in for
"is this still mine". Connections break half-open, datagrams are lost and reordered, key-ups get
dropped, timers that have fired run late, saves fail, the process ends between a file and its
record, and several callbacks re-enter the object that calls them. `PROJECT.json` "hazards"
lists them at their lines, those not covered with the reason.

## 2. Modules

Each module is one component; a step is one critical section, one RPC or datagram, one file
operation, or one callback or publication. What a goroutine does between two of those touches
only its locals. History variables (marked "history" where they are declared) record what a
property needs and guard nothing. `TypeOK` documents the variables; the theorems `TypeCorrect`
prove it for the eight modules that have one, and no run spends its time on it.

**Session** (`internal/session`). Threads are the callers, one goroutine per update stream, and
the prober. A connection is named by the first stream opened on it. A call goes through
`QueueAttempt` (ticket from `cancelSeq`), `BeginAttempt` (`lifeMu`), `Login`, `Subscribe`, `Sync`,
`SetSelf`, `InstallConnect` or `InstallReconnect`, and a publication; any RPC may fail
(`FailAttempt`, `RejectReconnect`). A stream that ends goes to `HandleStreamEnd`, whose verdict is
lost, ended or resync; the resync opens a second stream on the same connection. Status codes are
reduced to these verdicts (`errors.go`).

**SessionContract** is the abstract specification: a session is remembered, linked and unlinked,
and once over is never remembered again. Session implements it with the mapping
`session <- lastToken, linked <- conn # None, past <- forgotten`.

**HeldStream** (`internal/control`). The server's roster as one version per client; the wire and
the held buffer with their capacities; the installer (Subscribe, wait for the acknowledgement,
SyncClient, hydrate, Release) and the consumer that decides under the Held's lock to hold or to
route. One version stands for a client's info and its radios, which the code treats alike.

**ConnHealth** (`internal/connhealth`). The ticker's probe without locks, its re-check and commit
under `emitMu` and `mu`, and `OnLoss` without locks, against control transitions of the session
and transitions of the voice session, each numbered. Publications arrive in the order they were
made: that they may cross is a matter of Session.

**VoiceSession** (`internal/voice/session.go`). Lifecycle goroutine, one `rxLoop` per socket,
`deliverLoop` and any number of closers (the first does the work). Sockets are their generations.
The server binds the session on a HELLO, answers keepalives of the bound socket, forgets the
binding when it restarts. A loop ends with its socket, or on a read that fails while the socket
stays (`ReadFails`): nothing reads that socket again, and the keepalives' misses bring the rebind.
**VoiceKeepalive** is what the same code measures: the list of
unanswered keepalives, the round trip, and the echoed server timestamp.

**CapturePath** (`audio/frame_buffer.go`, `ring.go`, `manager.go`). Samples by number from the
device's chunks through the accumulator into a ring of a few frames, every load, store and copied
sample a step of producer or consumer, and the plan of the DSP tick (drain after a drop, bounded
catch-up). `Capacity` is a constant; `PathAssumption` says that it is what NewRing computes, the
least power of two that holds the frames. The gate is taken as open, the load of `r` and the count of a drop are one step,
indices do not wrap; the playback ring is of the same kind and its filler the mirror image.

**VoiceGate** (`audio/gate.go`) runs the gate's counters beside the sequence of inputs it has seen;
`GateIsExact` is a definition without state that says from that sequence alone whether the gate
is open. A level is loud or not.

**VoiceTransmit** (`voice/tx.go`). DSP loops (an abandoned one may come back beside its successor),
`txLoop`, push-to-talk and Close. A section under `tx.mu` is one step; whether a write to the
socket succeeds changes nothing.

**VoiceReceive** (`voice/jitter.go`, `rx.go`). One stream: `rxVoice` between `rxStreamFor` and
`push`, the decode goroutine's top-up and reap, the DSP tick that drains the ring. Sequence
numbers wrap modulo `SeqMod`. Time is DSP ticks.

**TransmissionRows** (`voice/rx.go`, `session.go`). The receive goroutine's stamps and hints, the
decode goroutine's pass with its check outside the lock, the event queue and its reader, and
Close's sweep, join and drain. Exempt, as the code accepts them: a packet between the load and
the store of `endTransmission` goes into the ended row; a transmission that begins after the sweep
or on a reaped stream has none; a full queue drops.

**HistoryLog** (`internal/history`). Append, Clear, the periodic and the final flush; the snapshot
is taken under the lock, the file written without it.

**PushToTalk** (`hotkeys/dispatch.go`, `joystick/manager.go`, `internal/app`). Edges are decided
under the dispatcher's or the manager's lock and put on the goroutine's list of calls; `Enter`
(hold set and press count), `TxPress` or `TxRelease`, and `Gate` are the Handler's three locks.
`StartApply` to `EndApply` are `applyHotkeys`; suspension and resumption are capture. `isHold` and
the press count, two short locks in a row, are one step. Three history variables: `owed`, the presses
less the releases each source has handed over for an action; `raced`, two goroutines were on their way to the Handler at
once; `late`, a rebind ended while a call for an action it drops was on its way.

**HookStream** (`hotkeys/registrar_gohook.go`, `manager.go`). The OS stream, its reader and the
manager's Apply as the caller; a reader may be wedged beyond `readerStopTimeout` (`Wedges`). The
error of a session without hooks never reaches a stream and is left out.

**HotkeyRefresh** (`app/keybindrefresh.go`, `settings.go`). Store observers with their signatures,
the refresh worker and its bounded close, a click on "grant", the poll it arms, the focus
event's recheck. One click at a time; the user answers the prompt after the click's call has
returned and does not revoke; the applies that rebinding makes by itself are left out, and a poll
abandoned by the bounded wait at quit may still apply. Observers read and store their signatures
in any order; exempt are radios that return to a signature which is still in force (section 6).

**Capture** (`app/settings.go`, `joystick/capture.go`). Begin, the timer, cancel, and the button
that completes it, each with its token. Clicks are further apart than one BeginCapture takes.

**KeyBindings** (`internal/keybinds`, `app/settings.go`). Triggers per action as sequences; Load
works through the file's entries one by one, with what it drops; Add steals and keeps one chord;
a save that fails is undone by loading the snapshot made before. Files come from the user's hand,
while the program is down, or from another version. An absent list and an empty one are the same.

**Settings** (`app/persistcfg.go` and its callers). A transaction snapshots under `mu`, saves under
`saveMu`, and commits by mutating what is then in memory; keybinding changes roll back their
store; selections are persisted late and only if they are the newest. A selection is made and
takes its number in one step.

**Profiles** (`internal/profile`, `app/profiles.go`). Files and the live setup as radios, blocks and
a width (of the two sizes of the window); Reconcile in full. One call runs at a time, in steps,
and meanwhile radios and blocks are edited, the window is resized and answers, files are edited by
hand (not the one a call is about to write) and the process ends. `persistCfg` is one step here.
No size settles between a profile's save and its SetGeometry, and two names per stem stand for
999.

**Builtins** (`profile/builtin.go`, `app/profiles.go`). Files written, then recorded; the record's
save fails or the process ends in between; versions follow each other. Reading and writing one
file is a step, and the user leaves the folder alone during the start.

**WindowRegistry** (`app/windows.go`). Windows shown, moved, settled by a debounce, closed, placed by
a profile (the place recorded under `mu`, the window moved after it); the store's `saveMu` and its
clones. Exempt: a window opened or placed during its own Close, until it is settled again. Two
settles of one window do not overlap.

**Notify** (`internal/notify`). Sources (one emitter per key), the coalescing window with its
leading and trailing edge, the store's list with its cap, Dismiss and Clear.

**VoicePlane** (`app/voice.go`). Bindings, redirect goroutines and the stream's session-ended hook
take a generation, read the store, dial, swap, point the bridge and close what they replaced;
push-to-talk and the clear timer set the targets. What a session does once it is dialled is
VoiceSession. Several clears outstanding at once do the same and are one.

**AudioManager** (`audio/manager.go`). Start, Stop with its bounded joins, and the poll goroutine of
each generation, for capture; playback repeats it on its own fields. Left out: the DSP goroutine,
`lastInputs`, `inputErr` and the substituted-device flags, the order of its callbacks, and the claim of
a second Start. A goroutine abandoned in `OpenCapture` when `main` closes the backend remains.

**LoadRunner** (`loadgen/runner.go`, `join.go`, `joins.go`). Commands one at a time; joins a few at
once with their tally and the ticker of the progress lines; each bot's stream reader and pinger,
which may both find it dead; closing. The talker, the voice connection and its ledgers, the rate
limiter and resynchronizations are left out; a missed deadline or a line that cannot be written
ends the run as quit does.

**Window stores** (`frontend/src/shared/store`). A window has one thread; Go's changes, their events, the
answers to its calls and the user come in any order. Events reach a window in the order in which
they were emitted. **Hydrate** is the two guards of a fetch (`hydrate.ts`). **WindowRoster**: clients and
radios as the numbers of the changes that made them, the control session that fills and empties the
store, and `route`'s two steps. **WindowSelection**: hotkeys, profiles and logins against the highlighted
radio. **WindowSettings**: `commitSettings` with its overlay, the throttle of a drag (its interval may
pass at any time), and SetSettings under `writeMu`. **WindowHistory**: rows logged, broadcast and
cleared, the screen that fetches them. Fetches do not fail and a mounted window stays.

**MC...** modules give the modules to TLC. MCSession, MCLinks, MCVoice, MCApp and MCParts hold several modules
side by side: a variable `subject` names the one whose behaviour this is, and the variables of
the others keep their initial values. The modules in one of them share no state, so that nothing
is lost; what components do to each other is inside a module (VoicePlane, PushToTalk, Capture and
the others of `internal/app` cross packages). Such a module EXTENDS the one that has theorems
(Session, ConnHealth, VoiceSession, PushToTalk, KeyBindings), so that TLC evaluates the very
assumption and the very properties the proofs are about, and takes the others as instances. The
runs ptt_mic, notify_relapse and capture_live need no module of their own: their configurations
give PushToTalk, Notify and Capture to TLC directly.

**...Proofs** modules have the theorems, one for each of VoicePlane, PushToTalk, AudioManager,
ConnHealth and CapturePath. SessionProofs EXTENDS MCSession, for Session and the window stores beside
it; VoiceSessionProofs EXTENDS MCVoice, for VoiceSession and the parts beside
it, and takes the theorem of CapturePathProofs by an instance;
PartsProofs EXTENDS MCParts, for KeyBindings and all the parts beside it.

## 3. Runs

A run answers one question, or several of modules side by side. A property with several named
parts has at least one mutant for each part.

| run | instance | what it shows |
|---|---|---|
| session | two callers, two calls, one cancel, two sessions, two streams; callers, streams and tokens symmetric; beside it the window stores (1.5 M states) | `ConnHasToken`, `ConnWatched`, `LostOnce`, `EndedOnce`, `CancelReachesAttempt`, `PingEndsOnlyRevoked`, and the contract (`KeepsContract`), under all interleavings of calls, stream ends and pings; `WindowsMirrorGo` |
| session_live | the same with one session (350 k) | `CallsReturn`; a revoked session is dropped (`RevokedIsDropped`) |
| links | ConnHealth with threshold 2, two connections, one voice period; VoiceSession with ladder and threshold 2, three sockets, two faults (a lost datagram, a binding that fails, a read that fails), patient waits (320 k) | `DeliveredInOrder`, `LossDeclaredOnce`, `HalfOpenIsDropped`; `CloseReturns`, `Recovers` |
| voice | VoiceSession with waits that may end at any time, two sockets, no fault (`links` has them); nine keepalives over a list of 4; sequence numbers modulo 16 from 14, a buffer of 2, 13 ticks; two DSP loops, two presses; 30 samples in frames of 3 through a ring of 3 frames; three gate settings over five frames (2.7 M) | `ReportedStateIsTrue`, `NothingAfterBye`, `RoundTripIsTrue`, `StreamFollowsTalker`, `PlayoutIsFaithful`, and `TransmitIsFaithful` (from the device through the gate to the packet) |
| app | HeldStream with two clients that come and go and buffers of 2; Notify with two keys, two contents, three changes and two clicks; PushToTalk with one action on key and button, whose radio may go, two presses, two rebinds, one fault (270 k) | `ShownIsTrue`, `Converges`, `EveryChangeIsApplied`; `EdgesBalance`, `MicFollowsHolds`, `HeldKeyIsNotCut`, `LostKeyUpIsReleased` |
| parts | eleven modules side by side, see below (1.2 M) | `HistoryIsKept`, `HotkeysRecover`, `KeysAreKept`, `FilesAreKept`, `LoadIsAccounted` |
| plane | two bindings, two redirect goroutines, three operations, two sessions (1.1 M) | `OneSessionOpen`, `NeverBackToOlderAddress`, `TransmissionsFollowSession`, `IdleTargetsAreCleared` |
| audio | two devices that come and go, two Starts, three streams (950 k) | `MicrophoneIsOwned`, `FlappingKeepsDecaying`, `FollowsSelection` |
| ptt_mic, plane_teardown, notify_relapse, capture_live | one module each | a disagreement, see section 5 |

Instances in `parts`: two talkers and a queue of two events (TransmissionRows); a log of two with
four rows, two clears, two failing writes (HistoryLog); two actions, three streams, three Apply
calls and a reader that may be wedged (HookStream); two rows, two captures (Capture); three sets of
radios, two observers, a window hook, three events (changes of the radios, clicks, focus) of which
two are asks (HotkeyRefresh); three actions, one of them of
another version, two chords, a button and two files edited by hand (KeyBindings); two key
changes, two selections, two layout edits, two failing saves (Settings); two windows, two
handles (WindowRegistry); two versions and one fault (Builtins); one name, a document of a
user's making, two changes by hand (Profiles); two bots joined at once, two holds, two
deaths (LoadRunner).

The window stores in `session`: one client, two snapshots of the server and an update; two radios, two
hotkey goroutines, two selections, two logins; three choices of the user and a save that fails; two
goroutines logging four rows into a log of two, one clear. `maxAttempts` is 2 and 3 in the code: one
repeated fetch and one last attempt are what there is to tell apart.

**Why the bounds are enough.** Each hazard needs a small number of actors: two calls that overlap
and one event that arrives between them (session, plane), a snapshot with one update before, one
during and one after it (held), a socket and its successor (voice), a press, the watchdog of the
press before, and a rebind (ptt), a goroutine left behind by Stop and a second Start (audio), a
failing save between two that succeed (settings), a crash between a file and its record followed
by one more version (builtins). Counters that are only compared (generations, tickets, sequence
numbers) distinguish no more than what these actors can hold at once. Buffers are as small as
lets them be empty, in use and full. The wrap of the 24-bit sequence is kept by a small modulus
that is still larger than twice the accepted distance, which is what the signed comparison needs
(`ReceiveAssumption`), and half a cycle of it is longer than a datagram may be on its way and wait (in
the code 2^23 frames of 20 ms, two days). `MaxKA` lets the list of unanswered keepalives fill and overflow after a
lost binding. In `voice` the ladder is one attempt because its waits may end at any moment;
`links` has the longer ladder. `MaxPending` bounds the transitions waiting for a slow OnState at
the time a wait ends; nothing else depends on their number. `Widths` and `DefaultW` are further apart
than twice `windowEchoTolerancePx`, so that a resize is told from the window's rounding.

`CHECK_DEADLOCK FALSE` everywhere: with the calls, faults and sessions of an instance used up the
system is at rest, which is no error.

## 4. Fairness

- *Goroutines run on* (weak fairness of their steps), *callbacks return*, *timers that are not
  stopped fire* (keepalives, the coalescing windows of Notify, the watchdog of PushToTalk, the
  retry of AudioManager). This is the Go runtime's scheduling.
- *An RPC ends*: the dial and the calls have deadlines (`session.go`, the post-dial timeout), a
  ping is bounded by one interval. In Session the step that fails an RPC is always enabled with
  the one that answers it, so weak fairness of the caller covers both.
- *The server ends the streams of a session it has ended* (Session), *answers and registers
  subscriptions* (HeldStream), *serves datagrams*, and *the network delivers* what it has not
  lost, with losses bounded by `MaxFaults` (VoiceSession). These are environment assumptions; no
  safety property uses them.
- `SF(Exit)` in VoiceSession: a `select` on `done` and a timer picks among the ready cases at
  random, so a goroutine that keeps finding `done` ready takes it sooner or later; it is not
  continuously at that `select`, hence strong fairness.
- `SF(UiEnds)` in PushToTalk: the goroutine that rebinds waits for `notifyMu`, which the poll
  takes and drops again and again; Go's mutex hands itself over to a starving waiter.
- `SF(Opens)` in AudioManager: attempts to open a device that are made again and again succeed in
  the end.
- `Patient` in VoiceSession: a wait (300 ms to seconds) outlasts the datagrams on their way.
  Recovery is not true without it: timeouts shorter than the round trip could go on for ever. The
  run `voice` does not assume it.
- In VoicePlane only the clear timer fires.
- In VoiceReceive there is no fairness: that the goroutines keep up with the clock is the guard of
  the tick, and that a silent stream is reaped is an invariant under that guard.

Users, the operating system, failures, cancels and the server's choices owe nothing. In the
side-by-side modules the fairness of a component is that of its own `FairSpec`, where it is the
subject.

## 5. Disagreements that a run shows

**MicShutWhenNothingHeld** (`ptt_mic`): the dispatcher's `handle` sets a latch, drops its lock and
only then calls Pressed (`dispatch.go:236-255`). `clear` on another goroutine takes that latch in
between and calls Released first. The press count ignores a Released of something not counted,
and the late Pressed raises it to one: the gate is open with nothing held, and later presses move
the count between one and two without effect. The comment at `dispatch.go:108` says what clear
exists to prevent, and `joystick/manager.go:45` describes this very interleaving and closes it
with `notifyMu`. `MicFollowsHolds` (run `app`, and proved) says that everything else about the chain
is right: it is limited, by the history variables `raced` and `late`, to behaviours in which no two
goroutines were on their way to the Handler at once and no rebind ended while a call for an
action it drops was on its way (the first of the keys in section 6).

**NoSessionBehindTeardown** (`plane_teardown`): a dial is outdated only by a teardown that takes its
generation later. Disconnect swaps the session out, then logs out, and only then resets the
credentials; a `startVoiceSession` or redirect that takes its generation in between still finds
the credentials and installs a session that nothing closes, against `voice.go:919` and
`bindings.go:76`.

**DismissalSilencesNoRelapse** (`notify_relapse`): Dismiss and Clear destroy whatever the coalescing
window of a key holds (`notify/store.go:391`, `:453`) before they look whether the item is resolved.
If the condition has come back within the window, the Raise of its new occurrence is what is
destroyed, and nothing shows it until the source says it again. The comment at `:352-359` says
that a resolved item is dismissed without suppression because the relapse must be heard.

**LiveCaptureStaysSuspended** (`capture_live`): `resumeCapture` compares its token under `sb.mu`
(`settings.go:644`), unlocks (`:654`) and then resumes both hotkey managers and cancels the
joystick's capture (`:656-659`). A BeginCapture of the next row in between is resumed and
cancelled by the end of the one before, against "Every interleaving ... is then safe" at `:502`.

## 6. Known disagreements without a run of their own

Met while modelling; the modules behave as the code does where they reach it, and no property
forbids these.

Control, roster, health

- *Publications cross* (`session/session.go:794` and `:359`): a stream that ends right after the
  install publishes "reconnecting" before the caller publishes "connected"; the client shows
  connected without a connection.
- *A cancelled Reconnect installs* (`session.go:916`): Connect looks at its context before the
  install (line 770), Reconnect does not.
- *A failed attempt leaves its secret* (`session.go:690`, `state/store.go:223`): SyncClient
  hydrates the store before the attempt fails; the next login may find the old voice secret.
- *A verdict of a replaced stream ends its successor* (`session.go:385`): the generation is checked
  under the lock, `endSession` runs after it and takes whatever session is remembered then, against
  the comment at `:124`.
- *A ping of the last connection counts against the next* (`connhealth/monitor.go:133`): the
  re-check looks at the state, not at the connection; then `MarkControlLost` reads the
  generation when it runs (comment at `session.go:509`).
- *Voice round trip of the period before* (`monitor.go:149`): read without locks, committed after
  the voice plane has moved on; shown for one tick.
- *Replay shows a client that has left* (`control/held.go:107`): held updates older than the
  snapshot are replayed over it until the leave itself is replayed.

Voice

- *One lost keepalive shifts every later round trip* (`voice/session.go:975`): replies are matched
  with the oldest unanswered send, so each is timed a keepalive period too long until the binding is
  reset; what remains true is that none is too short. At `:992` a full list drops its oldest.
- *A reply of the lost binding during the re-HELLO* (`voice/session.go:866`) is taken, and the
  first keepalive of the new binding may echo a timestamp from before the loss (`:693`).
- *A frame that came in time is conceded* (`voice/jitter.go:140`): a full buffer makes room with
  the frame that is to be played next. `OnlyLateIsConceded` exempts streams with an eviction.
- *A far-ahead stream stays deaf* (`voice/jitter.go:117`): a talker more than `maxAhead` frames
  ahead is refused, while `rxVoice` has already renewed `lastSeen`, so it is not reaped either.
- *The "unreachable" fallback of `flushLocked`* (`voice/tx.go:243-250`) is reachable, frames queued
  by one transmission are sent to the next one's targets, and a half captured before a press can
  carry the generation read after it (10 ms at most).
- *A short tap in a release tail* (`audio/gate.go`) pauses the tail, and its rest runs after the tap.
- *A redirect in the middle of a hold* (`app/voice.go:375`) installs a session without targets; the
  gate is open and nothing is sent until the next press or release.
- *A redirect while Connect dials* (`app/voice.go:926`) is dropped since no session is live, and the
  session of the old address is installed.
- *Bridge pointers cross* (`app/voice.go:336`): the pointer is stored after the unlock, so two swaps
  may store it in the other order (comment at `:291`: "in lock step").
- *Rows behind the final flush*: a redirect goroutine that closes a superseded session while the
  application quits appends rows after the history was written for the last time.

Keys, capture, notifications

- *A Released that a rebind overtakes is not counted* (`app/settings.go:1248`): a key-up has taken its
  latch and dropped the dispatcher's lock (`hotkeys/dispatch.go:247`) when `applyHotkeys`, which is
  dropping that action, gets through both Applies and installs the new map. The Released then
  finds `isHold` false and leaves the press count at 1, against "each manager balances its own edges
  and there is nothing left over" (`settings.go:1236`); when the action comes back, its next press
  counts 1 to 2 and is swallowed. The attempt to prove `MicFollowsHolds` with `raced` alone failed on
  this step; no two goroutines are in the Handler in it.
- *A wedged restart leaves a second stream* (`hotkeys/registrar_gohook.go:183-185` says it cannot):
  `planStream` has set running to false, so the next binding of the same call starts a stream
  beside the wedged one.
- *A capture completed just before a cancel binds* (`app/settings.go:624`): EndCapture does not raise
  `captureGen`.
- *Radio signatures* (`app/keybindrefresh.go:125`): computed outside `sb.mu` and stored in whatever
  order the observers get to it, so that the signature in force may be that of older radios; when
  the radios then become those again, they look unchanged and nothing is rebuilt. *A grant already known* (`app/settings.go:782`, against `:953`): `lastPerm` is written by those
  who only look, and the recheck on focus then rebuilds nothing.
- *Cleared bindings come back* (`app/app.go:195-198`): a user who clears every binding has the
  defaults at the next start. `RemoveTrigger` takes an index, which a theft may have shifted.
- *Notify*: the history's flush says it "resolves on the next success", but nothing ever calls its
  error hook with nil; dismissing an older resolved row destroys the waiting Resolve of a newer live
  item; a trailing change applied late may overtake a later leading one (`coalesce.go:268`).
- *Windows*: the broadcast of open windows is emitted outside the lock, so the last may be stale.
  Close (`app/windows.go:139`) records what it read before the window system closed the window over
  the place of a window that was opened or placed meanwhile, and it stays until the next move settles.

Profiles

- *Shipped profiles*: one that was written and not recorded, and then deleted by the user, is
  written again (`builtin.go:109`: "A deletion is PERMANENT"); another profiles folder makes the
  recorded defaults look deleted, and they are never put there.
- *Comms profiles*: SaveProfile reads the active path and captures the setup in two sections
  (`app/profiles.go:351`, `:362`), so two calls at once can write one profile's setup into
  another's file; SaveProfileAs applies again the radios it captured and undoes an edit made
  meanwhile; a selection queued before LoadProfile can be persisted after it; after 999 names
  `uniqueProfilePath` gives the first; a size that settles around applyProfile's save, a profile
  wider than the display, or a crash between a profile's file and the next save of the
  configuration leaves the profile dirty.

Windows

- *A row listed twice* (`WindowHistory`, where TLC violates `NoRowTwice`): `appendHistory` logs a row and
  then broadcasts it (`app/history.go:135`); a GetHistory in between answers with the row, and if the
  answer arrives first the event prepends it again, against `History.tsx:39-41`.
- *Settings lost to their own successor* (`settingsCommit.ts`, against "both survive", `:14-16`): calls of
  one window run side by side in Go, and whichever takes `writeMu` last is kept; and an answer that
  arrives before its echo clears the overlay, so that the next change is built on the old store.
- *The highlight*: a click on a radio announces nothing to the other window, is rolled back by a
  `voiceState` fetch that was answered before it, and its failure path (`RadioCard.tsx:73-86`) is not
  guarded; two hotkey goroutines may emit in the other order than they selected.
- *The roster*: an event routed behind a logout or the next login's snapshot shows a client that is
  not there; the radios of a client that left stay in `useRadios` (`clients.ts:14`); the last attempt of a
  hydrate is applied over newer events.

Load generator

- `Alive` is `len(bots) - deadTotal` (`loadgen/runner.go:745`), too small by each bot that died in its own
  join; onDead stamps the phase and counts `deadInHold` from two loads; a talker behind its schedule
  reads neither its control channel nor the context (`talker.go:59-86`), so pause and stop wait until it
  has caught up; the pinger's verdict runs on a goroutine Close does not join, so a death can still
  be counted after it.

## 7. What is proved

What is proved has an inductive invariant that was checked by TLC before it was proved, and is proved
from the module's assumption alone, for every value of the constants. Eight modules have it as
`IInv` (`KeyInv` for the keybindings) with the theorems Invariance, `Spec => []IInv`, and TypeCorrect,
`Spec => []TypeOK`; the parts of MCParts and those beside VoiceSession and Session have theirs under
the name of the part (`RowInv`, `KAInv`, `RosInv`), each with lemmas for the start, the step and what
it implies that a theorem about all the parts puts together. None of the properties below is inductive by itself. Every action
has its own step or lemma, split by the conjuncts it can disturb; lemmas say what a step leaves alone.

**Session** (`SessionAssumption`: the sets of threads are disjoint, the bounds are naturals), for any
number of callers, streams, tokens and calls:

| theorem of `SessionProofs` | says |
|---|---|
| ConnectionHasSession, ConnectionIsWatched | `ConnHasToken`, `ConnWatched` |
| LossReportedOnce, SessionEndsOnce | `LostOnce`, `EndedOnce` (and `ForgottenForGood`) |
| CancelIsHeard | `CancelReachesAttempt` |
| PingEndsTheRightSession | the action property `PingEndsOnlyRevoked` |
| SessionKeepsContract | Session implements SessionContract |

`IInv` is

- `TypeOK`;
- `LifeInv`: a caller that is in an attempt or a logout holds `lifeMu`;
- `PendingInv`: a stream that was opened and not installed was opened by one thread, for the
  connection and the token that thread works with;
- `LinkInv`: generations are captured once, each by one stream, and none is ahead of `streamGen`; the
  stream with the current one is on the installed connection, at a label from which its end is
  reported; a connection that was taken down, and only such a one, may have its loss counted;
- `TokenInv`: the remembered token is that of the installed connection, was issued and is not over; an
  ended token is over; the token a Connect works with is new; a ping about to end a session
  carries a revoked token;
- `CancelReachesAttempt`.

`LostOnce` holds because taking a link down retires the generation in the same critical section,
so the argument is about who may still hold the current generation (`LinkInv`), which depends on
who opened the stream (`PendingInv`), which depends on at most one attempt running (`LifeInv`).
`ForgottenForGood`, a conjunct of `TokenInv`, is what `SessionKeepsContract` rests on: the contract's
steps forbid a token that is over from being remembered.

**VoicePlane** (`PlaneAssumption`: the bounds are naturals), for any bindings, redirect goroutines,
actions, logins and sessions:

| theorem of `VoicePlaneProofs` | says |
|---|---|
| SessionsAreClosed | `OneSessionOpen` |
| NewerAddressStays | the action property `NeverBackToOlderAddress` |
| TransmissionsFollow | `TransmissionsFollowSession` |

`OwnerInv` says that every open session is the live one or in the hands of exactly one goroutine
that will install, reject or close it, and never both: a session leaks when it has no owner, and
is closed under its user when it has two. `AddressInv` says that of two dials under way no two have
the same generation, and that the one with the newest has read credentials no older than those
of the live session: the read of the store comes after the generation is taken, which is all the
order there is between them.

**PushToTalk** (`PttAssumption`: keys and buttons are finite sets), for any number of each, any
rebinds, presses and generations of watchdogs:

| theorem of `PushToTalkProofs` | says |
|---|---|
| EdgesAlwaysBalance | `EdgesBalance` |
| MicFollows | `MicFollowsHolds` |
| HeldKeyStays | the action property `HeldKeyIsNotCut` |

The heart is `BalanceInv`: for every source and action, `owed` plus the presses less the
releases on their way is 1 while the source holds the action and 0 otherwise. It needs to know
that a goroutine never has two calls for one action (`ThreadInv`), that what is latched is bound
(`KeyboardInv`), that the union of the maps covers everything live during a rebind (`RebindInv`), and
that joystick calls are made under `notifyMu` (`NotifyInv`), so that each is about the button as it is
(`StickInv`). `MicInv` goes from the balance to the gate, and is where `raced` and `late` come in: the
press count is the number of sources that hold the action, what transmits is what is counted, but
for the one call a goroutine is in.

**AudioManager** (`AudioAssumption`: devices and streams are names, the bounds naturals):

| theorem of `AudioManagerProofs` | says |
|---|---|
| MicrophoneHasOwner | `MicrophoneIsOwned` |
| RetriesKeepDecaying | the action property `FlappingKeepsDecaying` |

`EpochInv`: only the poll goroutine of the running generation finds its own epoch, and the manager
has no stream while that goroutine opens one. `HandsInv`: the open streams are those in the hands
of the caller, the manager and the poll goroutines, each in one hand. `FeedInv`: what was opened
feeds the generation it was opened for. Without `EpochInv` a goroutine left behind by Stop could
store its stream into the manager of the next Start.

**ConnHealth** (`HealthAssumption`: the threshold is positive), for any threshold and any number of
connections and voice periods:

| theorem of `ConnHealthProofs` | says |
|---|---|
| DeliveriesKeepOrder | `DeliveredInOrder` |
| LossIsDeclaredOnce | the action property `LossDeclaredOnce` |

`EmitInv`: one thread at a time delivers, and what it holds is the snapshot in force, since nobody
commits without `emitMu`. `LatchInv`: the latch stays set as long as the loss it stands for counts.

**VoiceSession** (`VoiceAssumption`: ladder and threshold are positive), for any number of sockets,
faults and restarts of the server:

| theorem of `VoiceSessionProofs` | says |
|---|---|
| ReportIsTrue | `ReportedStateIsTrue` |
| GoodbyeIsLast | the action property `NothingAfterBye` |

`AckInv`: an acknowledgement on the network, queued or answered by the state is of a socket whose
HELLO the server has seen; a late one of an earlier socket is on the network for ever, so this has
to be said of the network too. `QueueInv`: what waits for OnState ends in the present state.
`ClosedInv`: the flag is set with the BYE and no socket is there any more. `SilenceInv`: a keepalive is
sent only below the threshold.

**CapturePath** (`PathAssumption`: sizes are positive, `Capacity` is what NewRing computes), for any
frame, ring, chunk and catch-up size and any number of samples:

| theorem of `CapturePathProofs` | says |
|---|---|
| CaptureFaithful | `CaptureIsFaithful`, a part of what the run `voice` checks as `TransmitIsFaithful` |

`CallbackInv`: the callback has the frame after all it is done with in its hand and the rest in
the accumulator. `IndexInv`: both indices are of whole frames at most a ring apart, and the frame
being written fits. `ContentInv`: between the indices are whole frames in the order of recording,
newer than what was heard, and what was recorded since and is not there is lost. `DropInv`: what is
older than a drop that was seen is behind the goroutine or about to be. `ReadInv`: a frame is read
whole or not at all, and what is read stays put. The slots come in through arithmetic alone
(`SlotsDiffer`: indices less than a ring apart have different slots); that the ring is a power of
two is not used, only that it holds a frame.

**WindowRoster, WindowSelection, WindowSettings, WindowHistory** (their assumptions, evaluated by the
run `session`: radios are positive, the log has room for a row, a hydrate has an attempt, the user is
no writer), for any number of clients, radios, updates, selectors, choices and rows:

| theorem of `SessionProofs` | says | invariants |
|---|---|---|
| WindowsMirror | `WindowsMirrorGo` | `RosInv`, `SelInv`, `WstInv`, `HistInv` |

All four say of each moment what `WindowsMirrorGo` says of rest: what the window will show once all
that is under way has come.

- *Roster.* `RosHandles`: only the last hydrate can still reach the stores. `RosInfoTold`,
  `RosRadioTold`: the last event of this session about a client tells what Go holds. `RosInfoShown`,
  `RosRadioShown`: what no event is under way about is in the stores, or in an answer that counts,
  or the fetch will be made again. `RosGone`: after a logout the logout is the last event.
- *Highlight.* `SelConverges`: the last event makes the window ask again or tells it the selection, and
  without one the answer that counts, or the store, is the selection.
- *Settings.* `WstStore`: what comes last is the configuration. `WstPending`: the overlay is of the newest
  request. Without a failure requests are saved in their order (`WstSaved`), and the newest one carries
  all that the user chose but for what the knob holds (`WstWished`).
- *Log.* Three numbers tell where the rows are (`HistOrder`): the log was cleared last behind row b, rows
  up to d were delivered, and up to e emitted; rows behind e are owed by their writers. What the screen
  lists are the rows that were pushed on those an answer brought, down from d to b, without a gap
  (`HistListed`). It is said of runs in which no two changes of the log were emitted in the
  other order than they were made (`crossed`), and of a window that did not give up its fetches, like
  the property itself.

**VoiceKeepalive, VoiceTransmit, VoiceGate, VoiceReceive** (their assumptions, evaluated by the run
`voice`: sizes and periods are naturals or positive, the list of keepalives has room for one, and
`ReceiveAssumption` as in section 3), for any number of keepalives, rebinds, DSP loops, changes of the
settings, losses and streams. They run beside each other in `SideSpec` and share nothing:

| theorem of `VoiceSessionProofs` | says | invariants |
|---|---|---|
| RoundTripMeasured | `RoundTripIsTrue` | `KAInv` |
| TransmitFaithful | `TransmitIsFaithful` | `TxInv`, `GateInv`, and `CaptureFaithful` by instance |
| StreamFollows | `StreamFollowsTalker` | `RxInv` |

*Keepalives.* `KAOrder`: datagrams keep their order, and a reply on its way is to an earlier keepalive than any on
its way to the server. `KAWaiting`: while the binding is the socket's, what is waited for are the
last keepalives without a gap, and no reply is on its way to one before them, so that a reply is
never timed against a keepalive sent after the one it answers. `KANoGaps`: without a loss the
keepalives on their way are the last ones, all of them.

*Transmit path.* `TxType` says of the accumulator, the queue and the frame in txLoop's hand that a
frame is of one press, `TxHand` that txLoop holds a buffer exactly while it encodes and sends and has
returned before the encoder is freed; with the count of the buffers (`PoolIsWhole`) this is
inductive.

*Gate.* The definition without state sees a frame's whole past, so the invariant says what each
counter means over the frames so far: the length of the run that is on (`GateRunsInv`), and the
frames left since the last one that was keyed or voiced, less what was spent with the key up or in
quiet (`GateTailInv`). The lemmas about runs, marks and what is spent between them are about sets of
naturals and are stated for any (`GateRunSteps`, `GateMarksSteps`, `GateSpentSteps`).

*Reception.* `RxFilling`: a stream that does not play yet holds frames that were sent within the delay
and the target of each other, so that they lie in less than half a cycle (`RxClose`) and the signed
comparison orders them as the talker did (`RxOrder`); then the slot pop starts from has nothing behind
it (`RxPlayout`), and push, which compares with that slot, lets nothing behind it in. `RxDistinct`: no
two frames wait for one slot. `RxTalker`: frames were sent a frame's time apart at least.

**KeyBindings** (`KeyAssumption`: the parser maps texts to triggers or to one bad value, spelling a
trigger and parsing it again gives the trigger), for any number of actions, any triggers and any
text in the file:

| theorem of `PartsProofs` | says |
|---|---|
| OnePressOneAction | no trigger is in two lists or twice in one; no action has two chords |
| UndoIsExact | loading the snapshot made before a change restores the store, a restart loads what was saved |
| KeysKept | all of `KeysAreKept`, with what Load may drop |

`KeyInv` strengthens them by `Sound` of the store and of what was saved last (`kept`), by
`AheadIsEmpty` (what Load has not come to is empty, so that what it appends to a list cannot
repeat what is behind it), and by `Returned` (a Load of what the store itself wrote has brought
back exactly a prefix of it). Without `Sound(kept)` the undo could bring back an unsound store;
without `Returned` the dropping of an entry by `Claimed` could not be excluded.

**The parts of MCParts** (their assumptions, evaluated by the run `parts`: bounds and sizes are
naturals or positive, the shipped versions are numbered, radios of a profile have different ids, a
profile's blocks are blocks). Every part is left alone by the steps of the others (`PartsSteps`), so
that each theorem puts invariants of parts together:

| theorem of `PartsProofs` | says | invariants |
|---|---|---|
| HistoryKept | `HistoryIsKept` | `RowInv`, `LogInv` |
| HotkeysAlwaysRecover | `HotkeysRecover` | `HookInv`, `CapInv`, `RefInv` |
| FilesKept | `FilesAreKept` | `SetInv`, `WinInv`, `BuiltInv`, `ProfInv` |
| LoadAccounted | `LoadIsAccounted` | `LoadInv` |

- *Rows.* `RowOnce`: a row is in one place at a time, of the open stream, the decode goroutine's hand,
  Close's sweep, the queue, the reader's hand and the log; the places are passed through in that
  order. It rests on `RowPassHolds`: what the pass is about to reap has ended, unless a packet came.
- *Log.* `LogSnapshot`: what a flush holds is what the log is, as long as no revision came in between,
  and the temporary file and the file have it when the flush says so. Shutdown waits for the ticker
  (`LogOneWriter`), so that the last flush is the only one.
- *Stream.* `HookRetry`: the one retry is armed only while nothing has been restarted.
- *Capture.* `CapEnds`: once the newest capture's timer is stopped, each thing still suspended is in
  the hand of one who ends that capture, and is on its way to the place where he resumes it.
- *Refresh.* On the radios' side `RefOwed`: the hotkeys are those of the radios, or a refresh is owed by
  the queue, the worker or an observer about to ask for it, or the signature in force is not that of
  the radios and an observer is coming with the one that is. An observer that stores an older
  signature changes neither the radios nor who is coming behind it. On the grant's: `RefHolder` (who applies has `writeMu`), `RefNewest` (while a
  superseded poll still ticks, so does the one that superseded it), `RefEffect` (a grant that is shown
  and not in the taps is in the hands of somebody whom no cancellation stops), `RefOnce` (after a
  rebuild nobody is left who would do it again).
- *Configuration.* `SetWrites`: what is written is the memory and the change, but for a layout edited
  since, which is still pending; `SetMemory`: a selection that is not on file is queued, lost by a
  failure, or superseded.
- *Windows.* `WinPlace`: the place of a window is recorded, or somebody is still to read it or to move
  it there. `WinRead`: what a settle of an open window has read is where it is, unless its timer runs
  again; one handle is settled, and one window closed, once at a time. `WinFile`: what the file lacks is
  owed by a call that has not persisted.
- *Shipped profiles.* `BuiltUsers`: what is the user's is not what is recorded, so that a file equal to
  its record is nobody's; `BuiltCurrent`: what is nobody's is current behind the start.
- *Comms profiles.* `ProfMend` is about the algorithm: for any radios without a repeated id and any
  blocks, Reconcile gives each radio exactly one block with a variant, and mending twice is mending
  once (`ProfMended`, `ProfStays`; the order of what is kept by an induction on the least
  counterexample, `ProfOrder`). `ProfSame`: a profile loaded or saved and not touched since is the live
  setup, and a window yet to settle can only repeat the width it was given; `ProfTaken`: what a call is
  about to write or apply is what it took, while nothing was edited.
- *Load generator.* `LoadTally`: as long as the run is live every join is in the tally and in the set
  the command counts; `LoadDeaths`: a death is counted by the one who won it; `LoadHolds`: the deaths
  of a hold are among those since the last report; `LoadNames`: indices are given in order and once.

**Only model-checked.** Liveness, everywhere (`CallsReturn`, `RevokedIsDropped`, `HalfOpenIsDropped`,
`CloseReturns`, `Recovers`, `IdleTargetsAreCleared`, `LostKeyUpIsReleased`, `Converges`,
`EveryChangeIsApplied`, `FollowsSelection`): it is under fairness, which the provers do not reach.
And what remains of the safety, two properties: `PlayoutIsFaithful` (VoiceReceive), which relates the
playout of a stream to that of the one before it across a reaped stream, and `ShownIsTrue`
(HeldStream, Notify), whose invariant would speak of the order of updates in three buffers. That what
a recursive definition computes is right for every input is an induction over data and out of
reach; where a proof needs an order on data (`ProfOrder`) it is by a least counterexample.

## 8. Not modelled

Conversions of single values (packet layout, frequency rounding, parsing and naming of triggers,
hat positions), signal processing, and device, window and file I/O below the calls that appear as
steps. The server is an environment throughout: its answers and failures are choices, its
internals another repository. The sources of notifications and the sounds they play are the
emitters of Notify and keep nothing. The load generator's talker, ledgers and rate limiter are
arithmetic on a clock. Of the frontend the views are left out, and of its stores the talking indicator with the frozen
target of `global.ptt`, the click on a radio, the other channels of `useSettingsSync` (they repeat the
settings' hydrate), fetches that fail, and windows that unmount.

Most lines of the repository are vendored or generated: the Opus and RNNoise C sources (some
50 000 lines with their tables), DirectInput constants, the protocol messages. They have no
behaviour of this program in them, and bound the share of the whole that any model of it can
cover; the map covers some 7 000 lines, which is where the Go code keeps state that more than one
goroutine or one run of the program touches.

## 9. Plan

Left: clicks and the talking indicator in the window stores; reading and migrating the configuration (`config.go`), the Linux joystick source's hot-plug
(`joystick/source_linux.go`), the notifications about bindings that cannot work (`app/notify_keybinds.go`),
the load generator's voice connection.

Proofs: `PlayoutIsFaithful` and `ShownIsTrue` (section 7). The modules have no RECURSIVE operator, so
both can be proved about.

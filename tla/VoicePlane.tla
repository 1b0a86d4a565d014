----------------------------- MODULE VoicePlane -----------------------------
(* The application's voice plane (internal/app/voice.go): which voice      *)
(* session is live, who may replace it, and what it transmits on.          *)
(*                                                                         *)
(* A session is dialed without a lock and swapped in under voiceState.mu   *)
(* if no generation was taken since; the audio bridge is pointed at it     *)
(* after the unlock, and the session it replaces is closed last. Sessions  *)
(* are dialed by the bindings (Connect, ReconnectVoice) and by a goroutine *)
(* per redirect; they are torn down by the bindings (Disconnect, quitting) *)
(* and by the update stream when the server ends the session. Meanwhile    *)
(* presses and releases of push-to-talk set the live session's targets,    *)
(* and a timer clears them once the last release's tail is over.           *)
(*                                                                         *)
(* Credentials are a number: 0 when logged out, otherwise one more at each *)
(* login and redirect. What a voice session does once it is dialed is      *)
(* module VoiceSession.                                                    *)
EXTENDS Integers, FiniteSets, Sequences

CONSTANTS
  Bindings,     \* goroutines of calls from the settings screen
  Dialers,      \* goroutines a redirect may start
  Actions,      \* push-to-talk actions
  MaxOps,       \* bound: calls, redirects and ended sessions
  MaxSessions   \* bound: voice sessions dialed

ASSUME PlaneAssumption == MaxOps \in Nat /\ MaxSessions \in Nat

Procs == Bindings \cup Dialers \cup {"stream"}
None == 0

VARIABLES
  creds,    \* the store's credentials
  version,  \* credentials handed out so far
  gen,      \* voiceState.gen
  sess,     \* voiceState.sess
  bridge,   \* the session the audio bridge calls
  addrs,    \* the credentials each session was dialed with
  closed,   \* sessions that were closed
  proc,     \* what each goroutine is about to do
  ops,
  tx,       \* voiceState.tx, the actions held
  targets,  \* what the live session transmits on
  touched,  \* the live session was given targets (history)
  started,  \* voiceState.txStarted, own transmissions not yet logged
  armed     \* a clear of the targets is pending or running

credVars == <<creds, version>>
sessVars == <<gen, sess, bridge, addrs, closed>>
txVars   == <<tx, targets, touched, started, armed>>
vars     == <<credVars, sessVars, txVars, proc, ops>>

(* at: the next step; then: the step after it; gen, addr: taken before the *)
(* dial; new, old: the sessions of the swap.                               *)
Doing(step, next) ==
  [at |-> step, then |-> next, gen |-> 0, addr |-> 0, new |-> None, old |-> None]
Dialing(step, g, a, s) ==
  [at |-> step, then |-> "idle", gen |-> g, addr |-> a, new |-> s, old |-> None]
Swapping(next, s, old) ==
  [at |-> "bridge", then |-> next, gen |-> 0, addr |-> 0, new |-> s, old |-> old]
Idle == Doing("idle", "idle")

Init ==
  /\ creds = 0 /\ version = 0
  /\ gen = 0 /\ sess = None /\ bridge = None /\ addrs = << >> /\ closed = {}
  /\ proc = [p \in Procs |-> Idle] /\ ops = 0
  /\ tx = {} /\ targets = {} /\ touched = FALSE /\ started = {} /\ armed = FALSE

At(p, step) == proc[p].at = step
Becomes(p, r) == proc' = [proc EXCEPT ![p] = r]
GoesOn(p) == Doing(proc[p].then, "idle")
Starts(p) == At(p, "idle") /\ ops < MaxOps /\ ops' = ops + 1

(***************************************************************************)
(* Replacing the session                                                   *)
(***************************************************************************)

(* nextVoiceGeneration, before the dial.                                   *)
TakeGen(p) ==
  /\ At(p, "generation")
  /\ gen' = gen + 1
  /\ Becomes(p, Dialing("inputs", gen', 0, None))
  /\ UNCHANGED <<credVars, sess, bridge, addrs, closed, txVars, ops>>

(* voiceDialInputs: logged out, there is nothing to dial with.             *)
ReadInputs(p) ==
  /\ At(p, "inputs")
  /\ Becomes(p, IF creds = 0 THEN Idle
                ELSE Dialing("dial", proc[p].gen, creds, None))
  /\ UNCHANGED <<credVars, sessVars, txVars, ops>>

Dial(p) ==
  /\ At(p, "dial")
  /\ \/ /\ Len(addrs) < MaxSessions
        /\ addrs' = Append(addrs, proc[p].addr)
        /\ Becomes(p, Dialing("install", proc[p].gen, proc[p].addr, Len(addrs')))
     \/ Becomes(p, Idle) /\ UNCHANGED addrs          \* the dial failed
  /\ UNCHANGED <<credVars, gen, sess, bridge, closed, txVars, ops>>

\* Mutant: whoever dialed last is live.
NeverStale(p) == FALSE
StaleGen(p) == proc[p].gen # gen

(* voiceSessionSwap of a session: a later teardown or start wins.          *)
Install(p) ==
  /\ At(p, "install") /\ ~StaleGen(p)
  /\ sess' = proc[p].new
  /\ targets' = {} /\ touched' = FALSE
  /\ Becomes(p, Swapping("idle", proc[p].new, sess))
  /\ UNCHANGED <<credVars, gen, bridge, addrs, closed, tx, started, armed, ops>>

\* Mutant: a session that comes too late is dropped, not closed.
RejectDrops(p) ==
  /\ At(p, "install") /\ StaleGen(p)
  /\ Becomes(p, Idle)
  /\ UNCHANGED <<credVars, sessVars, txVars, ops>>
Reject(p) ==
  /\ At(p, "install") /\ StaleGen(p)
  /\ closed' = closed \cup {proc[p].new}
  /\ Becomes(p, Idle)
  /\ UNCHANGED <<credVars, gen, sess, bridge, addrs, txVars, ops>>

\* Mutant: a teardown leaves the running transmission's start.
KeepsLog == started
(* A teardown ends every own transmission and writes its row.              *)
FlushedLog == {}

(* voiceSessionSwap of nil: it always proceeds, and outdates every dial.   *)
Teardown(p, next) ==
  /\ gen' = gen + 1 /\ sess' = None
  /\ targets' = {} /\ touched' = FALSE /\ started' = FlushedLog
  /\ Becomes(p, Swapping(next, None, sess))
  /\ UNCHANGED <<credVars, bridge, addrs, closed, tx, armed>>

PointBridge(p) ==
  /\ At(p, "bridge")
  /\ bridge' = proc[p].new
  /\ Becomes(p, [proc[p] EXCEPT !.at = "close"])
  /\ UNCHANGED <<credVars, gen, sess, addrs, closed, txVars, ops>>

CloseOld(p) ==
  /\ At(p, "close")
  /\ closed' = closed \cup ({proc[p].old} \ {None})
  /\ Becomes(p, GoesOn(p))
  /\ UNCHANGED <<credVars, gen, sess, bridge, addrs, txVars, ops>>

(***************************************************************************)
(* Who does it                                                             *)
(***************************************************************************)

(* New credentials are stored and their observer runs on this goroutine.   *)
StoreCreds(p, c, next) ==
  /\ creds' = c
  /\ Becomes(p, Doing("observe", next))
  /\ UNCHANGED <<sessVars, txVars>>

(* Connect: login and snapshot, which store the credentials; then the      *)
(* voice session. The control session's lock makes it wait for a logout.   *)
Connect(b) ==
  /\ creds = 0 /\ \A p \in Procs : proc[p].then # "reset" /\ ~At(p, "reset")
  /\ Starts(b)
  /\ version' = version + 1
  /\ StoreCreds(b, version', "generation")

ReconnectVoice(b) == creds # 0 /\ Starts(b) /\ Teardown(b, "generation")

(* Disconnect and ServiceShutdown stop voice, then log out (an RPC), then  *)
(* clear the credentials. A session the server ended takes the same way.   *)
Disconnect(b) == creds # 0 /\ Starts(b) /\ Teardown(b, "reset")
SessionEnds == creds # 0 /\ Starts("stream") /\ Teardown("stream", "reset")

ResetSession(p) ==
  /\ At(p, "reset")
  /\ StoreCreds(p, 0, "idle")
  /\ UNCHANGED <<version, ops>>

(* VOICE_ADDRESS_UPDATE, or the snapshot of a Reconnect.                   *)
Redirect ==
  /\ creds # 0 /\ Starts("stream")
  /\ version' = version + 1
  /\ StoreCreds("stream", version', "idle")

(* handleVoiceRedirect: without a live session there is nothing to move.   *)
Observe(p) ==
  /\ At(p, "observe")
  /\ Becomes(p, IF sess = None THEN GoesOn(p) ELSE [proc[p] EXCEPT !.at = "redirect"])
  /\ UNCHANGED <<credVars, sessVars, txVars, ops>>

(* The generation is taken in order, the dial runs on a goroutine.         *)
StartRedirect(p, d) ==
  /\ At(p, "redirect") /\ At(d, "idle")
  /\ gen' = gen + 1
  /\ proc' = [q \in Procs |-> IF q = d THEN Dialing("inputs", gen', 0, None)
                             ELSE IF q = p THEN GoesOn(p) ELSE proc[q]]
  /\ UNCHANGED <<credVars, sess, bridge, addrs, closed, txVars, ops>>

(***************************************************************************)
(* Transmitting                                                            *)
(***************************************************************************)

(* installTXTargetsLocked: what enters the set starts a transmission, and  *)
(* what leaves it ends one.                                                *)
InstallTargets(S) ==
  IF sess = None THEN UNCHANGED <<targets, touched, started>>
  ELSE targets' = S /\ touched' = TRUE /\ started' = S

(* txPress cancels the pending clear, unless that is running already.      *)
Press(a) ==
  /\ a \notin tx
  /\ tx' = tx \cup {a}
  /\ armed' \in {FALSE, armed}
  /\ InstallTargets(tx')
  /\ UNCHANGED <<credVars, sessVars, proc, ops>>

(* txRelease: a set that shrinks goes on on what remains.                  *)
ReleaseOne(a) ==
  /\ a \in tx /\ tx # {a}
  /\ tx' = tx \ {a}
  /\ InstallTargets(tx')
  /\ UNCHANGED <<armed, credVars, sessVars, proc, ops>>

\* Mutant: the targets are left for the next press to replace.
ReleaseForgets(a) ==
  /\ tx = {a} /\ tx' = {}
  /\ UNCHANGED <<targets, touched, started, armed, credVars, sessVars, proc, ops>>
(* The last release leaves the targets to the tail and to the clear that   *)
(* scheduleTXTargetClear arms.                                             *)
ReleaseLast(a) ==
  /\ tx = {a} /\ tx' = {}
  /\ armed' = TRUE
  /\ UNCHANGED <<targets, touched, started, credVars, sessVars, proc, ops>>

\* Mutant: the timer does not look again.
ClearAlways == InstallTargets({})
ClearIfIdle ==
  IF tx = {} THEN InstallTargets({}) ELSE UNCHANGED <<targets, touched, started>>

(* clearTXTargetsIfStillIdle. Clears outstanding at once do the same and   *)
(* are one.                                                                *)
ClearTargets ==
  /\ armed /\ armed' = FALSE
  /\ ClearIfIdle
  /\ UNCHANGED <<tx, credVars, sessVars, proc, ops>>

Call(b) == Connect(b) \/ ReconnectVoice(b) \/ Disconnect(b)
Step(p) ==
  \/ TakeGen(p) \/ ReadInputs(p) \/ Dial(p) \/ Install(p) \/ Reject(p)
  \/ PointBridge(p) \/ CloseOld(p) \/ ResetSession(p) \/ Observe(p)
  \/ \E d \in Dialers : StartRedirect(p, d)

Next ==
  \/ \E b \in Bindings : Call(b)
  \/ Redirect \/ SessionEnds
  \/ \E p \in Procs : Step(p)
  \/ \E a \in Actions : Press(a) \/ ReleaseOne(a) \/ ReleaseLast(a)
  \/ ClearTargets

Spec == Init /\ [][Next]_vars
(* A timer that is not stopped fires; nothing else is needed.              *)
FairSpec == Spec /\ WF_vars(ClearTargets)

(***************************************************************************)
(* Properties                                                              *)
(***************************************************************************)

(* Types of voiceState, the bridge and the goroutines that change them.    *)
TypeOK ==
  /\ ops \in 0..MaxOps /\ version \in 0..ops /\ creds \in 0..version
  /\ gen \in Nat /\ addrs \in Seq(1..version)
  /\ sess \in 0..Len(addrs) /\ bridge \in 0..Len(addrs) /\ closed \subseteq 1..Len(addrs)
  /\ proc \in [Procs -> [at : {"idle", "generation", "inputs", "dial", "install", "bridge",
                              "close", "reset", "observe", "redirect"},
                        then : {"idle", "generation", "reset"},
                        gen : 0..gen, addr : 0..version,
                        new : 0..Len(addrs), old : 0..Len(addrs)]]
  /\ tx \subseteq Actions /\ targets \subseteq Actions /\ started \subseteq Actions
  /\ touched \in BOOLEAN /\ armed \in BOOLEAN

AtRest == \A p \in Procs : At(p, "idle")

(* setVoiceSession, voiceSessionSwap: whatever overlaps, in the end every  *)
(* session that was dialed has been closed, but the live one.              *)
OneSessionOpen == AtRest => DOMAIN addrs \ closed = {sess} \ {None}

(* voiceSessionSwap: of overlapping redirects and reconnects the one with  *)
(* older credentials never replaces the one with newer (voice.go:814-829). *)
NeverBackToOlderAddress ==
  [][sess # None /\ sess' # None /\ sess' # sess => addrs[sess'] >= addrs[sess]]_vars

(* clearTXTargetsIfStillIdle: a transmission's targets are never wiped     *)
(* under it; only a session that was swapped in has none yet.              *)
TransmissionKeepsTargets == sess # None /\ tx # {} /\ touched => targets = tx

(* voiceSessionSwap, installTXTargetsLocked: no own transmission stays     *)
(* unlogged over a teardown, to become a row that spans the gap.           *)
LogEndsWithSession == started # {} => sess # None

(* What this client transmits is addressed, and logged, by the session     *)
(* that is installed (installTXTargetsLocked).                             *)
TransmissionsFollowSession == TransmissionKeepsTargets /\ LogEndsWithSession


(* scheduleTXTargetClear: no frequency stays set once nothing is held.     *)
IdleTargetsAreCleared == [](tx = {} => <>(targets = {} \/ tx # {}))

(* Voice never outlives the control session: no session is live once the   *)
(* credentials are gone (voice.go:916-921, bindings.go:76-78).             *)
NoSessionBehindTeardown == AtRest /\ creds = 0 => sess = None
=============================================================================

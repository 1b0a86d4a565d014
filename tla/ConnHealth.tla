----------------------------- MODULE ConnHealth -----------------------------
(***************************************************************************)
(* The connection-health monitor (internal/connhealth) between the session *)
(* it probes and the frontend it publishes to.  Control connections and    *)
(* the connected periods of the voice session are numbered, and a measured *)
(* round trip is the number of what it was measured on.                    *)
(*                                                                         *)
(* Publications of the session reach the monitor in the order they were    *)
(* made here; that they may cross is module Session's subject.             *)
(***************************************************************************)
EXTENDS Integers, Sequences

CONSTANTS Threshold,   \* Options.FailureThreshold
          MaxLinks,    \* bound: control connections
          MaxPeriods   \* bound: connected periods of the voice session

ASSUME HealthAssumption ==
  Threshold \in Nat \ {0} /\ MaxLinks \in Nat /\ MaxPeriods \in Nat

VARIABLES
  link,       \* the control connection that is installed, or None
  links,      \* connections so far
  alive,      \* the server answers on it
  attempting, \* a Connect or Reconnect is under way
  pubs,       \* transitions the session has yet to give to the monitor
  period,     \* the voice session's connected period, or None
  periods,    \* connected periods so far
  measured,   \* the voice session has measured a round trip in this period
  vpubs,      \* transitions the voice session has yet to give to the monitor
  snap,       \* Monitor.snap
  failures,   \* Monitor.failures
  lossFired,  \* Monitor.lossFired
  delivery,   \* the snapshot each thread holds emitMu to deliver, or Nothing
  shown,      \* what OnChange received last
  tick,       \* where the ticker is
  probing,    \* the connection its probe went out on
  answered,   \* the probe was answered
  voiceUp,    \* the voice plane was connected when the tick began
  voiceRTT,   \* the voice round trip it has read
  declared    \* loss was declared since the last transition (history)

sessionVars == <<link, links, alive, attempting>>
voiceVars   == <<period, periods, measured>>
monitorVars == <<snap, failures, lossFired, delivery, shown, declared>>
tickVars    == <<tick, probing, answered, voiceUp, voiceRTT>>
vars == <<sessionVars, pubs, voiceVars, vpubs, monitorVars, tickVars>>

None == 0
Unknown == 0
Nothing == <<>>
Threads == {"ticker", "session", "voice"}
Links   == 1..MaxLinks
Periods == 1..MaxPeriods

Init ==
  /\ link = None /\ links = 0 /\ alive = FALSE /\ attempting = FALSE /\ pubs = <<>>
  /\ period = None /\ periods = 0 /\ measured = FALSE /\ vpubs = <<>>
  /\ snap = [state |-> "disconnected", rtt |-> Unknown, healthy |-> FALSE,
             voice |-> "unavailable", voiceRTT |-> Unknown]
  /\ failures = 0 /\ lossFired = FALSE
  /\ delivery = [t \in Threads |-> Nothing] /\ shown = snap
  /\ tick = "idle" /\ probing = None /\ answered = FALSE
  /\ voiceUp = FALSE /\ voiceRTT = Unknown /\ declared = FALSE

----------------------------------------------------------------------------
(* The session, as far as the monitor can tell.                            *)

\* Connect or Reconnect: reconnecting is published, the live connection closed.
StartAttempt ==
  /\ ~attempting /\ links < MaxLinks
  /\ attempting' = TRUE /\ link' = None
  /\ pubs' = Append(pubs, "reconnecting")
  /\ UNCHANGED <<links, alive, voiceVars, vpubs, monitorVars, tickVars>>

Install ==
  /\ attempting /\ attempting' = FALSE
  /\ links' = links + 1 /\ link' = links + 1 /\ alive' = TRUE
  /\ pubs' = Append(pubs, "connected")
  /\ UNCHANGED <<voiceVars, vpubs, monitorVars, tickVars>>

FailAttempt ==
  /\ attempting /\ attempting' = FALSE
  /\ links' = links + 1
  /\ pubs' = Append(pubs, "disconnected")
  /\ UNCHANGED <<link, alive, voiceVars, vpubs, monitorVars, tickVars>>

\* The stream ends, or Disconnect.
Drop ==
  /\ link # None /\ link' = None
  /\ pubs' = Append(pubs, "disconnected")
  /\ UNCHANGED <<links, alive, attempting, voiceVars, vpubs, monitorVars, tickVars>>

\* The server stops answering and the connection does not notice.
HalfOpen ==
  /\ link # None /\ alive /\ alive' = FALSE
  /\ UNCHANGED <<link, links, attempting, pubs, voiceVars, vpubs, monitorVars, tickVars>>

----------------------------------------------------------------------------
(* The voice session.                                                      *)

VoiceConnects ==
  /\ period = None /\ periods < MaxPeriods
  /\ periods' = periods + 1 /\ period' = periods + 1 /\ measured' = FALSE
  /\ vpubs' = Append(vpubs, "connected")
  /\ UNCHANGED <<sessionVars, pubs, monitorVars, tickVars>>

VoiceMeasures ==
  /\ period # None /\ ~measured /\ measured' = TRUE
  /\ UNCHANGED <<sessionVars, pubs, period, periods, vpubs, monitorVars, tickVars>>

VoiceDrops ==
  /\ period # None /\ period' = None /\ measured' = FALSE
  /\ \E st \in {"rebinding", "unavailable"} : vpubs' = Append(vpubs, st)
  /\ UNCHANGED <<sessionVars, pubs, periods, monitorVars, tickVars>>

----------------------------------------------------------------------------
(* The setters.                                                            *)

\* Mutant: mu and emitMu are taken one after the other.
NoEmitMu == TRUE

\* emitMu is not held.
EmitMuFree == \A t \in Threads : delivery[t] = Nothing

\* Commit s under mu and hold emitMu for its delivery, if it is a change.
Commit(t, s) ==
  /\ delivery[t] = Nothing /\ EmitMuFree
  /\ snap' = s
  /\ delivery' = IF s = snap THEN delivery ELSE [delivery EXCEPT ![t] = <<s>>]

\* A transition forgets what was measured on the previous connection.
Transition(st) ==
  [state |-> st, rtt |-> Unknown, healthy |-> FALSE,
   voice |-> snap.voice, voiceRTT |-> snap.voiceRTT]

VoiceTransition(st) ==
  [state |-> snap.state, rtt |-> snap.rtt, healthy |-> snap.healthy, voice |-> st,
   voiceRTT |-> IF st = "connected" THEN snap.voiceRTT ELSE Unknown]

\* A probe that failed keeps the last round trip it measured.
Probed ==
  [state |-> snap.state, rtt |-> IF answered THEN probing ELSE snap.rtt, healthy |-> answered,
   voice |-> snap.voice, voiceRTT |-> voiceRTT]

\* Mutant: the latch of the last connection is kept.
SetControlStateKeepsLatch ==
  /\ pubs # <<>> /\ pubs' = Tail(pubs)
  /\ LET st == Head(pubs) IN
     IF snap.state = st
     THEN Commit("session", snap) /\ UNCHANGED <<failures, lossFired, declared>>
     ELSE /\ Commit("session", Transition(st))
          /\ failures' = 0 /\ declared' = FALSE /\ UNCHANGED lossFired
  /\ UNCHANGED <<sessionVars, voiceVars, vpubs, shown, tickVars>>

SetControlState ==
  /\ pubs # <<>> /\ pubs' = Tail(pubs)
  /\ LET st == Head(pubs) IN
     IF snap.state = st
     THEN Commit("session", snap) /\ UNCHANGED <<failures, lossFired, declared>>
     ELSE /\ Commit("session", Transition(st))
          /\ failures' = 0 /\ lossFired' = FALSE /\ declared' = FALSE
  /\ UNCHANGED <<sessionVars, voiceVars, vpubs, shown, tickVars>>

SetVoiceState ==
  /\ vpubs # <<>> /\ vpubs' = Tail(vpubs)
  /\ LET st == Head(vpubs) IN
     Commit("voice", VoiceTransition(st))
  /\ UNCHANGED <<sessionVars, pubs, voiceVars, failures, lossFired, shown, declared, tickVars>>

\* publish: OnChange, with emitMu held.
Deliver(t) ==
  /\ delivery[t] # Nothing
  /\ shown' = delivery[t][1]
  /\ delivery' = [delivery EXCEPT ![t] = Nothing]
  /\ UNCHANGED <<sessionVars, pubs, voiceVars, vpubs, snap, failures, lossFired, declared, tickVars>>

----------------------------------------------------------------------------
(* Tick.                                                                   *)

StartTick ==
  /\ tick = "idle" /\ snap.state = "connected"
  /\ voiceUp' = (snap.voice = "connected")
  /\ tick' = "ping"
  /\ UNCHANGED <<sessionVars, pubs, voiceVars, vpubs, monitorVars, probing, answered, voiceRTT>>

\* PingOnce goes out on the connection installed now; without one it fails.
Ping ==
  /\ tick = "ping"
  /\ probing' = link
  /\ tick' = "wait"
  /\ UNCHANGED <<sessionVars, pubs, voiceVars, vpubs, monitorVars, answered, voiceUp, voiceRTT>>

\* It is answered, or fails: no connection, closed meanwhile, or timed out.
PingReturns ==
  /\ tick = "wait"
  /\ answered' \in (IF probing # None /\ probing = link /\ alive THEN BOOLEAN ELSE {FALSE})
  /\ tick' = "voice"
  /\ UNCHANGED <<sessionVars, pubs, voiceVars, vpubs, monitorVars, probing, voiceUp, voiceRTT>>

ReadVoiceRTT ==
  /\ tick = "voice"
  /\ voiceRTT' = IF voiceUp /\ measured THEN period ELSE Unknown
  /\ tick' = "commit"
  /\ UNCHANGED <<sessionVars, pubs, voiceVars, vpubs, monitorVars, probing, answered, voiceUp>>

\* The control link has left connected while the probe was out.
DropProbe ==
  /\ tick = "commit" /\ EmitMuFree
  /\ snap.state # "connected"
  /\ tick' = "idle"
  /\ UNCHANGED <<sessionVars, pubs, voiceVars, vpubs, monitorVars, probing, answered, voiceUp, voiceRTT>>

\* Mutant: loss is declared on every tick past the threshold.
ApplyProbeUnlatched ==
  /\ tick = "commit" /\ snap.state = "connected"
  /\ Commit("ticker", Probed)
  /\ failures' = IF answered THEN 0 ELSE IF failures < Threshold THEN failures + 1 ELSE failures
  /\ lossFired' = FALSE
  /\ tick' = IF ~answered /\ failures' >= Threshold THEN "loss" ELSE "idle"
  /\ declared' = (declared \/ tick' = "loss")
  /\ UNCHANGED <<sessionVars, pubs, voiceVars, vpubs, shown, probing, answered, voiceUp, voiceRTT>>

\* Failures past the threshold are counted no further (the latch has fired).
ApplyProbe ==
  /\ tick = "commit" /\ snap.state = "connected"
  /\ Commit("ticker", Probed)
  /\ failures' = IF answered THEN 0 ELSE IF failures < Threshold THEN failures + 1 ELSE failures
  /\ LET fireLoss == ~answered /\ failures' >= Threshold /\ ~lossFired IN
     /\ lossFired' = (lossFired \/ fireLoss)
     /\ tick' = IF fireLoss THEN "loss" ELSE "idle"
     /\ declared' = (declared \/ fireLoss)
  /\ UNCHANGED <<sessionVars, pubs, voiceVars, vpubs, shown, probing, answered, voiceUp, voiceRTT>>

\* OnLoss is MarkControlLost: it takes down whatever is installed when it runs.
OnLoss ==
  /\ tick = "loss" /\ delivery["ticker"] = Nothing
  /\ IF link = None
     THEN tick' = "idle" /\ UNCHANGED <<link, pubs>>
     ELSE link' = None /\ pubs' = Append(pubs, "disconnected") /\ tick' = "lost"
  /\ UNCHANGED <<links, alive, attempting, voiceVars, vpubs, snap, failures, lossFired,
                 delivery, shown, declared, probing, answered, voiceUp, voiceRTT>>

\* MarkControlLost returns when its transition is published.
LossPublished ==
  /\ tick = "lost" /\ pubs = <<>>
  /\ tick' = "idle"
  /\ UNCHANGED <<sessionVars, pubs, voiceVars, vpubs, monitorVars, probing, answered, voiceUp, voiceRTT>>

SessionStep == StartAttempt \/ Install \/ FailAttempt \/ Drop \/ HalfOpen
VoiceStep   == VoiceConnects \/ VoiceMeasures \/ VoiceDrops
TickStep    == \/ StartTick \/ Ping \/ PingReturns \/ ReadVoiceRTT \/ DropProbe
               \/ ApplyProbe \/ OnLoss \/ LossPublished

Next ==
  \/ SessionStep \/ VoiceStep \/ SetControlState \/ SetVoiceState
  \/ (\E t \in Threads : Deliver(t)) \/ TickStep

Spec == Init /\ [][Next]_vars

----------------------------------------------------------------------------
(* Properties.                                                             *)

ControlStates == {"connected", "reconnecting", "disconnected"}
VoiceStates   == {"connected", "rebinding", "unavailable"}
Snapshots ==
  [state : ControlStates, rtt : Links \cup {Unknown}, healthy : BOOLEAN,
   voice : VoiceStates, voiceRTT : Periods \cup {Unknown}]

\* The monitor's fields keep their types, and a link is healthy only while it
\* is connected.
TypeOK ==
  /\ link \in Links \cup {None} /\ links \in 0..MaxLinks /\ alive \in BOOLEAN
  /\ attempting \in BOOLEAN /\ (attempting => links < MaxLinks)
  /\ pubs \in Seq(ControlStates) /\ vpubs \in Seq(VoiceStates)
  /\ period \in Periods \cup {None} /\ periods \in 0..MaxPeriods
  /\ (period = None => ~measured) /\ measured \in BOOLEAN
  /\ snap \in Snapshots /\ shown \in Snapshots
  /\ (snap.healthy => snap.state = "connected" /\ snap.rtt # Unknown)
  /\ failures \in 0..Threshold /\ lossFired \in BOOLEAN /\ declared \in BOOLEAN
  /\ delivery \in [Threads -> {Nothing} \cup {<<s>> : s \in Snapshots}]
  /\ tick \in {"idle", "ping", "wait", "voice", "commit", "loss", "lost"}
  /\ probing \in Links \cup {None} /\ answered \in BOOLEAN
  /\ (answered /\ tick \in {"voice", "commit"} => probing # None)
  /\ voiceUp \in BOOLEAN /\ voiceRTT \in Periods \cup {Unknown}

\* The frontend has the latest snapshot whenever nobody is delivering one:
\* deliveries keep the order of the commits (publish).
DeliveredInOrder ==
  (\A t \in Threads : delivery[t] = Nothing) => shown = snap

\* OnLoss is called once per connected period, however long the link stays
\* dead and however late its transition is published (lossFired).
LossDeclaredOnce == [][tick = "commit" /\ tick' = "loss" => ~declared]_vars

\* A connection the server no longer answers on does not stay installed
\* (monitor.go, "precisely the case this probe exists to detect").
HalfOpenIsDropped ==
  \A n \in Links : (link = n /\ ~alive) ~> (link # n)

\* The ticker ticks, a ping is bounded by one interval and publications are made.
FairSpec ==
  /\ Spec /\ WF_vars(TickStep) /\ WF_vars(SetControlState) /\ WF_vars(SetVoiceState)
  /\ \A t \in Threads : WF_vars(Deliver(t))
=============================================================================

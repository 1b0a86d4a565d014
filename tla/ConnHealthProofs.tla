-------------------------- MODULE ConnHealthProofs --------------------------
(***************************************************************************)
(* What the health monitor never does, for every threshold and any number  *)
(* of connections: the frontend is never left with an older snapshot than  *)
(* the monitor's, and a loss is declared at most once per transition.      *)
(***************************************************************************)
EXTENDS ConnHealth, TLAPS

\* emitMu: one thread at a time is delivering, and what it is about to hand
\* over is the snapshot in force, because nobody commits another meanwhile.
EmitInv ==
  /\ \A t, u \in Threads : delivery[t] # Nothing /\ delivery[u] # Nothing => t = u
  /\ \A t \in Threads : delivery[t] # Nothing => delivery[t] = <<snap>>
  /\ DeliveredInOrder

\* The latch stays set for as long as the loss it stands for counts.
LatchInv == declared => lossFired

IInv == TypeOK /\ EmitInv /\ LatchInv

----------------------------------------------------------------------------
(* The monitor starts with nothing measured and nothing to deliver (New).  *)
LEMMA InitInv == Init => IInv
<1> USE HealthAssumption DEF HealthAssumption, Links, Periods, None, Unknown, Nothing, Threads
<1>1. ASSUME Init PROVE TypeOK
  <2>1. snap \in Snapshots /\ ~snap.healthy
    BY <1>1 DEF Init, Snapshots, ControlStates, VoiceStates
  <2>2. delivery \in [Threads -> {Nothing} \cup {<<s>> : s \in Snapshots}]
    BY <1>1 DEF Init
  <2>3. pubs \in Seq(ControlStates) /\ vpubs \in Seq(VoiceStates)
    BY <1>1 DEF Init
  <2>4. /\ link \in Links \cup {None} /\ links \in 0..MaxLinks
        /\ period \in Periods \cup {None} /\ periods \in 0..MaxPeriods
        /\ failures \in 0..Threshold
        /\ probing \in Links \cup {None} /\ voiceRTT \in Periods \cup {Unknown}
        /\ tick = "idle" /\ shown = snap
    BY <1>1 DEF Init
  <2>5. /\ alive \in BOOLEAN /\ attempting \in BOOLEAN /\ ~attempting
        /\ measured \in BOOLEAN /\ ~measured /\ answered \in BOOLEAN /\ ~answered
        /\ lossFired \in BOOLEAN /\ declared \in BOOLEAN /\ voiceUp \in BOOLEAN
    BY <1>1 DEF Init
  <2> QED  BY <2>1, <2>2, <2>3, <2>4, <2>5 DEF TypeOK
<1>2. Init => EmitInv
  BY DEF Init, EmitInv, DeliveredInOrder
<1>3. Init => LatchInv
  BY DEF Init, LatchInv
<1> QED  BY <1>1, <1>2, <1>3 DEF IInv

\* A commit that is a change puts the new snapshot in its thread's hands
\* (publish); one that is none leaves them empty.
LEMMA CommitType ==
  ASSUME TypeOK, NEW t \in Threads, NEW s \in Snapshots, Commit(t, s)
  PROVE  /\ snap' \in Snapshots
         /\ delivery' \in [Threads -> {Nothing} \cup {<<q>> : q \in Snapshots}]
<1>1. snap' = s
  BY DEF Commit
<1>2. delivery' = delivery \/ delivery' = [delivery EXCEPT ![t] = <<s>>]
  BY DEF Commit
<1>3. <<s>> \in {<<q>> : q \in Snapshots}
  OBVIOUS
<1> QED  BY <1>1, <1>2, <1>3 DEF TypeOK

(* A transition and a probe's result are snapshots: what a probe measured  *)
(* is healthy only if it was answered on a connection (Tick).              *)
LEMMA SnapshotsAreMade ==
  ASSUME TypeOK
  PROVE  /\ \A st \in ControlStates : Transition(st) \in Snapshots /\ ~Transition(st).healthy
         /\ \A st \in VoiceStates :
              /\ VoiceTransition(st) \in Snapshots
              /\ VoiceTransition(st).healthy = snap.healthy
              /\ VoiceTransition(st).state = snap.state
              /\ VoiceTransition(st).rtt = snap.rtt
         /\ Probed \in Snapshots /\ Probed.healthy = answered
         /\ Probed.state = snap.state
         /\ (answered => Probed.rtt = probing)
<1> USE DEF TypeOK, Snapshots, Unknown, None
<1>1. \A st \in ControlStates : Transition(st) \in Snapshots /\ ~Transition(st).healthy
  BY DEF Transition
<1>2. ASSUME NEW st \in VoiceStates
      PROVE  /\ VoiceTransition(st) \in Snapshots
             /\ VoiceTransition(st).healthy = snap.healthy
             /\ VoiceTransition(st).state = snap.state
             /\ VoiceTransition(st).rtt = snap.rtt
  BY DEF VoiceTransition
<1>3. /\ Probed \in Snapshots /\ Probed.healthy = answered
      /\ Probed.state = snap.state
      /\ (answered => Probed.rtt = probing)
  BY DEF Probed
<1> QED  BY <1>1, <1>2, <1>3

\* The conjuncts of the type invariant that a setter of the monitor changes.
MonitorType ==
  /\ pubs \in Seq(ControlStates) /\ vpubs \in Seq(VoiceStates)
  /\ snap \in Snapshots /\ shown \in Snapshots
  /\ (snap.healthy => snap.state = "connected" /\ snap.rtt # Unknown)
  /\ failures \in 0..Threshold /\ lossFired \in BOOLEAN /\ declared \in BOOLEAN
  /\ delivery \in [Threads -> {Nothing} \cup {<<s>> : s \in Snapshots}]

\* The conjuncts about the two sessions.
SessionType ==
  /\ link \in Links \cup {None} /\ links \in 0..MaxLinks /\ alive \in BOOLEAN
  /\ attempting \in BOOLEAN /\ (attempting => links < MaxLinks)
  /\ period \in Periods \cup {None} /\ periods \in 0..MaxPeriods
  /\ (period = None => ~measured) /\ measured \in BOOLEAN

\* The conjuncts about the ticker.
TickType ==
  /\ tick \in {"idle", "ping", "wait", "voice", "commit", "loss", "lost"}
  /\ probing \in Links \cup {None} /\ answered \in BOOLEAN
  /\ (answered /\ tick \in {"voice", "commit"} => probing # None)
  /\ voiceUp \in BOOLEAN /\ voiceRTT \in Periods \cup {Unknown}

(* The three groups are the type invariant.                                *)
LEMMA TypeParts == TypeOK <=> MonitorType /\ SessionType /\ TickType
  BY DEF TypeOK, MonitorType, SessionType, TickType

----------------------------------------------------------------------------
(* Every step of the sessions, the setters and Tick keeps the types.       *)
LEMMA TypeNext == TypeOK /\ [Next]_vars => TypeOK'
<1> SUFFICES ASSUME TypeOK, [Next]_vars PROVE TypeOK'
  OBVIOUS
<1> USE HealthAssumption DEF HealthAssumption
<1>0. MonitorType /\ SessionType /\ TickType
  BY TypeParts
<1> SUFFICES MonitorType' /\ SessionType' /\ TickType'
  BY DEF TypeOK, MonitorType, SessionType, TickType
<1> DEFINE Goal == MonitorType' /\ SessionType' /\ TickType'
<1> HIDE DEF Goal
<1>1. CASE SessionStep
  <2> USE <1>0 DEF SessionType, Links, None, sessionVars
  <2>1. UNCHANGED <<voiceVars, vpubs, monitorVars, tickVars>>
    BY <1>1 DEF SessionStep, StartAttempt, Install, FailAttempt, Drop, HalfOpen
  <2>2. pubs' \in Seq(ControlStates)
    <3>1. pubs' = pubs \/ (\E st \in ControlStates : pubs' = Append(pubs, st))
      BY <1>1 DEF SessionStep, StartAttempt, Install, FailAttempt, Drop, HalfOpen, ControlStates
    <3> QED  BY <3>1 DEF MonitorType
  <2>3. UNCHANGED <<period, periods, measured>>
    BY <2>1 DEF voiceVars
  <2>4. ASSUME StartAttempt PROVE SessionType'
    BY <2>3, <2>4 DEF StartAttempt
  <2>5. ASSUME Install PROVE SessionType'
    <3>1. links < MaxLinks /\ links \in 0..MaxLinks
      BY <2>5 DEF Install
    <3>2. links' \in 0..MaxLinks /\ link' \in Links
      BY <3>1, <2>5 DEF Install
    <3>3. alive' \in BOOLEAN /\ attempting' \in BOOLEAN /\ ~attempting'
      BY <2>5 DEF Install
    <3> QED  BY <2>3, <3>2, <3>3
  <2>6. ASSUME FailAttempt PROVE SessionType'
    <3>1. links < MaxLinks /\ links \in 0..MaxLinks
      BY <2>6 DEF FailAttempt
    <3>2. links' \in 0..MaxLinks
      BY <3>1, <2>6 DEF FailAttempt
    <3>3. link' = link /\ alive' = alive /\ attempting' \in BOOLEAN /\ ~attempting'
      BY <2>6 DEF FailAttempt
    <3> QED  BY <2>3, <3>2, <3>3
  <2>7. ASSUME Drop PROVE SessionType'
    BY <2>3, <2>7 DEF Drop
  <2>8. ASSUME HalfOpen PROVE SessionType'
    BY <2>3, <2>8 DEF HalfOpen
  <2>9. SessionType'
    BY <1>1, <2>4, <2>5, <2>6, <2>7, <2>8 DEF SessionStep
  <2> QED  BY <2>1, <2>2, <2>9 DEF Goal, MonitorType, TickType, monitorVars, tickVars
<1>2. CASE VoiceStep
  <2> USE <1>0 DEF SessionType, Periods, None, voiceVars
  <2>1. UNCHANGED <<sessionVars, pubs, monitorVars, tickVars>>
    BY <1>2 DEF VoiceStep, VoiceConnects, VoiceMeasures, VoiceDrops
  <2>2. vpubs' \in Seq(VoiceStates)
    <3>1. vpubs' = vpubs \/ (\E st \in VoiceStates : vpubs' = Append(vpubs, st))
      BY <1>2 DEF VoiceStep, VoiceConnects, VoiceMeasures, VoiceDrops, VoiceStates
    <3> QED  BY <3>1 DEF MonitorType
  <2>3. UNCHANGED <<link, links, alive, attempting>>
    BY <2>1 DEF sessionVars
  <2>4. ASSUME VoiceConnects PROVE SessionType'
    <3>1. periods < MaxPeriods /\ periods \in 0..MaxPeriods
      BY <2>4 DEF VoiceConnects
    <3>2. periods' \in 0..MaxPeriods /\ period' \in Periods /\ period' # None
      BY <3>1, <2>4 DEF VoiceConnects
    <3>3. measured' \in BOOLEAN
      BY <2>4 DEF VoiceConnects
    <3> QED  BY <2>3, <3>2, <3>3
  <2>5. ASSUME VoiceMeasures PROVE SessionType'
    BY <2>3, <2>5 DEF VoiceMeasures
  <2>6. ASSUME VoiceDrops PROVE SessionType'
    BY <2>3, <2>6 DEF VoiceDrops
  <2>7. SessionType'
    BY <1>2, <2>4, <2>5, <2>6 DEF VoiceStep
  <2> QED  BY <2>1, <2>2, <2>7 DEF Goal, MonitorType, TickType, monitorVars, tickVars
<1>3. CASE SetControlState
  <2>1. UNCHANGED <<sessionVars, voiceVars, vpubs, shown, tickVars>>
    BY <1>3 DEF SetControlState
  <2>2. SessionType' /\ TickType'
    BY <1>0, <2>1 DEF SessionType, TickType, sessionVars, voiceVars, tickVars
  <2>3. Head(pubs) \in ControlStates /\ pubs' \in Seq(ControlStates)
    BY <1>3, <1>0 DEF SetControlState, MonitorType
  <2>4. CASE snap.state = Head(pubs)
    <3>1. Commit("session", snap) /\ UNCHANGED <<failures, lossFired, declared>>
      BY <1>3, <2>4 DEF SetControlState
    <3>2. snap' = snap /\ delivery' \in [Threads -> {Nothing} \cup {<<q>> : q \in Snapshots}]
      BY <3>1, <1>0, CommitType DEF Commit, MonitorType, Threads
    <3> QED  BY <1>0, <2>1, <2>2, <2>3, <3>1, <3>2 DEF Goal, MonitorType
  <2>5. CASE snap.state # Head(pubs)
    <3>1. Commit("session", Transition(Head(pubs)))
      BY <1>3, <2>5 DEF SetControlState
    <3>2. failures' = 0 /\ lossFired' = FALSE /\ declared' = FALSE
      BY <1>3, <2>5 DEF SetControlState
    <3>3. Transition(Head(pubs)) \in Snapshots /\ ~Transition(Head(pubs)).healthy
      BY <2>3, SnapshotsAreMade
    <3>4. /\ failures' \in 0..Threshold
          /\ lossFired' \in BOOLEAN /\ declared' \in BOOLEAN
      <4>1. failures' \in 0..Threshold
        BY <3>2
      <4> QED  BY <3>2, <4>1
    <3>5. snap' \in Snapshots /\ ~snap'.healthy
      BY <3>1, <3>3 DEF Commit
    <3>6. delivery' \in [Threads -> {Nothing} \cup {<<q>> : q \in Snapshots}]
      BY <3>1, <3>3, CommitType DEF Threads
    <3> QED  BY <1>0, <2>1, <2>2, <2>3, <3>4, <3>5, <3>6 DEF Goal, MonitorType
  <2> QED  BY <2>4, <2>5
<1>4. CASE SetVoiceState
  <2>1. UNCHANGED <<sessionVars, pubs, voiceVars, failures, lossFired, shown, declared, tickVars>>
    BY <1>4 DEF SetVoiceState
  <2>2. SessionType' /\ TickType'
    BY <1>0, <2>1 DEF SessionType, TickType, sessionVars, voiceVars, tickVars
  <2>3. Head(vpubs) \in VoiceStates /\ vpubs' \in Seq(VoiceStates)
    BY <1>4, <1>0 DEF SetVoiceState, MonitorType
  <2>4. Commit("voice", VoiceTransition(Head(vpubs)))
    BY <1>4 DEF SetVoiceState
  <2>5. /\ VoiceTransition(Head(vpubs)) \in Snapshots
        /\ VoiceTransition(Head(vpubs)).healthy = snap.healthy
        /\ VoiceTransition(Head(vpubs)).state = snap.state
        /\ VoiceTransition(Head(vpubs)).rtt = snap.rtt
    BY <2>3, SnapshotsAreMade
  <2>6. snap' = VoiceTransition(Head(vpubs))
    BY <2>4 DEF Commit
  <2>7. delivery' \in [Threads -> {Nothing} \cup {<<q>> : q \in Snapshots}]
    BY <2>4, <2>5, CommitType DEF Threads
  <2> QED  BY <1>0, <2>1, <2>2, <2>3, <2>5, <2>6, <2>7 DEF Goal, MonitorType
<1>5. ASSUME NEW t \in Threads, Deliver(t) PROVE Goal
  <2>1. UNCHANGED <<sessionVars, pubs, voiceVars, vpubs, snap, failures, lossFired, declared, tickVars>>
    BY <1>5 DEF Deliver
  <2>2. SessionType' /\ TickType'
    BY <1>0, <2>1 DEF SessionType, TickType, sessionVars, voiceVars, tickVars
  <2>3. delivery[t] \in {<<s>> : s \in Snapshots}
    BY <1>5, <1>0 DEF Deliver, MonitorType
  <2>4. PICK s \in Snapshots : delivery[t] = <<s>>
    BY <2>3
  <2>5. shown' \in Snapshots
    BY <1>5, <2>4 DEF Deliver
  <2>6. delivery' \in [Threads -> {Nothing} \cup {<<q>> : q \in Snapshots}]
    BY <1>5, <1>0 DEF Deliver, MonitorType
  <2> QED  BY <1>0, <2>1, <2>2, <2>5, <2>6 DEF Goal, MonitorType
<1>6. CASE StartTick \/ Ping \/ PingReturns \/ ReadVoiceRTT \/ DropProbe \/ LossPublished
  <2>1. UNCHANGED <<sessionVars, pubs, voiceVars, vpubs, monitorVars>>
    BY <1>6 DEF StartTick, Ping, PingReturns, ReadVoiceRTT, DropProbe, LossPublished
  <2>2. SessionType' /\ MonitorType'
    BY <1>0, <2>1 DEF SessionType, MonitorType, sessionVars, voiceVars, monitorVars
  <2>3. ASSUME StartTick PROVE TickType'
    BY <2>3, <1>0 DEF StartTick, TickType
  <2>4. ASSUME Ping PROVE TickType'
    BY <2>4, <1>0 DEF Ping, TickType, SessionType
  <2>5. ASSUME PingReturns PROVE TickType'
    <3>1. answered' \in BOOLEAN /\ (answered' => probing # None)
      BY <2>5 DEF PingReturns
    <3> QED  BY <2>5, <3>1, <1>0 DEF PingReturns, TickType
  <2>6. ASSUME ReadVoiceRTT PROVE TickType'
    <3>1. voiceRTT' \in Periods \cup {Unknown}
      BY <2>6, <1>0 DEF ReadVoiceRTT, SessionType, None, Unknown
    <3> QED  BY <2>6, <3>1, <1>0 DEF ReadVoiceRTT, TickType
  <2>7. ASSUME DropProbe \/ LossPublished PROVE TickType'
    BY <2>7, <1>0 DEF DropProbe, LossPublished, TickType
  <2> QED  BY <1>6, <2>2, <2>3, <2>4, <2>5, <2>6, <2>7 DEF Goal
<1>7. CASE ApplyProbe
  <2>1. UNCHANGED <<sessionVars, pubs, voiceVars, vpubs, shown, probing, answered, voiceUp, voiceRTT>>
    BY <1>7 DEF ApplyProbe
  <2>2. Commit("ticker", Probed)
    BY <1>7 DEF ApplyProbe
  <2>3. /\ Probed \in Snapshots /\ Probed.healthy = answered
        /\ Probed.state = snap.state
        /\ (answered => Probed.rtt = probing)
    BY SnapshotsAreMade
  <2>4. snap' = Probed /\ snap.state = "connected" /\ tick = "commit"
    BY <1>7, <2>2 DEF Commit, ApplyProbe
  <2>5. delivery' \in [Threads -> {Nothing} \cup {<<q>> : q \in Snapshots}]
    BY <2>2, <2>3, CommitType DEF Threads
  <2>6. snap'.healthy => snap'.state = "connected" /\ snap'.rtt # Unknown
    BY <1>0, <2>3, <2>4 DEF TickType, Links, None, Unknown
  <2>7. failures' \in 0..Threshold /\ lossFired' \in BOOLEAN /\ declared' \in BOOLEAN
    BY <1>7, <1>0 DEF ApplyProbe, MonitorType
  <2>8. tick' \in {"idle", "loss"}
    BY <1>7 DEF ApplyProbe
  <2>9. MonitorType'
    BY <1>0, <2>1, <2>3, <2>4, <2>5, <2>6, <2>7 DEF MonitorType
  <2> QED  BY <1>0, <2>1, <2>8, <2>9 DEF Goal, SessionType, TickType, sessionVars, voiceVars
<1>8. CASE OnLoss
  <2>1. UNCHANGED <<links, alive, attempting, voiceVars, vpubs, snap, failures, lossFired,
                    delivery, shown, declared, probing, answered, voiceUp, voiceRTT>>
    BY <1>8 DEF OnLoss
  <2>2. link' \in {link, None} /\ tick' \in {"idle", "lost"}
    BY <1>8 DEF OnLoss
  <2>3. pubs' \in Seq(ControlStates)
    <3>1. pubs' = pubs \/ pubs' = Append(pubs, "disconnected")
      BY <1>8 DEF OnLoss
    <3>2. "disconnected" \in ControlStates
      BY DEF ControlStates
    <3> QED  BY <3>1, <3>2, <1>0 DEF MonitorType
  <2>4. MonitorType'
    BY <1>0, <2>1, <2>3 DEF MonitorType
  <2> QED  BY <1>0, <2>1, <2>2, <2>4 DEF Goal, SessionType, TickType, voiceVars
<1>9. CASE UNCHANGED vars
  BY <1>9, <1>0 DEF Goal, MonitorType, SessionType, TickType, vars, sessionVars, voiceVars,
                    monitorVars, tickVars
<1> QED  BY <1>1, <1>2, <1>3, <1>4, <1>5, <1>6, <1>7, <1>8, <1>9 DEF Next, TickStep, Goal

----------------------------------------------------------------------------
(* A commit with emitMu free leaves its own snapshot as the only one to be *)
(* delivered, or nothing to deliver and nothing changed (publish).         *)
LEMMA CommitKeepsOrder ==
  ASSUME TypeOK, EmitInv, NEW t \in Threads, NEW s \in Snapshots, Commit(t, s), UNCHANGED shown
  PROVE  EmitInv'
<1>1. \A u \in Threads : delivery[u] = Nothing
  BY DEF Commit, EmitMuFree
<1>2. shown = snap
  BY <1>1 DEF EmitInv, DeliveredInOrder
<1>3. CASE s = snap
  <2>1. UNCHANGED <<snap, delivery>>
    BY <1>3 DEF Commit
  <2> QED  BY <2>1 DEF EmitInv, DeliveredInOrder
<1>4. CASE s # snap
  <2>1. snap' = s /\ delivery' = [delivery EXCEPT ![t] = <<s>>]
    BY <1>4 DEF Commit
  <2>2. delivery'[t] = <<s>> /\ (\A u \in Threads : u # t => delivery'[u] = Nothing)
    BY <1>1, <2>1 DEF TypeOK
  <2>3. <<s>> # Nothing
    BY DEF Nothing
  <2> QED  BY <2>1, <2>2, <2>3 DEF EmitInv, DeliveredInOrder
<1> QED  BY <1>3, <1>4

(* Who holds emitMu delivers what is in force, whatever the sessions and   *)
(* the probe do meanwhile (Monitor.emitMu).                                *)
LEMMA EmitNext == TypeOK /\ EmitInv /\ [Next]_vars => EmitInv'
<1> SUFFICES ASSUME TypeOK, EmitInv, [Next]_vars PROVE EmitInv'
  OBVIOUS
<1>1. ASSUME UNCHANGED <<snap, delivery, shown>> PROVE EmitInv'
  BY <1>1 DEF EmitInv, DeliveredInOrder
<1>2. CASE SessionStep \/ VoiceStep \/ UNCHANGED vars
  <2>1. UNCHANGED <<snap, delivery, shown>>
    BY <1>2 DEF SessionStep, StartAttempt, Install, FailAttempt, Drop, HalfOpen, VoiceStep,
                VoiceConnects, VoiceMeasures, VoiceDrops, monitorVars, vars
  <2> QED  BY <1>1, <2>1
<1>3. CASE SetControlState
  <2>1. PICK s \in Snapshots : Commit("session", s)
    <3>1. Head(pubs) \in ControlStates /\ snap \in Snapshots
      BY <1>3 DEF SetControlState, TypeOK
    <3> QED  BY <1>3, <3>1, SnapshotsAreMade DEF SetControlState
  <2> QED  BY <1>3, <2>1, CommitKeepsOrder DEF SetControlState, Threads
<1>4. CASE SetVoiceState
  <2>1. PICK s \in Snapshots : Commit("voice", s)
    <3>1. Head(vpubs) \in VoiceStates
      BY <1>4 DEF SetVoiceState, TypeOK
    <3> QED  BY <1>4, <3>1, SnapshotsAreMade DEF SetVoiceState
  <2> QED  BY <1>4, <2>1, CommitKeepsOrder DEF SetVoiceState, Threads
<1>5. ASSUME NEW t \in Threads, Deliver(t) PROVE EmitInv'
  <2>1. delivery[t] = <<snap>> /\ (\A u \in Threads : u # t => delivery[u] = Nothing)
    BY <1>5 DEF Deliver, EmitInv
  <2>2. shown' = snap /\ snap' = snap /\ delivery' = [delivery EXCEPT ![t] = Nothing]
    BY <1>5, <2>1 DEF Deliver
  <2>3. \A u \in Threads : delivery'[u] = Nothing
    BY <2>1, <2>2 DEF TypeOK
  <2> QED  BY <2>2, <2>3 DEF EmitInv, DeliveredInOrder
<1>6. CASE ApplyProbe
  <2>1. Commit("ticker", Probed) /\ UNCHANGED shown
    BY <1>6 DEF ApplyProbe
  <2> QED  BY <2>1, SnapshotsAreMade, CommitKeepsOrder DEF Threads
<1>7. CASE \/ StartTick \/ Ping \/ PingReturns \/ ReadVoiceRTT \/ DropProbe
           \/ OnLoss \/ LossPublished
  <2>1. UNCHANGED <<snap, delivery, shown>>
    BY <1>7 DEF StartTick, Ping, PingReturns, ReadVoiceRTT, DropProbe, OnLoss, LossPublished,
                monitorVars
  <2> QED  BY <1>1, <2>1
<1> QED  BY <1>2, <1>3, <1>4, <1>5, <1>6, <1>7 DEF Next, TickStep

(* Declaring a loss sets the latch, and only a transition clears either    *)
(* (Tick, SetControlState).                                                *)
LEMMA LatchNext == TypeOK /\ LatchInv /\ [Next]_vars => LatchInv'
<1> SUFFICES ASSUME TypeOK, LatchInv, [Next]_vars PROVE LatchInv'
  OBVIOUS
<1>1. CASE SetControlState
  BY <1>1 DEF SetControlState, LatchInv
<1>2. CASE ApplyProbe
  BY <1>2 DEF ApplyProbe, LatchInv, TypeOK
<1>3. CASE \/ SessionStep \/ VoiceStep \/ SetVoiceState \/ (\E t \in Threads : Deliver(t))
           \/ StartTick \/ Ping \/ PingReturns \/ ReadVoiceRTT \/ DropProbe
           \/ OnLoss \/ LossPublished \/ UNCHANGED vars
  <2>1. UNCHANGED <<declared, lossFired>>
    BY <1>3 DEF SessionStep, StartAttempt, Install, FailAttempt, Drop, HalfOpen, VoiceStep,
                VoiceConnects, VoiceMeasures, VoiceDrops, SetVoiceState, Deliver, StartTick, Ping,
                PingReturns, ReadVoiceRTT, DropProbe, OnLoss, LossPublished, monitorVars, vars
  <2> QED  BY <2>1 DEF LatchInv
<1> QED  BY <1>1, <1>2, <1>3 DEF Next, TickStep

----------------------------------------------------------------------------
(* The inductive invariant holds of every behaviour.                       *)
THEOREM Invariance == Spec => []IInv
<1>1. IInv /\ [Next]_vars => IInv'
  BY TypeNext, EmitNext, LatchNext DEF IInv
<1> QED  BY <1>1, InitInv, PTL DEF Spec

(* The monitor's fields keep their types for every threshold, and a link   *)
(* is healthy only while it is connected and was measured (Snapshot).      *)
THEOREM TypeCorrect == Spec => []TypeOK
<1>1. IInv => TypeOK
  BY DEF IInv
<1> QED  BY <1>1, Invariance, PTL

(* With three goroutines publishing, the frontend ends up with the last    *)
(* snapshot committed: emitMu is held from the commit to the delivery.     *)
THEOREM DeliveriesKeepOrder == Spec => []DeliveredInOrder
<1>1. IInv => DeliveredInOrder
  BY DEF IInv, EmitInv
<1> QED  BY <1>1, Invariance, PTL

(* OnLoss is called at most once between two transitions of the control    *)
(* state, for every threshold (lossFired).                                 *)
THEOREM LossIsDeclaredOnce == Spec => LossDeclaredOnce
<1>1. IInv /\ [Next]_vars => [tick = "commit" /\ tick' = "loss" => ~declared]_vars
  <2> SUFFICES ASSUME IInv, [Next]_vars, tick = "commit", tick' = "loss"
               PROVE  ~declared
    OBVIOUS
  <2>1. CASE ApplyProbe
    BY <2>1 DEF ApplyProbe, IInv, LatchInv
  <2>2. CASE \/ SessionStep \/ VoiceStep \/ SetControlState \/ SetVoiceState
             \/ (\E t \in Threads : Deliver(t)) \/ UNCHANGED vars
    <3>1. UNCHANGED tick
      BY <2>2 DEF SessionStep, StartAttempt, Install, FailAttempt, Drop, HalfOpen, VoiceStep,
                  VoiceConnects, VoiceMeasures, VoiceDrops, SetControlState, SetVoiceState,
                  Deliver, tickVars, vars
    <3> QED  BY <3>1
  <2>3. CASE \/ StartTick \/ Ping \/ PingReturns \/ ReadVoiceRTT \/ DropProbe \/ OnLoss
             \/ LossPublished
    BY <2>3 DEF StartTick, Ping, PingReturns, ReadVoiceRTT, DropProbe, OnLoss, LossPublished
  <2> QED  BY <2>1, <2>2, <2>3 DEF Next, TickStep
<1> QED  BY <1>1, Invariance, PTL DEF Spec, LossDeclaredOnce
=============================================================================

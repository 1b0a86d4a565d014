------------------------- MODULE VoiceSessionProofs -------------------------
(***************************************************************************)
(* What a voice session reports of itself is true, for any length of the   *)
(* ladder, any number of sockets, losses and restarts of the server: it is *)
(* connected only over a socket the server has acknowledged, an observer   *)
(* that has seen every transition knows the state, once goodbye is said    *)
(* there is no socket any more and no datagram follows, and the round trip *)
(* it shows is one that was measured.  And of the microphone: a sample is  *)
(* sent whole, in order and in the frames the gate is open for, in packets *)
(* of one transmission; of what a talker sends nothing waits behind the    *)
(* playout.                                                                *)
(***************************************************************************)
EXTENDS MCVoice, SequenceTheorems, FiniteSetTheorems, TLAPS

\* "closed" is published last: the flag that stops setState is set with it.
QueueInv == (cbFinal <=> state = "closed") /\ ObserverCatchesUp

\* Close marks the session with the BYE, and a closed one has no socket.
ClosedInv == (closed <=> closer # "idle") /\ NoSocketAfterClose

\* An acknowledgement on its way, queued or answered by the state is of a
\* socket whose HELLO the server has seen.
Acknowledged(m) == m.type = "ack" => m.gen \in acked
AckInv ==
  /\ \A m \in toClient : Acknowledged(m)
  /\ \A i \in 1..Len(events) : Acknowledged(events[i])
  /\ ConnectedIsAcknowledged

\* A keepalive is sent only while the silence is below the threshold.
SilenceInv == lifecycle = "keepalive" => unanswered < LossThreshold

IInv == TypeOK /\ QueueInv /\ ClosedInv /\ AckInv /\ SilenceInv

\* The groups of variables one part of the invariant is about.
queueVars == <<state, cbQueue, cbFinal, seen>>
ackVars   == <<state, gen, events, toClient, acked>>

----------------------------------------------------------------------------
(* Dial has made its first transition and has no socket yet (Dial).        *)
LEMMA InitInv == Init => IInv
<1> SUFFICES ASSUME Init PROVE IInv
  OBVIOUS
<1> USE VoiceAssumption DEF VoiceAssumption
<1>1. TypeOK
  <2>1. cbQueue \in Seq(States) /\ events \in Seq(Replies)
    BY DEF Init, States
  <2>2. cbFinal \in BOOLEAN /\ closed \in BOOLEAN /\ done \in BOOLEAN /\ rebinding \in BOOLEAN
    BY DEF Init
  <2>3. Len(events) <= EventMax
    BY DEF Init
  <2>4. /\ conn \in {None, gen} /\ gen \in 0..MaxGen /\ attempt \in 0..Attempts
        /\ unanswered \in 0..LossThreshold /\ faults \in 0..MaxFaults
        /\ bound \in {None} \cup Gens
    BY DEF Init, None
  <2>5. rxLoops \subseteq 1..gen /\ toServer \subseteq Requests /\ toClient \subseteq Replies
        /\ acked \subseteq Gens
    BY DEF Init
  <2> QED  BY <2>1, <2>2, <2>3, <2>4, <2>5 DEF Init, TypeOK, States
<1>2. QueueInv
  BY DEF Init, QueueInv, ObserverCatchesUp, Last
<1>3. ClosedInv /\ AckInv /\ SilenceInv
  BY DEF Init, ClosedInv, NoSocketAfterClose, AckInv, ConnectedIsAcknowledged, SilenceInv
<1> QED  BY <1>1, <1>2, <1>3 DEF IInv

\* setState for one transition after the other: the queue ends in the new
\* state, unless the session is closed, when nothing changes (setState).
LEMMA SetStatesKeeps ==
  ASSUME TypeOK, QueueInv, NEW sts \in Seq(States), sts # <<>>, SetStates(sts)
  PROVE  /\ state' \in States /\ cbQueue' \in Seq(States) /\ cbFinal' \in BOOLEAN
         /\ cbFinal' <=> state' = "closed"
         /\ seen' = seen => ObserverCatchesUp'
         /\ state' = state \/ state' = Last(sts)
<1>1. CASE cbFinal
  BY <1>1 DEF SetStates, stateVars, TypeOK, QueueInv, ObserverCatchesUp, Last
<1>2. CASE ~cbFinal
  <2>1. state' = Last(sts) /\ cbQueue' = cbQueue \o sts /\ cbFinal' = (Last(sts) = "closed")
    BY <1>2 DEF SetStates
  <2>2. Len(sts) \in Nat \ {0} /\ Last(sts) \in States
    BY EmptySeq, LenProperties DEF Last
  <2>3. /\ cbQueue' \in Seq(States) /\ cbQueue' # <<>>
        /\ cbQueue'[Len(cbQueue')] = Last(sts)
    BY <2>1, <2>2 DEF TypeOK, Last
  <2>4. ObserverCatchesUp'
    BY <2>1, <2>3 DEF ObserverCatchesUp, Last
  <2> QED  BY <2>1, <2>2, <2>3, <2>4
<1> QED  BY <1>1, <1>2

\* The parts of the invariant a step leaves alone that leaves their variables.
LEMMA Frames ==
  ASSUME IInv
  PROVE  /\ UNCHANGED queueVars => QueueInv'
         /\ UNCHANGED closeVars /\ UNCHANGED conn => ClosedInv'
         /\ UNCHANGED <<stateVars, gen, events, toClient, acked>> => AckInv'
         /\ UNCHANGED <<lifecycle, unanswered>> => SilenceInv'
<1> USE DEF IInv
<1>1. UNCHANGED queueVars => QueueInv'
  BY DEF QueueInv, ObserverCatchesUp, queueVars, Last
<1>2. UNCHANGED closeVars /\ UNCHANGED conn => ClosedInv'
  BY DEF ClosedInv, NoSocketAfterClose, closeVars
<1>3. UNCHANGED <<stateVars, gen, events, toClient, acked>> => AckInv'
  BY DEF AckInv, ConnectedIsAcknowledged, Acknowledged, stateVars
<1>4. UNCHANGED <<lifecycle, unanswered>> => SilenceInv'
  BY DEF SilenceInv
<1> QED  BY <1>1, <1>2, <1>3, <1>4

\* A datagram goes out on the present socket, or not at all (send).
LEMMA SendType ==
  ASSUME TypeOK, NEW type \in {"hello", "keepalive", "bye"}, Send(type)
  PROVE  toServer' \subseteq Requests /\ (closed => toServer' = toServer)
<1>1. conn # None => conn \in Gens
  BY VoiceAssumption DEF TypeOK, VoiceAssumption, Gens, None
<1> QED  BY <1>1 DEF Send, TypeOK, Requests

\* One datagram is taken off the queue (wait).
LEMMA TakeEvent ==
  ASSUME TypeOK, AckInv, events # <<>>, events' = Tail(events)
  PROVE  /\ events' \in Seq(Replies) /\ Len(events') <= EventMax
         /\ Head(events) \in Replies /\ Acknowledged(Head(events))
         /\ \A i \in 1..Len(events') : Acknowledged(events'[i])
<1>1. events \in Seq(Replies) /\ Len(events) <= EventMax
  BY DEF TypeOK
<1>2. /\ Head(events) = events[1] /\ Tail(events) \in Seq(Replies) /\ Len(events) \in Nat \ {0}
      /\ Len(Tail(events)) = Len(events) - 1
      /\ \A i \in 1..Len(Tail(events)) : Tail(events)[i] = events[i + 1]
  BY <1>1, HeadTailProperties, EmptySeq, LenProperties
<1>3. Head(events) \in Replies
  BY <1>1, <1>2, ElementOfSeq
<1>4. \A i \in 1..Len(events) : Acknowledged(events[i])
  BY DEF AckInv
<1> QED  BY <1>1, <1>2, <1>3, <1>4, VoiceAssumption DEF VoiceAssumption

\* A step that changes neither the state nor the socket nor what is
\* acknowledged, and adds no datagram, keeps what is acknowledged.
LEMMA AckKept ==
  ASSUME AckInv, acked \subseteq acked', toClient' \subseteq toClient,
         \A i \in 1..Len(events') : Acknowledged(events'[i]),
         state' = "connected" => gen' \in acked'
  PROVE  AckInv'
BY DEF AckInv, Acknowledged, ConnectedIsAcknowledged

----------------------------------------------------------------------------
(* The lifecycle.                                                          *)

\* A datagram is sent: the HELLO of a rung or a keepalive (runLadder, serve).
LEMMA SendsKeep == ASSUME IInv, SendHello \/ SendKeepalive PROVE IInv'
<1> USE VoiceAssumption DEF VoiceAssumption, IInv
<1>1. UNCHANGED <<queueVars, closeVars, socketVars, events, toClient, acked, rebinding, attempt,
                  deliverer, rxLoops, bound, faults>>
  BY DEF SendHello, SendKeepalive, queueVars, stateVars, closeVars, socketVars
<1>2. toServer' \subseteq Requests
  BY SendType DEF SendHello, SendKeepalive
<1>3. unanswered' \in 0..LossThreshold /\ lifecycle' \in {"ladder", "serve"}
  BY DEF SendHello, SendKeepalive, SilenceInv, TypeOK
<1>4. TypeOK'
  BY <1>1, <1>2, <1>3 DEF TypeOK, queueVars, stateVars, closeVars, socketVars
<1>5. QueueInv' /\ ClosedInv' /\ AckInv'
  BY <1>1, Frames DEF queueVars, stateVars, socketVars
<1> QED  BY <1>3, <1>4, <1>5 DEF SilenceInv

\* The queue of transitions and the invariant of it after setState.
LEMMA LifecycleSets ==
  ASSUME IInv, NEW sts \in Seq(States), sts # <<>>, SetStates(sts),
         UNCHANGED <<seen, deliverer, socketVars, closeVars, rxLoops, netVars>>,
         faults' \in 0..MaxFaults, events' \in Seq(Replies), Len(events') <= EventMax,
         \A i \in 1..Len(events') : Acknowledged(events'[i]),
         Last(sts) = "connected" => gen \in acked,
         lifecycle' \in {"hello", "keepalive", "pause", "resolve", "exited"},
         rebinding' \in BOOLEAN, attempt' \in 0..Attempts, unanswered' \in 0..LossThreshold,
         SilenceInv'
  PROVE  IInv'
<1> USE DEF IInv
<1>1. /\ state' \in States /\ cbQueue' \in Seq(States) /\ cbFinal' \in BOOLEAN /\ QueueInv'
      /\ state' = state \/ state' = Last(sts)
  BY SetStatesKeeps DEF QueueInv
<1>2. TypeOK'
  BY <1>1 DEF TypeOK, socketVars, closeVars, netVars
<1>3. ClosedInv'
  BY Frames DEF socketVars
<1>4. AckInv'
  BY <1>1, AckKept DEF AckInv, ConnectedIsAcknowledged, netVars, socketVars
<1> QED  BY <1>1, <1>2, <1>3, <1>4

\* An acknowledgement of the present socket makes the session connected; any
\* other event is dropped (runLadder, serve, lifecycleLoop).
LEMMA EventsKeep ==
  ASSUME IInv, LadderEvent \/ ServeEvent \/ PauseEvent PROVE IInv'
<1> USE VoiceAssumption DEF VoiceAssumption, IInv
<1>1. /\ events' \in Seq(Replies) /\ Len(events') <= EventMax
      /\ Head(events) \in Replies /\ Acknowledged(Head(events))
      /\ \A i \in 1..Len(events') : Acknowledged(events'[i])
  BY TakeEvent DEF LadderEvent, ServeEvent, PauseEvent
<1>2. CASE LadderEvent /\ OfThisSocket(Head(events)) /\ Head(events).type = "ack"
  <2>1. gen \in acked
    BY <1>1, <1>2 DEF OfThisSocket, Acknowledged
  <2>2. /\ SetStates(<<"connected">>) /\ rebinding' = FALSE /\ unanswered' = 0
        /\ lifecycle' = "keepalive" /\ attempt' = attempt
        /\ UNCHANGED <<seen, deliverer, socketVars, closeVars, rxLoops, netVars>>
        /\ faults' \in 0..MaxFaults
    BY <1>2 DEF LadderEvent, TypeOK
  <2>3. <<"connected">> \in Seq(States) /\ <<"connected">> # <<>>
    BY DEF States
  <2>4. SilenceInv' /\ attempt' \in 0..Attempts /\ unanswered' \in 0..LossThreshold
    BY <2>2 DEF SilenceInv, TypeOK
  <2> QED  BY <1>1, <2>1, <2>2, <2>3, <2>4, LifecycleSets
<1>3. CASE ~(LadderEvent /\ OfThisSocket(Head(events)) /\ Head(events).type = "ack")
  <2>1. /\ UNCHANGED <<stateVars, seen, deliverer, socketVars, closeVars, lifecycle, rebinding,
                       attempt, rxLoops, netVars, faults>>
        /\ unanswered' \in {0, unanswered}
    BY <1>3 DEF LadderEvent, ServeEvent, PauseEvent, loopVars
  <2>2. TypeOK'
    BY <1>1, <2>1 DEF TypeOK, stateVars, socketVars, closeVars, netVars
  <2>3. QueueInv' /\ ClosedInv'
    BY <2>1, Frames DEF queueVars, stateVars, socketVars
  <2>4. AckInv'
    BY <1>1, <2>1, AckKept DEF stateVars, socketVars, netVars, AckInv, ConnectedIsAcknowledged
  <2>5. SilenceInv'
    BY <2>1 DEF SilenceInv, TypeOK
  <2> QED  BY <2>2, <2>3, <2>4, <2>5
<1> QED  BY <1>2, <1>3

\* What a ladder that starts over makes known ends in handshaking (runLadder).
LEMMA LadderSets ==
  ASSUME NEW sts \in Seq(States)
  PROVE  /\ sts \o <<"handshaking">> \in Seq(States) /\ sts \o <<"handshaking">> # <<>>
         /\ Last(sts \o <<"handshaking">>) = "handshaking"
<1>1. <<"handshaking">> \in Seq(States)
  BY DEF States
<1>2. Len(sts \o <<"handshaking">>) = Len(sts) + 1 /\ Len(sts) \in Nat
  BY LenProperties
<1> QED  BY <1>1, <1>2 DEF Last

\* The invariant over a step that publishes nothing and goes on elsewhere.
LEMMA LifecycleMoves ==
  ASSUME IInv,
         UNCHANGED <<stateVars, seen, deliverer, socketVars, closeVars, events, rxLoops, netVars,
                     faults, rebinding, unanswered>>,
         attempt' \in 0..Attempts, lifecycle' \in {"hello", "keepalive", "exited"},
         lifecycle' = "keepalive" => unanswered < LossThreshold
  PROVE  IInv'
<1> USE DEF IInv
<1>1. TypeOK'
  BY DEF TypeOK, stateVars, socketVars, closeVars, netVars
<1>2. QueueInv' /\ ClosedInv' /\ AckInv'
  BY Frames DEF queueVars, stateVars, socketVars, netVars
<1> QED  BY <1>1, <1>2 DEF SilenceInv

\* A rung, a keepalive period or the pause before the next try is over, or the
\* name was not resolved or the socket not opened (runLadder, serve, openSocket).
LEMMA TimeOutsKeep ==
  ASSUME IInv, LadderTimeOut \/ ServeTimeOut \/ PauseEnds \/ OpenFails PROVE IInv'
<1> USE VoiceAssumption DEF VoiceAssumption
<1> DEFINE Same == UNCHANGED <<seen, deliverer, socketVars, closeVars, events, rxLoops, netVars>>
<1>1. /\ events \in Seq(Replies) /\ Len(events) <= EventMax /\ faults \in 0..MaxFaults
      /\ rebinding \in BOOLEAN /\ attempt \in 0..Attempts /\ unanswered \in 0..LossThreshold
      /\ \A i \in 1..Len(events) : Acknowledged(events[i])
      /\ \A e \in {"rebinding", "resolving", "retrying", "closed"} : <<e>> \in Seq(States)
  BY DEF IInv, TypeOK, AckInv, States
<1>2. \A e : <<e>> # <<>> /\ Last(<<e>>) = e
  BY DEF Last
<1>3. CASE LadderTimeOut
  <2>1. CASE attempt < Attempts
    BY <1>1, <1>3, <2>1, LifecycleMoves DEF LadderTimeOut
  <2>2. CASE ~(attempt < Attempts)
    <3>1. PICK e \in {"resolving", "retrying"} :
             /\ SetStates(<<e>>) /\ lifecycle' \in {"resolve", "pause"}
             /\ attempt' = attempt /\ rebinding' = FALSE /\ unanswered' = unanswered
             /\ faults' = faults /\ Same
      BY <1>3, <2>2 DEF LadderTimeOut
    <3>2. SilenceInv'
      BY <3>1 DEF SilenceInv
    <3>3. faults' \in 0..MaxFaults /\ rebinding' \in BOOLEAN /\ events' = events
      BY <1>1, <3>1
    <3> QED  BY <1>1, <1>2, <3>1, <3>2, <3>3, LifecycleSets
  <2> QED  BY <2>1, <2>2
<1>4. CASE ServeTimeOut
  <2>1. CASE unanswered >= LossThreshold
    <3>1. /\ SetStates(<<"rebinding">> \o <<"handshaking">>) /\ lifecycle' = "hello"
          /\ attempt' = 1 /\ rebinding' = TRUE /\ unanswered' = 0 /\ faults' = faults /\ Same
      BY <1>4, <2>1 DEF ServeTimeOut, Ladder
    <3>2. SilenceInv'
      BY <3>1 DEF SilenceInv
    <3>3. faults' \in 0..MaxFaults /\ rebinding' \in BOOLEAN /\ events' = events
      BY <1>1, <3>1
    <3>4. attempt' \in 0..Attempts /\ unanswered' \in 0..LossThreshold
      BY <3>1
    <3> QED  BY <1>1, <3>1, <3>2, <3>3, <3>4, LadderSets, LifecycleSets
  <2>2. CASE ~(unanswered >= LossThreshold)
    <3>1. unanswered < LossThreshold
      BY <1>1, <2>2
    <3> QED  BY <1>1, <1>4, <2>2, <3>1, LifecycleMoves DEF ServeTimeOut
  <2> QED  BY <2>1, <2>2
<1>5. CASE PauseEnds \/ OpenFails
  <2>1. PICK e \in {"resolving", "closed", "retrying"} :
           /\ SetStates(<<e>>) /\ lifecycle' \in {"resolve", "pause", "exited"}
           /\ attempt' = attempt /\ rebinding' = rebinding /\ unanswered' = unanswered /\ Same
    BY <1>5 DEF PauseEnds, OpenFails
  <2>2. faults' \in 0..MaxFaults
    BY <1>1, <1>5 DEF PauseEnds, OpenFails, Fault
  <2>3. SilenceInv' /\ events' = events
    BY <2>1 DEF SilenceInv
  <2> QED  BY <1>1, <1>2, <2>1, <2>2, <2>3, LifecycleSets
<1> QED  BY <1>3, <1>4, <1>5

\* A new socket takes the place of the old one and a ladder starts on it: the
\* session is not connected over it (openSocket).
LEMMA OpenKeeps == ASSUME IInv, Open PROVE IInv'
<1> USE VoiceAssumption DEF VoiceAssumption, IInv
<1>1. /\ gen' = gen + 1 /\ conn' = gen' /\ rxLoops' = rxLoops \cup {gen'} /\ ~closed /\ gen < MaxGen
      /\ SetStates(<<>> \o <<"handshaking">>) /\ lifecycle' = "hello" /\ attempt' = 1
      /\ UNCHANGED <<seen, deliverer, closeVars, events, rebinding, unanswered, netVars, faults>>
  BY DEF Open, Ladder
<1>2. /\ <<>> \o <<"handshaking">> \in Seq(States) /\ <<>> \o <<"handshaking">> # <<>>
      /\ Last(<<>> \o <<"handshaking">>) = "handshaking"
  <2>1. <<>> \in Seq(States)
    OBVIOUS
  <2> QED  BY <2>1, LadderSets
<1>3. /\ state' \in States /\ cbQueue' \in Seq(States) /\ cbFinal' \in BOOLEAN /\ QueueInv'
      /\ state' = "connected" => state = "connected" /\ cbFinal
  <2>1. /\ state' \in States /\ cbQueue' \in Seq(States) /\ cbFinal' \in BOOLEAN /\ QueueInv'
    BY <1>1, <1>2, SetStatesKeeps DEF QueueInv
  <2>2. cbFinal => state' = state
    BY <1>1 DEF SetStates, stateVars
  <2>3. ~cbFinal => state' = "handshaking"
    BY <1>1, <1>2 DEF SetStates
  <2> QED  BY <2>1, <2>2, <2>3
<1>4. gen' \in 0..MaxGen /\ rxLoops' \subseteq 1..gen' /\ attempt' \in 0..Attempts
  BY <1>1 DEF TypeOK
<1>5. TypeOK'
  BY <1>1, <1>3, <1>4 DEF TypeOK, closeVars, netVars
<1>6. ClosedInv'
  BY <1>1 DEF ClosedInv, NoSocketAfterClose, closeVars
<1>7. state' # "connected"
  BY <1>3 DEF QueueInv
<1>8. AckInv'
  BY <1>1, <1>7, AckKept DEF netVars, AckInv
<1> QED  BY <1>1, <1>3, <1>5, <1>6, <1>8 DEF SilenceInv

\* The lifecycle ends when the session is closed (lifecycleLoop).
LEMMA ExitKeeps == ASSUME IInv, Exit PROVE IInv'
<1>1. attempt' = attempt /\ attempt \in 0..Attempts
  BY DEF IInv, TypeOK, Exit
<1> QED  BY <1>1, LifecycleMoves DEF Exit

----------------------------------------------------------------------------
(* Reading, Close, the callbacks, the server and the network.              *)

\* What a step leaves alone that only moves datagrams and goroutines.
LEMMA QuietKeeps ==
  ASSUME IInv,
         UNCHANGED <<stateVars, seen, socketVars, closed, conn, events, loopVars>>,
         closer' \in {"idle", "bye", "join", "returned"}, closer' = "idle" <=> closer = "idle",
         deliverer' \in {"idle", "callback", "closing", "exited"}, done' \in BOOLEAN,
         rxLoops' \subseteq rxLoops, toServer' \subseteq toServer,
         toClient' \subseteq Replies, \A m \in toClient' : m.type = "ack" => m.gen \in acked',
         bound' \in {None} \cup Gens, acked \subseteq acked', acked' \subseteq Gens,
         faults' \in 0..MaxFaults
  PROVE  IInv'
<1> USE DEF IInv
<1>1. TypeOK'
  BY DEF TypeOK, stateVars, socketVars, loopVars
<1>2. QueueInv' /\ SilenceInv'
  BY Frames DEF queueVars, stateVars, loopVars
<1>3. ClosedInv'
  BY DEF ClosedInv, NoSocketAfterClose
<1>4. AckInv'
  BY DEF AckInv, Acknowledged, ConnectedIsAcknowledged, stateVars, socketVars
<1> QED  BY <1>1, <1>2, <1>3, <1>4

\* A reader takes a datagram to the queue, which keeps what it has and is full
\* at its bound (rxLoop), or ends.
LEMMA ReadsKeep == ASSUME IInv, ReadStep PROVE IInv'
<1> USE VoiceAssumption DEF VoiceAssumption
<1>1. ASSUME NEW m \in toClient, Read(m) PROVE IInv'
  <2>1. /\ events' = IF Len(events) < EventMax THEN Append(events, m) ELSE events
        /\ toClient' \subseteq toClient
        /\ UNCHANGED <<stateVars, seen, deliverer, socketVars, closeVars, loopVars, rxLoops, toServer,
                       bound, acked, faults>>
    BY <1>1 DEF Read
  <2>2. m \in Replies /\ Acknowledged(m) /\ events \in Seq(Replies) /\ Len(events) <= EventMax
        /\ \A i \in 1..Len(events) : Acknowledged(events[i])
    BY <1>1 DEF IInv, TypeOK, AckInv
  <2>3. /\ events' \in Seq(Replies) /\ Len(events') <= EventMax
        /\ \A i \in 1..Len(events') : Acknowledged(events'[i])
    <3>1. CASE Len(events) < EventMax
      <4>1. events' = Append(events, m)
        BY <2>1, <3>1
      <4>2. /\ events' \in Seq(Replies) /\ Len(events') = Len(events) + 1
            /\ events'[Len(events) + 1] = m
            /\ \A i \in 1..Len(events) : events'[i] = events[i]
        BY <2>2, <4>1, AppendProperties
      <4>3. Len(events) \in Nat
        BY <2>2, LenProperties
      <4>4. \A i \in 1..Len(events') : i \in 1..Len(events) \/ i = Len(events) + 1
        BY <4>2, <4>3
      <4>5. Len(events') <= EventMax
        BY <3>1, <4>2, <4>3
      <4> QED  BY <2>2, <4>2, <4>4, <4>5
    <3> QED  BY <2>1, <2>2, <3>1
  <2>4. TypeOK'
    BY <2>1, <2>3 DEF IInv, TypeOK, stateVars, socketVars, closeVars, loopVars
  <2>5. QueueInv' /\ ClosedInv' /\ SilenceInv'
    BY <2>1, Frames DEF queueVars, stateVars, socketVars, loopVars
  <2>6. AckInv'
    BY <2>1, <2>3, AckKept DEF IInv, AckInv, ConnectedIsAcknowledged, stateVars, socketVars
  <2> QED  BY <2>4, <2>5, <2>6 DEF IInv
<1>2. ASSUME NEW g \in rxLoops, EndRead(g) PROVE IInv'
  <2>1. rxLoops' \subseteq rxLoops /\ UNCHANGED <<stateVars, seen, deliverer, socketVars, closeVars,
                                                events, loopVars, netVars, faults>>
    BY <1>2 DEF EndRead
  <2> QED  BY <2>1, QuietKeeps DEF IInv, TypeOK, AckInv, Acknowledged, closeVars, socketVars, netVars
<1>3. ASSUME NEW g \in rxLoops, ReadFails(g) PROVE IInv'
  <2>1. rxLoops' \subseteq rxLoops /\ faults' \in 0..MaxFaults
        /\ UNCHANGED <<stateVars, seen, deliverer, socketVars, closeVars, events, loopVars, netVars>>
    BY <1>3, VoiceAssumption DEF ReadFails, Fault, IInv, TypeOK
  <2> QED  BY <2>1, QuietKeeps DEF IInv, TypeOK, AckInv, Acknowledged, closeVars, socketVars, netVars
<1> QED  BY <1>1, <1>2, <1>3 DEF ReadStep

\* The goodbye closes the session and takes its socket in one step (Close).
LEMMA ByeKeeps ==
  ASSUME IInv, Bye, deliverer' \in {"idle", "callback", "closing", "exited"},
         UNCHANGED <<stateVars, seen, gen, done, events, loopVars, rxLoops, toClient, bound, acked,
                     faults>>
  PROVE  IInv'
<1> USE DEF IInv
<1>1. closed' = TRUE /\ conn' = None /\ closer' = "bye" /\ Send("bye")
  BY DEF Bye
<1>2. toServer' \subseteq Requests
  BY <1>1, SendType
<1>3. TypeOK'
  BY <1>1, <1>2 DEF TypeOK, stateVars, loopVars
<1>4. QueueInv' /\ AckInv' /\ SilenceInv'
  BY Frames DEF queueVars, stateVars, loopVars
<1>5. ClosedInv'
  BY <1>1 DEF ClosedInv, NoSocketAfterClose
<1> QED  BY <1>3, <1>4, <1>5

\* The rest of Close: the socket, the joins and the last transition (Close).
LEMMA ClosesKeep == ASSUME IInv, CloseStep PROVE IInv'
<1>1. CASE CloseSocket
  <2>1. /\ done' = TRUE /\ closer = "bye" /\ closer' = "join"
        /\ UNCHANGED <<stateVars, seen, deliverer, socketVars, closed, events, loopVars, rxLoops,
                       netVars, faults>>
    BY <1>1 DEF CloseSocket
  <2> QED  BY <2>1, QuietKeeps DEF IInv, TypeOK, AckInv, Acknowledged, socketVars, netVars
<1>2. CASE Join
  <2> USE DEF IInv
  <2>1. /\ SetStates(<<"closed">>) /\ closer = "join" /\ closer' = "returned"
        /\ UNCHANGED <<seen, deliverer, socketVars, closed, done, events, loopVars, rxLoops, netVars,
                       faults>>
    BY <1>2 DEF Join
  <2>2. <<"closed">> \in Seq(States) /\ <<"closed">> # <<>> /\ Last(<<"closed">>) = "closed"
    BY DEF States, Last
  <2>3. /\ state' \in States /\ cbQueue' \in Seq(States) /\ cbFinal' \in BOOLEAN /\ QueueInv'
        /\ state' = state \/ state' = "closed"
    BY <2>1, <2>2, SetStatesKeeps DEF QueueInv
  <2>4. TypeOK'
    BY <2>1, <2>3 DEF TypeOK, socketVars, loopVars, netVars
  <2>5. ClosedInv'
    BY <2>1 DEF ClosedInv, NoSocketAfterClose, socketVars
  <2>6. AckInv'
    BY <2>1, <2>3 DEF AckInv, Acknowledged, ConnectedIsAcknowledged, netVars, socketVars
  <2>7. SilenceInv'
    BY <2>1, Frames DEF loopVars
  <2> QED  BY <2>3, <2>4, <2>5, <2>6, <2>7
<1> QED  BY <1>1, <1>2 DEF CloseStep

\* The oldest transition is handed over; the rest of the queue still ends in
\* the present state, and an observer with none left has seen it (deliverLoop).
LEMMA DeliversKeep == ASSUME IInv, DeliverStep PROVE IInv'
<1>1. CASE Deliver
  <2> USE DEF IInv
  <2>1. /\ cbQueue # <<>> /\ seen' = Head(cbQueue) /\ cbQueue' = Tail(cbQueue) /\ deliverer' = "callback"
        /\ UNCHANGED <<state, cbFinal, socketVars, closeVars, events, loopVars, rxLoops, netVars,
                       faults>>
    BY <1>1 DEF Deliver
  <2>2. cbQueue \in Seq(States) /\ cbQueue[Len(cbQueue)] = state
    BY <2>1 DEF TypeOK, QueueInv, ObserverCatchesUp, Last
  <2>3. /\ seen' = cbQueue[1] /\ cbQueue' \in Seq(States) /\ Len(cbQueue) \in Nat \ {0}
        /\ Len(cbQueue') = Len(cbQueue) - 1
        /\ \A i \in 1..Len(cbQueue') : cbQueue'[i] = cbQueue[i + 1]
    BY <2>1, <2>2, HeadTailProperties, EmptySeq, LenProperties
  <2>4. seen' \in States
    BY <2>2, <2>3, ElementOfSeq
  <2>5. QueueInv'
    <3>1. CASE Len(cbQueue) = 1
      <4>1. cbQueue' = <<>> /\ seen' = state'
        BY <2>1, <2>2, <2>3, <3>1, EmptySeq
      <4> QED  BY <2>1, <4>1 DEF QueueInv, ObserverCatchesUp
    <3>2. CASE Len(cbQueue) # 1
      <4>1. Len(cbQueue') \in 1..Len(cbQueue') /\ Len(cbQueue') + 1 = Len(cbQueue)
        BY <2>3, <3>2
      <4>2. cbQueue'[Len(cbQueue')] = cbQueue[Len(cbQueue') + 1]
        BY <2>3, <4>1
      <4>3. cbQueue' # <<>>
        BY <2>3, <3>2, EmptySeq
      <4> QED  BY <2>1, <2>2, <4>1, <4>2, <4>3 DEF QueueInv, ObserverCatchesUp, Last
    <3> QED  BY <3>1, <3>2
  <2>6. TypeOK'
    BY <2>1, <2>3, <2>4 DEF TypeOK, socketVars, closeVars, loopVars, netVars
  <2>7. ClosedInv' /\ SilenceInv'
    BY <2>1, Frames DEF socketVars, loopVars
  <2>8. AckInv'
    BY <2>1 DEF AckInv, Acknowledged, ConnectedIsAcknowledged, socketVars, netVars
  <2> QED  BY <2>5, <2>6, <2>7, <2>8
<1>2. CASE Delivered
  <2>1. /\ deliverer' \in {"idle", "exited"}
        /\ UNCHANGED <<stateVars, seen, socketVars, closeVars, events, loopVars, rxLoops, netVars,
                       faults>>
    BY <1>2 DEF Delivered
  <2> QED  BY <2>1, QuietKeeps DEF IInv, TypeOK, AckInv, Acknowledged, socketVars, closeVars, netVars
<1> QED  BY <1>1, <1>2 DEF DeliverStep

\* What the server answers is of a HELLO it has seen; what the network loses
\* or a closed socket refuses is gone (the voice server).
LEMMA NetKeeps == ASSUME IInv, NetStep PROVE IInv'
<1> USE VoiceAssumption DEF VoiceAssumption
<1> DEFINE Same == UNCHANGED <<stateVars, seen, deliverer, socketVars, closeVars, events, loopVars,
                               rxLoops>>
<1>1. /\ toServer \subseteq Requests /\ toClient \subseteq Replies /\ acked \subseteq Gens
      /\ bound \in {None} \cup Gens /\ faults \in 0..MaxFaults
      /\ \A m \in toClient : m.type = "ack" => m.gen \in acked
  BY DEF IInv, TypeOK, AckInv, Acknowledged
<1>2. ASSUME Same, toServer' \subseteq toServer, toClient' \subseteq Replies,
             \A m \in toClient' : m.type = "ack" => m.gen \in acked',
             bound' \in {None} \cup Gens, acked \subseteq acked', acked' \subseteq Gens,
             faults' \in 0..MaxFaults
      PROVE  IInv'
  BY <1>2, QuietKeeps DEF IInv, TypeOK, closeVars, socketVars
<1> HIDE DEF Same
<1>3. ASSUME NEW m \in toServer, Serve(m) PROVE IInv'
  <2>1. m \in Requests /\ m.gen \in Gens
    BY <1>1 DEF Requests
  <2>2. /\ toServer' \subseteq toServer /\ faults' = faults
        /\ Same
        /\ bound' \in {m.gen, None, bound}
        /\ acked' = IF m.type = "hello" THEN acked \cup {m.gen} ELSE acked
    BY <1>3 DEF Serve, Same
  <2>3. \A q \in toClient' : q \in toClient \/ (q \in Replies /\ (q.type = "ack" => q.gen = m.gen /\ m.type = "hello"))
    BY <1>3 DEF Serve
  <2> QED  BY <1>1, <1>2, <2>1, <2>2, <2>3
<1>4. ASSUME NEW m \in toServer \cup toClient, Lose(m) PROVE IInv'
  BY <1>1, <1>2, <1>4 DEF Lose, Fault, Same
<1>5. ASSUME NEW m \in toClient, Undeliverable(m) PROVE IInv'
  BY <1>1, <1>2, <1>5 DEF Undeliverable, Same
<1>6. ASSUME Unbind PROVE IInv'
  BY <1>1, <1>2, <1>6 DEF Unbind, Fault, Same
<1> QED  BY <1>3, <1>4, <1>5, <1>6 DEF NetStep

----------------------------------------------------------------------------
(* Every step keeps the invariant (all of session.go).                     *)
LEMMA NextInv == IInv /\ [Next]_vars => IInv'
<1> SUFFICES ASSUME IInv, [Next]_vars PROVE IInv'
  OBVIOUS
<1>1. CASE LifecycleStep
  BY <1>1, SendsKeep, EventsKeep, TimeOutsKeep, OpenKeeps DEF LifecycleStep
<1>2. CASE Exit
  BY <1>2, ExitKeeps
<1>3. CASE ReadStep
  BY <1>3, ReadsKeep
<1>4. CASE Close
  <2>1. deliverer' \in {"idle", "callback", "closing", "exited"}
    BY <1>4 DEF Close, IInv, TypeOK
  <2> QED  BY <1>4, <2>1, ByeKeeps DEF Close
<1>5. CASE CloseStep
  BY <1>5, ClosesKeep
<1>6. CASE DeliverStep
  BY <1>6, DeliversKeep
<1>7. CASE CallbackCloses
  <2>1. CASE Bye
    BY <1>7, <2>1, ByeKeeps DEF CallbackCloses
  <2>2. CASE ~Bye
    <3>1. /\ deliverer' = "closing" /\ UNCHANGED <<stateVars, seen, socketVars, closeVars, events,
                                              loopVars, rxLoops, netVars, faults>>
      BY <1>7, <2>2 DEF CallbackCloses, socketVars, closeVars, netVars
    <3> QED  BY <3>1, QuietKeeps DEF IInv, TypeOK, AckInv, Acknowledged, socketVars, closeVars, netVars
  <2> QED  BY <2>1, <2>2
<1>8. CASE NetStep
  BY <1>8, NetKeeps
<1>9. CASE UNCHANGED vars
  BY <1>9, QuietKeeps DEF vars, IInv, TypeOK, AckInv, Acknowledged, socketVars, closeVars, netVars
<1> QED  BY <1>1, <1>2, <1>3, <1>4, <1>5, <1>6, <1>7, <1>8, <1>9 DEF Next

\* The inductive invariant of a voice session holds in every reachable state
\* (Session of session.go).
THEOREM Invariance == Spec => []IInv
<1> QED  BY InitInv, NextInv, PTL DEF Spec

\* The session's fields, its goroutines' locals and the datagrams keep their
\* types (Session, lifecycleLoop, rxLoop).
THEOREM TypeCorrect == Spec => []TypeOK
<1>1. IInv => TypeOK
  BY DEF IInv
<1> QED  BY <1>1, Invariance, PTL

\* State and OnState tell the truth of the socket (setState, wait, openSocket).
THEOREM ReportIsTrue == Spec => []ReportedStateIsTrue
<1>1. IInv => ReportedStateIsTrue
  BY DEF IInv, QueueInv, ClosedInv, AckInv, ReportedStateIsTrue
<1> QED  BY <1>1, Invariance, PTL

\* No datagram follows the goodbye, from whichever goroutine (send, Close).
THEOREM GoodbyeIsLast == Spec => NothingAfterBye
<1>1. IInv /\ [Next]_vars => [closer # "idle" => toServer' \subseteq toServer]_vars
  <2> SUFFICES ASSUME IInv, Next, closer # "idle" PROVE toServer' \subseteq toServer
    OBVIOUS
  <2>1. closed /\ conn = None
    BY DEF IInv, ClosedInv, NoSocketAfterClose
  <2>2. ASSUME SendHello \/ SendKeepalive PROVE toServer' \subseteq toServer
    BY <2>1, <2>2 DEF SendHello, SendKeepalive, Send
  <2>3. ASSUME LifecycleStep, ~SendHello, ~SendKeepalive PROVE toServer' \subseteq toServer
    BY <2>3 DEF LifecycleStep, LadderEvent, LadderTimeOut, ServeEvent, ServeTimeOut, PauseEvent,
                PauseEnds, Open, OpenFails, netVars
  <2>4. ASSUME Exit \/ ReadStep \/ CloseStep \/ DeliverStep PROVE toServer' \subseteq toServer
    BY <2>4 DEF Exit, ReadStep, Read, EndRead, ReadFails, CloseStep, CloseSocket, Join, DeliverStep, Deliver,
                Delivered, netVars
  <2>5. ASSUME Close \/ CallbackCloses PROVE toServer' \subseteq toServer
    BY <2>5 DEF Close, CallbackCloses, Bye
  <2>6. ASSUME NetStep PROVE toServer' \subseteq toServer
    BY <2>6 DEF NetStep, Serve, Lose, Undeliverable, Unbind
  <2> QED  BY <2>2, <2>3, <2>4, <2>5, <2>6 DEF Next
<1> QED  BY <1>1, Invariance, PTL DEF Spec, NothingAfterBye

(***************************************************************************)
(* The keepalive measurements                                              *)
(***************************************************************************)

KADatagram == [id : Nat, echo : Nat]

KAMeasured == [sent : Nat, answered : Nat]

KAWaits == Len(pendingKA)
KAHead == keepaliveSent - KAWaits  \* those up to this one are not waited for

KAType ==
  /\ pendingKA \in Seq(Nat) /\ up \in Seq(KADatagram) /\ down \in Seq(Nat)
  /\ keepaliveSent \in Nat /\ socketSince \in Nat /\ bindingSince \in Nat /\ lastServerTS \in Nat
  /\ socketSince <= bindingSince /\ bindingSince <= keepaliveSent
  /\ rtt \in KAMeasured
  /\ lost \in BOOLEAN /\ madeRoom \in BOOLEAN

\* Datagrams keep their order.
KAOrder ==
  /\ \A i \in 1 .. Len(up) : up[i].id <= keepaliveSent
  /\ \A i \in 1 .. Len(down) : down[i] <= keepaliveSent
  /\ \A i, j \in 1 .. Len(up) : i < j => up[i].id < up[j].id
  /\ \A i, j \in 1 .. Len(down) : i < j => down[i] < down[j]
  /\ \A i \in 1 .. Len(down) : \A j \in 1 .. Len(up) : down[i] < up[j].id

\* With no loss, what is on its way are the last keepalives, all of them.
KANoGaps ==
  ~lost =>
    /\ Len(up) + Len(down) <= keepaliveSent
    /\ \A i \in 1 .. Len(up) : up[i].id = keepaliveSent - Len(up) + i
    /\ \A i \in 1 .. Len(down) : down[i] = keepaliveSent - Len(up) - Len(down) + i

\* While the binding is the socket's and none has made room, the last
\* keepalives are waited for, and no reply is on its way to an earlier one.
KAWaiting ==
  ~madeRoom /\ bindingSince = socketSince =>
    /\ KAHead >= socketSince
    /\ \A i \in 1 .. KAWaits : pendingKA[i] = KAHead + i
    /\ \A i \in 1 .. Len(up) : up[i].id > socketSince => up[i].id > KAHead
    /\ \A i \in 1 .. Len(down) : down[i] > socketSince => down[i] > KAHead
    /\ ~lost => KAHead = socketSince \/ KAHead = keepaliveSent - Len(up) - Len(down)
    /\ ~lost => KAHead >= keepaliveSent - Len(up) - Len(down)

KAInv == KAType /\ KAOrder /\ KANoGaps /\ KAWaiting /\ Keepalive!RoundTripIsTrue

\* A session that has measured nothing keeps the invariant.
LEMMA KAInitial == Keepalive!Init => KAInv
<1> SUFFICES ASSUME Keepalive!Init PROVE KAInv
  OBVIOUS
<1>0. keepaliveSent = 0 /\ socketSince = 0 /\ bindingSince = 0 /\ lastServerTS = 0
  BY DEF Keepalive!Init
<1>0a. lost = FALSE /\ madeRoom = FALSE
  BY DEF Keepalive!Init
<1>1. /\ up = << >> /\ down = << >> /\ pendingKA = << >> /\ rtt = [sent |-> 0, answered |-> 0]
  BY DEF Keepalive!Init, Keepalive!Unmeasured
<1>2. Len(pendingKA) = 0 /\ Len(up) = 0 /\ Len(down) = 0
  BY <1>1, EmptySeq
<1>3. /\ pendingKA \in Seq(Nat) /\ up \in Seq(KADatagram) /\ down \in Seq(Nat)
      /\ rtt \in KAMeasured
  BY <1>1, EmptySeq DEF KAMeasured
<1>4. KAHead = 0 /\ KAWaits = 0
  BY <1>0, <1>2 DEF KAHead, KAWaits
<1>5. KAType
  <2>1. /\ keepaliveSent \in Nat /\ socketSince \in Nat /\ bindingSince \in Nat /\ lastServerTS \in Nat
        /\ socketSince <= bindingSince /\ bindingSince <= keepaliveSent
    BY <1>0
  <2> QED BY <1>0a, <1>3, <2>1 DEF KAType
<1>6. \A i \in 1 .. 0 : FALSE
  OBVIOUS
<1>7. KAOrder
  BY <1>2, <1>6 DEF KAOrder
<1>8. KANoGaps
  BY <1>0, <1>2, <1>6 DEF KANoGaps
<1>9. KAWaiting
  BY <1>0, <1>2, <1>4, <1>6 DEF KAWaiting
<1>10. Keepalive!RoundTripIsTrue
  BY <1>1 DEF Keepalive!RoundTripIsTrue, Keepalive!ExactWithoutLoss, Keepalive!NeverTooShort
<1> QED BY <1>5, <1>7, <1>8, <1>9, <1>10 DEF KAInv

\* What is on its way and what is waited for are numbers of keepalives.
LEMMA KALengths ==
  ASSUME KAType
  PROVE  /\ Len(pendingKA) \in Nat /\ Len(up) \in Nat /\ Len(down) \in Nat
         /\ \A i \in 1 .. Len(up) : up[i] \in KADatagram /\ up[i].id \in Nat
         /\ \A i \in 1 .. Len(down) : down[i] \in Nat
         /\ \A i \in 1 .. Len(pendingKA) : pendingKA[i] \in Nat
<1>1. Len(pendingKA) \in Nat /\ Len(up) \in Nat /\ Len(down) \in Nat
  BY LenProperties DEF KAType
<1>2. \A i \in 1 .. Len(up) : up[i] \in KADatagram
  BY ElementOfSeq DEF KAType
<1>3. \A i \in 1 .. Len(up) : up[i].id \in Nat
  BY <1>2 DEF KADatagram
<1>4. /\ \A i \in 1 .. Len(down) : down[i] \in Nat
      /\ \A i \in 1 .. Len(pendingKA) : pendingKA[i] \in Nat
  BY ElementOfSeq DEF KAType
<1> QED BY <1>1, <1>2, <1>3, <1>4

\* One more at the end, one less at the front.
LEMMA AtTheEnd ==
  ASSUME NEW S, NEW s \in Seq(S), NEW e \in S
  PROVE  /\ Append(s, e) \in Seq(S) /\ Len(Append(s, e)) = Len(s) + 1 /\ Len(s) \in Nat
         /\ \A i \in 1 .. Len(s) : Append(s, e)[i] = s[i]
         /\ Append(s, e)[Len(s) + 1] = e
  BY AppendProperties, LenProperties

\* The library's facts about Head and Tail, in the form used here.
LEMMA AtTheFront ==
  ASSUME NEW S, NEW s \in Seq(S), s # << >>
  PROVE  /\ Tail(s) \in Seq(S) /\ Len(s) \in Nat \ {0} /\ Len(Tail(s)) = Len(s) - 1
         /\ Head(s) \in S /\ Head(s) = s[1]
         /\ \A i \in 1 .. Len(s) - 1 : Tail(s)[i] = s[i + 1]
  BY HeadTailProperties, LenProperties, EmptySeq

\* The newest keepalive is waited for behind the others (noteKeepaliveSentLocked).
LEMMA KASends ==
  ASSUME KAInv, Keepalive!SendKeepalive
  PROVE  KAInv'
<1> USE DEF KAInv
<1> DEFINE new == [id |-> keepaliveSent + 1, echo |-> lastServerTS]
<1>1. /\ keepaliveSent' = keepaliveSent + 1 /\ up' = Append(up, new)
      /\ pendingKA' = Keepalive!Note(keepaliveSent + 1)
      /\ madeRoom' = (madeRoom \/ Len(pendingKA) >= MaxPendingKA)
      /\ UNCHANGED <<lastServerTS, rtt, socketSince, bindingSince, lost, down>>
  BY DEF Keepalive!SendKeepalive
<1>2. /\ Len(pendingKA) \in Nat /\ Len(up) \in Nat /\ Len(down) \in Nat /\ keepaliveSent \in Nat
      /\ socketSince \in Nat /\ bindingSince \in Nat /\ bindingSince <= keepaliveSent
      /\ socketSince <= bindingSince
  BY KALengths DEF KAType
<1>3. /\ up' \in Seq(KADatagram) /\ Len(up') = Len(up) + 1
      /\ \A i \in 1 .. Len(up) : up'[i] = up[i]
      /\ up'[Len(up) + 1] = new
  <2>1. new \in KADatagram /\ up \in Seq(KADatagram)
    BY DEF KAType, KADatagram
  <2> HIDE DEF new
  <2> QED BY <1>1, <2>1, AtTheEnd
<1>4. \A i \in 1 .. Len(up') : IF i = Len(up) + 1 THEN up'[i].id = keepaliveSent + 1
                               ELSE i \in 1 .. Len(up) /\ up'[i].id = up[i].id
  BY <1>2, <1>3
<1>5. pendingKA' \in Seq(Nat)
  <2>1. pendingKA \in Seq(Nat)
    BY DEF KAType
  <2>2. CASE Len(pendingKA) >= MaxPendingKA
    <3>1. pendingKA # << >>
      BY <2>2, KeepaliveBounds, EmptySeq DEF Keepalive!KeepaliveAssumption
    <3>2. Tail(pendingKA) \in Seq(Nat)
      BY <2>1, <3>1, AtTheFront
    <3> QED BY <1>1, <1>2, <2>2, <3>2, AtTheEnd DEF Keepalive!Note
  <2>3. CASE ~(Len(pendingKA) >= MaxPendingKA)
    BY <1>1, <1>2, <2>1, <2>3, AtTheEnd DEF Keepalive!Note
  <2> QED BY <2>2, <2>3
<1>6. KAType'
  BY <1>1, <1>2, <1>3, <1>5 DEF KAType
<1>7. KAOrder'
  <2>1. \A i \in 1 .. Len(up') : up'[i].id <= keepaliveSent'
    <3>1. \A i \in 1 .. Len(up) : up[i].id \in Nat /\ up[i].id <= keepaliveSent
      BY KALengths DEF KAOrder
    <3> QED BY <1>1, <1>2, <1>4, <3>1
  <2>2. \A i \in 1 .. Len(down) : down[i] \in Nat /\ down[i] <= keepaliveSent
    BY KALengths DEF KAOrder
  <2>3. \A i \in 1 .. Len(up) : up[i].id \in Nat /\ up[i].id <= keepaliveSent
    BY KALengths DEF KAOrder
  <2>4. \A i, j \in 1 .. Len(up') : i < j => up'[i].id < up'[j].id
    BY <1>2, <1>3, <1>4, <2>3 DEF KAOrder
  <2>5. \A i \in 1 .. Len(down) : \A j \in 1 .. Len(up') : down[i] < up'[j].id
    <3> SUFFICES ASSUME NEW i \in 1 .. Len(down), NEW j \in 1 .. Len(up')
                 PROVE  down[i] < up'[j].id
      OBVIOUS
    <3>1. CASE j = Len(up) + 1
      BY <1>2, <1>4, <2>2, <3>1
    <3>2. CASE j # Len(up) + 1
      BY <1>4, <3>2 DEF KAOrder
    <3> QED BY <3>1, <3>2
  <2>6. \A i \in 1 .. Len(down') : down'[i] <= keepaliveSent'
    BY <1>1, <1>2, <2>2
  <2> QED BY <1>1, <2>1, <2>4, <2>5, <2>6 DEF KAOrder
<1>8. KANoGaps'
  <2> SUFFICES ASSUME ~lost PROVE KANoGaps'
    BY <1>1 DEF KANoGaps
  <2>1. /\ Len(up) + Len(down) <= keepaliveSent
        /\ \A i \in 1 .. Len(up) : up[i].id = keepaliveSent - Len(up) + i
        /\ \A i \in 1 .. Len(down) : down[i] = keepaliveSent - Len(up) - Len(down) + i
    BY DEF KANoGaps
  <2>2. keepaliveSent' - Len(up') = keepaliveSent - Len(up) /\ Len(up') + Len(down) <= keepaliveSent'
    BY <1>1, <1>2, <1>3, <2>1
  <2>3. \A i \in 1 .. Len(up') : up'[i].id = keepaliveSent' - Len(up') + i
    BY <1>2, <1>3, <1>4, <2>1, <2>2
  <2>4. \A i \in 1 .. Len(down) : down[i] = keepaliveSent' - Len(up') - Len(down) + i
    BY <2>1, <2>2
  <2> QED BY <1>1, <2>2, <2>3, <2>4 DEF KANoGaps
<1>9. KAWaiting'
  <2> SUFFICES ASSUME ~madeRoom', bindingSince = socketSince
               PROVE  KAWaiting'
    BY <1>1 DEF KAWaiting
  <2>1. ~madeRoom /\ ~(Len(pendingKA) >= MaxPendingKA)
    BY <1>1
  <2>2. pendingKA' = Append(pendingKA, keepaliveSent + 1) /\ pendingKA \in Seq(Nat)
    BY <1>1, <2>1 DEF Keepalive!Note, KAType
  <2>3. /\ Len(pendingKA') = Len(pendingKA) + 1
        /\ \A i \in 1 .. Len(pendingKA) : pendingKA'[i] = pendingKA[i]
        /\ pendingKA'[Len(pendingKA) + 1] = keepaliveSent + 1
    BY <1>2, <2>2, AtTheEnd
  <2>4. KAHead' = KAHead /\ KAHead \in Int /\ KAHead <= keepaliveSent
    <3>1. keepaliveSent' = keepaliveSent + 1
      BY <1>1
    <3>2. Len(pendingKA') = Len(pendingKA) + 1
      BY <2>3
    <3> QED BY <1>2, <3>1, <3>2 DEF KAHead, KAWaits
  <2>5. /\ KAHead >= socketSince
        /\ \A i \in 1 .. KAWaits : pendingKA[i] = KAHead + i
        /\ \A i \in 1 .. Len(up) : up[i].id > socketSince => up[i].id > KAHead
        /\ \A i \in 1 .. Len(down) : down[i] > socketSince => down[i] > KAHead
        /\ ~lost => KAHead = socketSince \/ KAHead = keepaliveSent - Len(up) - Len(down)
        /\ ~lost => KAHead >= keepaliveSent - Len(up) - Len(down)
    BY <2>1 DEF KAWaiting
  <2>6. \A i \in 1 .. KAWaits' : pendingKA'[i] = KAHead' + i
    <3>1. KAHead + KAWaits + 1 = keepaliveSent + 1 /\ KAWaits = Len(pendingKA) /\ KAWaits' = KAWaits + 1
      BY <1>2, <2>3 DEF KAHead, KAWaits
    <3>2. \A i \in 1 .. KAWaits' : i \in 1 .. KAWaits \/ i = KAWaits + 1
      BY <3>1, <1>2
    <3>3. \A i \in 1 .. KAWaits : pendingKA'[i] = KAHead' + i
      BY <2>3, <2>4, <2>5, <3>1
    <3>4. pendingKA'[KAWaits + 1] = KAHead' + (KAWaits + 1)
      BY <1>2, <2>3, <2>4, <3>1
    <3> QED BY <3>2, <3>3, <3>4
  <2>7. \A i \in 1 .. Len(up') : up'[i].id > socketSince => up'[i].id > KAHead'
    BY <1>2, <1>4, <2>4, <2>5
  <2>8. ~lost => /\ KAHead = socketSince \/ KAHead = keepaliveSent' - Len(up') - Len(down)
                 /\ KAHead >= keepaliveSent' - Len(up') - Len(down)
    BY <1>1, <1>2, <1>3, <2>5
  <2> QED BY <1>1, <2>4, <2>5, <2>6, <2>7, <2>8 DEF KAWaiting
<1>10. Keepalive!RoundTripIsTrue'
  BY <1>1 DEF Keepalive!RoundTripIsTrue, Keepalive!ExactWithoutLoss, Keepalive!NeverTooShort
<1> QED BY <1>6, <1>7, <1>8, <1>9, <1>10

\* resetBindingLocked forgets every keepalive up to now.
LEMMA KAResets ==
  ASSUME KAInv, Keepalive!BindingLost \/ Keepalive!Reopen
  PROVE  KAInv'
<1> USE DEF KAInv
<1>0. [sent |-> 0, answered |-> 0] \in KAMeasured
  BY DEF KAMeasured
<1>1. /\ rtt' = [sent |-> 0, answered |-> 0] /\ lastServerTS' = 0 /\ pendingKA' = << >>
      /\ bindingSince' = keepaliveSent /\ socketSince' \in {socketSince, keepaliveSent}
      /\ UNCHANGED <<keepaliveSent, lost, madeRoom, up, down>>
  BY DEF Keepalive!BindingLost, Keepalive!Reopen, Keepalive!ResetBinding, Keepalive!Unmeasured
<1>2. Len(pendingKA') = 0 /\ << >> \in Seq(Nat)
  BY <1>1, EmptySeq
<1>3. KAType'
  BY <1>0, <1>1, <1>2 DEF KAType
<1>4. KAOrder' /\ KANoGaps'
  BY <1>1 DEF KAOrder, KANoGaps
<1>5. /\ \A i \in 1 .. Len(up) : up[i].id \in Nat
      /\ \A i \in 1 .. Len(down) : down[i] \in Nat
      /\ Len(up) \in Nat /\ Len(down) \in Nat /\ keepaliveSent \in Nat
  BY KALengths DEF KAType
<1>6. KAHead' = keepaliveSent /\ KAWaits' = 0
  BY <1>1, <1>2, <1>5 DEF KAHead, KAWaits
<1>7. KAWaiting'
  <2> SUFFICES ASSUME bindingSince' = socketSince' PROVE KAWaiting'
    BY DEF KAWaiting
  <2>1. socketSince' = keepaliveSent
    BY <1>1
  <2>2. keepaliveSent >= keepaliveSent - Len(up) - Len(down)
    BY <1>5
  <2> QED BY <1>1, <1>5, <1>6, <2>1, <2>2 DEF KAWaiting
<1>8. Keepalive!RoundTripIsTrue'
  BY <1>1 DEF Keepalive!RoundTripIsTrue, Keepalive!ExactWithoutLoss, Keepalive!NeverTooShort
<1> QED BY <1>3, <1>4, <1>7, <1>8

\* What is on its way is answered or lost.
LEMMA KATravels ==
  ASSUME KAInv, Keepalive!Answer \/ Keepalive!Lose
  PROVE  KAInv'
<1> USE DEF KAInv
<1>0. UNCHANGED <<pendingKA, lastServerTS, rtt, keepaliveSent, socketSince, bindingSince, madeRoom>>
  BY DEF Keepalive!Answer, Keepalive!Lose
<1>1. /\ Len(pendingKA) \in Nat /\ Len(up) \in Nat /\ Len(down) \in Nat /\ keepaliveSent \in Nat
      /\ socketSince \in Nat /\ KAHead \in Int /\ KAHead' = KAHead /\ KAWaits' = KAWaits
  BY <1>0, KALengths DEF KAType, KAHead, KAWaits
<1>2. /\ \A i \in 1 .. Len(up) : up[i].id \in Nat
      /\ \A i \in 1 .. Len(down) : down[i] \in Nat
  BY KALengths
<1>3. CASE Keepalive!Answer
  <2>1. up # << >> /\ up' = Tail(up) /\ down' = Append(down, Head(up).id) /\ lost' = lost
    BY <1>3 DEF Keepalive!Answer
  <2>2. /\ up' \in Seq(KADatagram) /\ Len(up') = Len(up) - 1 /\ Len(up) # 0
        /\ Head(up) = up[1] /\ up[1].id \in Nat
        /\ \A i \in 1 .. Len(up) - 1 : up'[i] = up[i + 1]
    BY <1>1, <1>2, <2>1, AtTheFront DEF KAType
  <2>3. /\ down' \in Seq(Nat) /\ Len(down') = Len(down) + 1
        /\ \A i \in 1 .. Len(down) : down'[i] = down[i]
        /\ down'[Len(down) + 1] = up[1].id
    <3>1. down \in Seq(Nat) /\ down' = Append(down, up[1].id)
      BY <2>1, <2>2 DEF KAType
    <3> QED BY <2>2, <3>1, AtTheEnd
  <2>4. \A i \in 1 .. Len(up') : i + 1 \in 1 .. Len(up) /\ up'[i].id = up[i + 1].id /\ i + 1 > 1
    BY <1>1, <2>2
  <2>5. \A i \in 1 .. Len(down') : IF i = Len(down) + 1 THEN down'[i] = up[1].id
                                   ELSE i \in 1 .. Len(down) /\ down'[i] = down[i]
    BY <1>1, <2>3
  <2>6. 1 \in 1 .. Len(up)
    BY <1>1, <2>2
  <2>7. KAType'
    BY <1>0, <2>1, <2>2, <2>3 DEF KAType
  <2>8. KAOrder'
    <3>1. \A i \in 1 .. Len(up') : up'[i].id <= keepaliveSent
      BY <2>4 DEF KAOrder
    <3>2. \A i \in 1 .. Len(down') : down'[i] <= keepaliveSent
      BY <2>5, <2>6 DEF KAOrder
    <3>3. \A i, j \in 1 .. Len(up') : i < j => up'[i].id < up'[j].id
      BY <1>1, <2>4 DEF KAOrder
    <3>4. \A i, j \in 1 .. Len(down') : i < j => down'[i] < down'[j]
      BY <1>1, <2>3, <2>5, <2>6 DEF KAOrder
    <3>5. \A i \in 1 .. Len(down') : \A j \in 1 .. Len(up') : down'[i] < up'[j].id
      BY <1>1, <2>4, <2>5, <2>6 DEF KAOrder
    <3> QED BY <1>0, <3>1, <3>2, <3>3, <3>4, <3>5 DEF KAOrder
  <2>9. KANoGaps'
    <3> SUFFICES ASSUME ~lost PROVE KANoGaps'
      BY <2>1 DEF KANoGaps
    <3>1. /\ Len(up) + Len(down) <= keepaliveSent
          /\ \A i \in 1 .. Len(up) : up[i].id = keepaliveSent - Len(up) + i
          /\ \A i \in 1 .. Len(down) : down[i] = keepaliveSent - Len(up) - Len(down) + i
      BY DEF KANoGaps
    <3>2. Len(up') = Len(up) - 1 /\ Len(down') = Len(down) + 1
      BY <2>2, <2>3
    <3>3. \A i \in 1 .. Len(up') : up'[i].id = keepaliveSent - Len(up') + i
      BY <1>1, <2>4, <3>1, <3>2
    <3>4. \A i \in 1 .. Len(down') : down'[i] = keepaliveSent - Len(up') - Len(down') + i
      <4>1. up[1].id = keepaliveSent - Len(up) + 1
        BY <2>6, <3>1
      <4>2. down'[Len(down) + 1] = keepaliveSent - Len(up') - Len(down') + (Len(down) + 1)
        BY <1>1, <2>3, <3>2, <4>1
      <4>3. \A i \in 1 .. Len(down) : down'[i] = keepaliveSent - Len(up') - Len(down') + i
        BY <1>1, <2>3, <3>1, <3>2
      <4> QED BY <2>5, <4>2, <4>3
    <3>5. Len(up') + Len(down') <= keepaliveSent
      BY <1>1, <3>1, <3>2
    <3> QED BY <1>0, <3>3, <3>4, <3>5 DEF KANoGaps
  <2>10. KAWaiting'
    <3>1. Len(up') + Len(down') = Len(up) + Len(down)
          /\ keepaliveSent - Len(up') - Len(down') = keepaliveSent - Len(up) - Len(down)
      BY <1>1, <2>2, <2>3
    <3>2. ASSUME ~madeRoom, bindingSince = socketSince
          PROVE  /\ \A i \in 1 .. Len(up') : up'[i].id > socketSince => up'[i].id > KAHead
                 /\ \A i \in 1 .. Len(down') : down'[i] > socketSince => down'[i] > KAHead
      BY <2>4, <2>5, <2>6, <3>2 DEF KAWaiting
    <3> QED BY <1>0, <1>1, <2>1, <3>1, <3>2 DEF KAWaiting
  <2>11. Keepalive!RoundTripIsTrue'
    BY <1>0, <2>1 DEF Keepalive!RoundTripIsTrue, Keepalive!ExactWithoutLoss, Keepalive!NeverTooShort
  <2> QED BY <2>7, <2>8, <2>9, <2>10, <2>11
<1>4. CASE Keepalive!Lose
  <2>1. /\ lost' = TRUE
        /\ \/ up # << >> /\ up' = Tail(up) /\ down' = down
           \/ down # << >> /\ down' = Tail(down) /\ up' = up
    BY <1>4 DEF Keepalive!Lose
  <2>2. /\ up' \in Seq(KADatagram) /\ down' \in Seq(Nat)
        /\ Len(up') \in Nat /\ Len(down') \in Nat
    BY <2>1, AtTheFront, LenProperties DEF KAType
  <2>3. \E d \in {0, 1} : \A i \in 1 .. Len(up') : i + d \in 1 .. Len(up) /\ up'[i].id = up[i + d].id
    <3>1. CASE up' = up
      BY <3>1, <1>1
    <3>2. CASE up # << >> /\ up' = Tail(up)
      <4>1. Len(up') = Len(up) - 1 /\ \A i \in 1 .. Len(up) - 1 : up'[i] = up[i + 1]
        BY <3>2, AtTheFront DEF KAType
      <4> QED BY <1>1, <4>1
    <3> QED BY <2>1, <3>1, <3>2
  <2>4. \E d \in {0, 1} : \A i \in 1 .. Len(down') : i + d \in 1 .. Len(down) /\ down'[i] = down[i + d]
    <3>1. CASE down' = down
      BY <3>1, <1>1
    <3>2. CASE down # << >> /\ down' = Tail(down)
      <4>1. Len(down') = Len(down) - 1 /\ \A i \in 1 .. Len(down) - 1 : down'[i] = down[i + 1]
        BY <3>2, AtTheFront DEF KAType
      <4> QED BY <1>1, <4>1
    <3> QED BY <2>1, <3>1, <3>2
  <2>5. PICK u \in {0, 1} : \A i \in 1 .. Len(up') : i + u \in 1 .. Len(up) /\ up'[i].id = up[i + u].id
    BY <2>3
  <2>6. PICK d \in {0, 1} : \A i \in 1 .. Len(down') : i + d \in 1 .. Len(down) /\ down'[i] = down[i + d]
    BY <2>4
  <2>7. KAType'
    BY <1>0, <2>1, <2>2 DEF KAType
  <2>8. KAOrder'
    <3>1. \A i, j \in 1 .. Len(up') : i < j => i + u < j + u
      BY <2>2
    <3>2. \A i, j \in 1 .. Len(down') : i < j => i + d < j + d
      BY <2>2
    <3> QED BY <1>0, <2>5, <2>6, <3>1, <3>2 DEF KAOrder
  <2>9. KANoGaps'
    BY <2>1 DEF KANoGaps
  <2>10. KAWaiting'
    BY <1>0, <1>1, <2>1, <2>5, <2>6 DEF KAWaiting
  <2>11. Keepalive!RoundTripIsTrue'
    BY <1>0, <2>1 DEF Keepalive!RoundTripIsTrue, Keepalive!ExactWithoutLoss, Keepalive!NeverTooShort
  <2> QED BY <2>7, <2>8, <2>9, <2>10, <2>11
<1> QED BY <1>3, <1>4

\* A reply is timed against the oldest keepalive that has none.
LEMMA KAReceives ==
  ASSUME KAInv, Keepalive!Receive
  PROVE  KAInv'
<1> USE DEF KAInv
<1>0. /\ down # << >> /\ down' = Tail(down)
      /\ UNCHANGED <<keepaliveSent, socketSince, bindingSince, lost, madeRoom, up>>
  BY DEF Keepalive!Receive
<1>1. /\ down \in Seq(Nat) /\ down' \in Seq(Nat) /\ Len(down) \in Nat \ {0} /\ Len(down') = Len(down) - 1
      /\ Head(down) = down[1] /\ down[1] \in Nat
      /\ \A i \in 1 .. Len(down) - 1 : down'[i] = down[i + 1]
  BY <1>0, AtTheFront DEF KAType
<1>2. /\ Len(pendingKA) \in Nat /\ Len(up) \in Nat /\ keepaliveSent \in Nat
      /\ socketSince \in Nat /\ KAHead \in Int
  BY KALengths DEF KAType, KAHead, KAWaits
<1>3. \A i \in 1 .. Len(down') : i + 1 \in 1 .. Len(down) /\ down'[i] = down[i + 1] /\ i + 1 > 1
  BY <1>1
<1>4. 1 \in 1 .. Len(down)
  BY <1>1
<1>5. /\ \A i \in 1 .. Len(up) : up[i].id \in Nat /\ up[i].id > down[1]
      /\ \A i \in 1 .. Len(down') : down'[i] \in Nat /\ down'[i] > down[1]
      /\ down[1] <= keepaliveSent
  BY <1>1, <1>3, <1>4, KALengths DEF KAOrder
<1>6. KAOrder'
  <2>1. \A i, j \in 1 .. Len(down') : i < j => i + 1 < j + 1
    BY <1>1
  <2> QED BY <1>0, <1>3, <2>1 DEF KAOrder
<1>7. KANoGaps'
  BY <1>0, <1>1, <1>2, <1>3 DEF KANoGaps
<1>8. ~lost => down[1] = keepaliveSent - Len(up) - Len(down) + 1
  BY <1>4 DEF KANoGaps
<1>9. CASE UNCHANGED <<pendingKA, rtt>>
           /\ (down[1] <= socketSince \/ (pendingKA = << >> /\ lastServerTS' \in Nat))
           /\ lastServerTS' \in Nat
  <2>1. KAType'
    BY <1>0, <1>1, <1>9 DEF KAType
  <2>2. KAHead' = KAHead /\ KAWaits' = KAWaits
    BY <1>0, <1>9 DEF KAHead, KAWaits
  <2>3. KAWaiting'
    <3> SUFFICES ASSUME ~madeRoom, bindingSince = socketSince PROVE KAWaiting'
      BY <1>0 DEF KAWaiting
    <3>1. down[1] <= socketSince
      <4>1. ASSUME pendingKA = << >>, down[1] > socketSince PROVE FALSE
        <5>1. KAHead = keepaliveSent
          BY <1>2, <4>1, EmptySeq DEF KAHead, KAWaits
        <5>2. down[1] > KAHead
          BY <1>4, <4>1 DEF KAWaiting
        <5> QED BY <1>1, <1>2, <1>5, <5>1, <5>2
      <4> QED BY <1>1, <1>2, <1>9, <4>1
    <3>2. \A i \in 1 .. Len(down') : down'[i] > socketSince => down'[i] > KAHead
      BY <1>3 DEF KAWaiting
    <3>3. ~lost => /\ keepaliveSent - Len(up) - Len(down') <= socketSince
                   /\ KAHead = socketSince
      <4>1. ~lost => keepaliveSent - Len(up) - Len(down) + 1 <= socketSince
        BY <1>8, <3>1
      <4>2. ~lost => keepaliveSent - Len(up) - Len(down') = keepaliveSent - Len(up) - Len(down) + 1
        BY <1>1, <1>2
      <4> QED BY <1>1, <1>2, <4>1, <4>2 DEF KAWaiting
    <3>4. KAHead >= socketSince
      BY DEF KAWaiting
    <3>5. ~lost => KAHead >= keepaliveSent - Len(up) - Len(down')
      BY <1>1, <1>2, <3>3
    <3> QED BY <1>0, <1>9, <2>2, <3>2, <3>3, <3>4, <3>5 DEF KAWaiting
  <2>4. Keepalive!RoundTripIsTrue'
    BY <1>0, <1>9 DEF Keepalive!RoundTripIsTrue, Keepalive!ExactWithoutLoss, Keepalive!NeverTooShort
  <2> QED BY <1>6, <1>7, <2>1, <2>3, <2>4
<1>10. CASE /\ down[1] > socketSince /\ pendingKA # << >> /\ lastServerTS' \in Nat
            /\ rtt' = [sent |-> Head(pendingKA), answered |-> down[1]]
            /\ pendingKA' = Tail(pendingKA)
  <2>1. /\ pendingKA' \in Seq(Nat) /\ Len(pendingKA) # 0 /\ Len(pendingKA') = Len(pendingKA) - 1
        /\ Head(pendingKA) = pendingKA[1] /\ pendingKA[1] \in Nat
        /\ \A i \in 1 .. Len(pendingKA) - 1 : pendingKA'[i] = pendingKA[i + 1]
    BY <1>2, <1>10, AtTheFront DEF KAType
  <2>2. /\ rtt' \in KAMeasured
        /\ rtt'.sent = pendingKA[1] /\ rtt'.answered = down[1]
    BY <1>1, <1>10, <2>1 DEF KAMeasured
  <2>3. KAType'
    BY <1>0, <1>1, <1>10, <2>1, <2>2 DEF KAType
  <2>4. KAHead' = KAHead + 1 /\ KAWaits' = KAWaits - 1 /\ KAWaits = Len(pendingKA)
    BY <1>0, <1>2, <2>1 DEF KAHead, KAWaits
  <2>5. ASSUME ~madeRoom, bindingSince = socketSince
        PROVE  /\ pendingKA[1] = KAHead + 1 /\ KAHead + 1 <= down[1]
               /\ ~lost => down[1] = KAHead + 1
    <3>1. 1 \in 1 .. KAWaits
      BY <1>2, <2>1, <2>4
    <3>2. pendingKA[1] = KAHead + 1
      BY <2>5, <3>1 DEF KAWaiting
    <3>3. down[1] > KAHead
      BY <1>4, <1>10, <2>5 DEF KAWaiting
    <3>4. ~lost => down[1] = KAHead + 1
      <4> SUFFICES ASSUME ~lost PROVE down[1] = KAHead + 1
        OBVIOUS
      <4>1. /\ KAHead = socketSince \/ KAHead = keepaliveSent - Len(up) - Len(down)
            /\ KAHead >= keepaliveSent - Len(up) - Len(down)
            /\ KAHead >= socketSince
        BY <2>5 DEF KAWaiting
      <4> QED BY <1>1, <1>2, <1>8, <1>10, <3>3, <4>1
    <3> QED BY <1>1, <1>2, <3>2, <3>3, <3>4
  <2>6. KAWaiting'
    <3> SUFFICES ASSUME ~madeRoom, bindingSince = socketSince PROVE KAWaiting'
      BY <1>0 DEF KAWaiting
    <3>1. pendingKA[1] = KAHead + 1 /\ KAHead + 1 <= down[1] /\ (~lost => down[1] = KAHead + 1)
      BY <2>5
    <3>2. \A i \in 1 .. KAWaits' : pendingKA'[i] = KAHead' + i
      <4>1. \A i \in 1 .. KAWaits' : i \in 1 .. Len(pendingKA) - 1 /\ i + 1 \in 1 .. KAWaits
        BY <1>2, <2>4
      <4>2. \A i \in 1 .. KAWaits : pendingKA[i] = KAHead + i
        BY DEF KAWaiting
      <4> QED BY <1>2, <2>1, <2>4, <4>1, <4>2
    <3>3. KAHead' >= socketSince
      BY <1>2, <2>4 DEF KAWaiting
    <3>4. /\ \A i \in 1 .. Len(up) : up[i].id > KAHead'
          /\ \A i \in 1 .. Len(down') : down'[i] > KAHead'
      <4>1. KAHead + 1 <= down[1] /\ KAHead' = KAHead + 1
        BY <2>4, <3>1
      <4>2. \A n \in Nat : n > down[1] => n > KAHead'
        BY <1>1, <1>2, <4>1
      <4> QED BY <1>5, <4>2
    <3>5. ~lost => KAHead' = keepaliveSent - Len(up) - Len(down')
      BY <1>1, <1>2, <1>8, <2>4, <3>1
    <3>6. ~lost => KAHead' >= keepaliveSent - Len(up) - Len(down')
      BY <1>1, <1>2, <2>4, <3>5
    <3> QED BY <1>0, <3>2, <3>3, <3>4, <3>5, <3>6 DEF KAWaiting
  <2>7. Keepalive!RoundTripIsTrue'
    <3>1. Keepalive!ExactWithoutLoss'
      BY <1>0, <2>2, <2>5 DEF Keepalive!ExactWithoutLoss
    <3>2. Keepalive!NeverTooShort'
      BY <1>0, <2>2, <2>5 DEF Keepalive!NeverTooShort
    <3> QED BY <3>1, <3>2 DEF Keepalive!RoundTripIsTrue
  <2> QED BY <1>6, <1>7, <2>3, <2>6, <2>7
<1> QED
  <2>1. lastServerTS \in Nat
    BY DEF KAType
  <2>2. CASE down[1] <= socketSince
    BY <1>1, <1>9, <2>1, <2>2 DEF Keepalive!Receive
  <2>3. CASE ~(down[1] <= socketSince) /\ pendingKA = << >>
    BY <1>1, <1>9, <2>1, <2>3 DEF Keepalive!Receive
  <2>4. CASE ~(down[1] <= socketSince) /\ pendingKA # << >>
    BY <1>1, <1>2, <1>10, <2>1, <2>4 DEF Keepalive!Receive
  <2> QED BY <2>2, <2>3, <2>4

\* Every step of the keepalives and of the network keeps the invariant.
LEMMA KAPreserved == KAInv /\ [Keepalive!Next]_keepaliveVars => KAInv'
<1> SUFFICES ASSUME KAInv, [Keepalive!Next]_keepaliveVars PROVE KAInv'
  OBVIOUS
<1>1. CASE UNCHANGED keepaliveVars \/ Keepalive!Acknowledged
  <2>1. UNCHANGED <<pendingKA, lastServerTS, rtt, keepaliveSent, socketSince, bindingSince, lost,
                    madeRoom, up, down>>
    BY <1>1 DEF keepaliveVars, Keepalive!Acknowledged
  <2> QED BY <2>1 DEF KAInv, KAType, KAOrder, KANoGaps, KAWaiting, KAHead, KAWaits,
             Keepalive!RoundTripIsTrue, Keepalive!ExactWithoutLoss, Keepalive!NeverTooShort
<1>2. CASE Keepalive!Next /\ ~Keepalive!Acknowledged
  BY <1>2, KASends, KAResets, KATravels, KAReceives DEF Keepalive!Next
<1> QED BY <1>1, <1>2

\* The keepalives go on or rest in every step of a session's parts.
LEMMA SideKeepalive ==
  /\ SideInit => Keepalive!Init
  /\ [SideNext]_allVars => [Keepalive!Next]_keepaliveVars
  BY DEF SideInit, SideNext, allVars

(***************************************************************************)
(* The transmit path                                                       *)
(***************************************************************************)

\* A frame of one transmission.
TxPure == {g \in [1 .. 2 -> Nat] : g[1] = g[2]}

TxType ==
  /\ transmitGen \in Nat /\ accGen \in Nat /\ free \in Nat
  /\ read \in [Loops -> Nat]
  /\ acc \in Seq(Nat) /\ Len(acc) <= 1 /\ (Len(acc) = 1 => acc[1] = accGen)
  /\ pcm \in Seq(TxPure)
  /\ transmitHand \in TxPure \cup {<<>>}

\* txLoop has a frame while it encodes and sends, and only then.
TxHand ==
  /\ transmitHand # <<>> <=> txLoop \in {"encode", "send"}
  /\ closing = "freed" => txLoop = "returned"

TxInv == TxType /\ TxHand /\ Transmit!PoolIsWhole /\ numbered = seqs

\* A path that has carried nothing has all its buffers free.
LEMMA TxInitial == Transmit!Init => TxInv
<1> SUFFICES ASSUME Transmit!Init PROVE TxInv
  OBVIOUS
<1>1. /\ transmitGen = 0 /\ accGen = 0 /\ acc = <<>> /\ pcm = <<>>
      /\ read = [l \in Loops |-> 0] /\ free = QueueDepth + 1 /\ transmitHand = <<>>
      /\ txLoop = "select" /\ closing = "no" /\ numbered = seqs
  BY DEF Transmit!Init, Transmit!BufferCount, Transmit!NoFrame
<1>2. QueueDepth \in Nat
  BY TransmitBounds DEF Transmit!TransmitAssumption
<1>3. TxType
  BY <1>1, <1>2, EmptySeq DEF TxType
<1>4. TxHand
  BY <1>1 DEF TxHand
<1>5. Transmit!PoolIsWhole
  BY <1>1, <1>2, EmptySeq DEF Transmit!PoolIsWhole, Transmit!BufferCount, Transmit!NoFrame
<1> QED  BY <1>1, <1>3, <1>4, <1>5 DEF TxInv

\* Adding a half to halves of its generation.
LEMMA TxAppend ==
  ASSUME NEW g \in Nat, NEW s \in Seq(Nat), Len(s) <= 1, \A i \in 1 .. Len(s) : s[i] = g
  PROVE  /\ Append(s, g) \in Seq(Nat) /\ Len(Append(s, g)) = Len(s) + 1
         /\ \A i \in 1 .. Len(Append(s, g)) : Append(s, g)[i] = g
         /\ Len(Append(s, g)) >= 2 => Append(s, g) \in TxPure
<1> DEFINE t == Append(s, g)
<1>1. /\ t \in Seq(Nat) /\ Len(t) = Len(s) + 1 /\ Len(s) \in Nat
      /\ \A i \in 1 .. Len(s) : t[i] = s[i]
      /\ t[Len(s) + 1] = g
  BY AppendProperties, LenProperties
<1> HIDE DEF t
<1>2. \A i \in 1 .. Len(t) : t[i] = g
  BY <1>1
<1>3. ASSUME Len(t) >= 2 PROVE t \in TxPure
  <2>1. Len(t) = 2
    BY <1>1, <1>3
  <2>2. t \in [1 .. 2 -> Nat]
    BY <1>1, <2>1, LenProperties
  <2>3. t[1] = t[2]
    BY <1>2, <2>1
  <2> QED  BY <2>2, <2>3 DEF TxPure
<1> QED  BY <1>1, <1>2, <1>3 DEF t

\* What is left of the accumulator is of the generation at hand.
LEMMA TxLeftover ==
  ASSUME TxType, NEW g \in Nat
  PROVE  /\ Transmit!Leftover(g) \in Seq(Nat) /\ Len(Transmit!Leftover(g)) <= 1
         /\ \A i \in 1 .. Len(Transmit!Leftover(g)) : Transmit!Leftover(g)[i] = g
<1>1. CASE g # accGen
<2>1. Transmit!Leftover(g) = <<>>
  BY <1>1 DEF Transmit!Leftover
<2> QED  BY <2>1, EmptySeq
<1>2. CASE g = accGen
<2>1. Transmit!Leftover(g) = acc
  BY <1>2 DEF Transmit!Leftover
<2>2. \A i \in 1 .. Len(acc) : acc[i] = accGen
  <3>1. acc \in Seq(Nat) /\ Len(acc) <= 1 /\ (Len(acc) = 1 => acc[1] = accGen)
  BY TxType DEF TxType
  <3>2. Len(acc) \in Nat
  BY <3>1, LenProperties
  <3>3. CASE Len(acc) = 0
  BY <3>3
  <3>4. CASE Len(acc) = 1
  <4>1. \A i \in 1 .. 1 : i = 1
    OBVIOUS
  <4> QED  BY <3>1, <3>4, <4>1
  <3>5. Len(acc) <= 1
  BY <3>1
  <3>6. Len(acc) = 0 \/ Len(acc) = 1
  BY <3>2, <3>5
  <3> QED  BY <3>3, <3>4, <3>6
<2> QED  BY TxType, <1>2, <2>1, <2>2 DEF TxType
<1> QED  BY <1>1, <1>2

\* A frame that is complete is of one transmission, and no buffer is lost with
\* it (WriteFrame, flushLocked).
LEMMA TxAccumulateKeeps ==
  ASSUME TxInv, NEW l \in Loops, Transmit!Accumulate(l)
  PROVE  TxInv'
<1> DEFINE halves == Append(Transmit!Leftover(read[l]), read[l])
<1>1. /\ accGen' = read[l] /\ read' = [read EXCEPT ![l] = 0]
      /\ UNCHANGED <<transmitGen, txLoop, transmitHand, closing, seqs, numbered>>
      /\ IF Len(halves) < 2
           THEN acc' = halves /\ UNCHANGED <<free, pcm>>
           ELSE acc' = <<>> /\ Transmit!Flush(halves)
  BY DEF Transmit!Accumulate
<1>2. /\ TxType /\ TxHand /\ numbered = seqs /\ read[l] \in Nat
      /\ QueueDepth \in Nat
  BY TransmitBounds DEF TxInv, TxType, Transmit!TransmitAssumption
<1>3. /\ Transmit!Leftover(read[l]) \in Seq(Nat) /\ Len(Transmit!Leftover(read[l])) <= 1
      /\ \A i \in 1 .. Len(Transmit!Leftover(read[l])) : Transmit!Leftover(read[l])[i] = read[l]
  BY <1>2, TxLeftover DEF TxInv
<1>4. /\ halves \in Seq(Nat) /\ Len(halves) = Len(Transmit!Leftover(read[l])) + 1
      /\ \A i \in 1 .. Len(halves) : halves[i] = read[l]
  BY <1>2, <1>3, TxAppend
<1>5. Len(halves) >= 2 => halves \in TxPure
  BY <1>2, <1>3, TxAppend
<1>11. Len(Transmit!Leftover(read[l])) \in Nat
  BY <1>3, LenProperties
<1>10. Len(halves) \in Nat
  BY <1>4, LenProperties
<1> HIDE DEF halves
<1>6. TxHand' /\ numbered' = seqs'
  BY <1>1, <1>2 DEF TxHand
<1>7. read' \in [Loops -> Nat] /\ transmitGen' \in Nat /\ accGen' \in Nat
      /\ transmitHand' \in TxPure \cup {<<>>}
  BY <1>1, <1>2 DEF TxType
<1>8. CASE Len(halves) < 2
  <2>1. acc' = halves /\ UNCHANGED <<free, pcm>>
    BY <1>1, <1>8
  <2>2. acc' \in Seq(Nat) /\ Len(acc') <= 1 /\ (Len(acc') = 1 => acc'[1] = accGen')
    <3>1. Len(halves) = 1 => halves[1] = read[l]
      BY <1>4
    <3> QED  BY <1>1, <1>4, <1>8, <1>10, <2>1, <3>1
  <2>3. TxType'
    BY <1>2, <1>7, <2>1, <2>2 DEF TxType
  <2>4. Transmit!PoolIsWhole'
    BY <1>1, <2>1 DEF TxInv, Transmit!PoolIsWhole, Transmit!BufferCount, Transmit!NoFrame
  <2> QED  BY <1>6, <2>3, <2>4 DEF TxInv
<1>9. CASE Len(halves) >= 2
  <2>1. acc' = <<>> /\ Transmit!Flush(halves)
    BY <1>1, <1>9, <1>10
  <2>2. acc' \in Seq(Nat) /\ Len(acc') <= 1 /\ (Len(acc') = 1 => acc'[1] = accGen')
    BY <2>1, EmptySeq
  <2>3. CASE UNCHANGED <<free, pcm>>
    <3>1. TxType'
      BY <1>2, <1>7, <2>2, <2>3 DEF TxType
    <3>2. Transmit!PoolIsWhole'
      BY <1>1, <2>3 DEF TxInv, Transmit!PoolIsWhole, Transmit!BufferCount, Transmit!NoFrame
    <3> QED  BY <1>6, <3>1, <3>2 DEF TxInv
  <2>4. CASE free # 0 /\ free' = free - 1 /\ pcm' = Append(pcm, halves)
    <3>1. /\ free' \in Nat /\ pcm' \in Seq(TxPure) /\ Len(pcm') = Len(pcm) + 1
          /\ Len(pcm) \in Nat
      BY <1>2, <1>5, <1>9, <2>4, AppendProperties, LenProperties DEF TxType
    <3>2. TxType'
      BY <1>7, <2>2, <3>1 DEF TxType
    <3>3. Transmit!PoolIsWhole'
      BY <1>1, <1>2, <2>4, <3>1
      DEF TxInv, TxType, Transmit!PoolIsWhole, Transmit!BufferCount, Transmit!NoFrame
    <3> QED  BY <1>6, <3>2, <3>3 DEF TxInv
  <2> QED  BY <2>1, <2>3, <2>4 DEF Transmit!Flush
<1> QED  BY <1>8, <1>9, <1>10

\* What txLoop takes, encodes or drops goes back to the free list once (txLoop).
LEMMA TxLoopKeeps ==
  ASSUME TxInv,
         \/ Transmit!Take \/ Transmit!DropFrame \/ Transmit!Encode \/ Transmit!SendEnds
         \/ Transmit!TxLoopReturns
  PROVE  TxInv'
<1>1. /\ TxType /\ TxHand /\ numbered = seqs /\ QueueDepth \in Nat /\ Len(pcm) \in Nat
  BY TransmitBounds, LenProperties DEF TxInv, TxType, Transmit!TransmitAssumption
<1>2. UNCHANGED <<transmitGen, read, acc, accGen, closing, seqs, numbered>>
  BY DEF Transmit!Take, Transmit!DropFrame, Transmit!Encode, Transmit!SendEnds,
       Transmit!TxLoopReturns
<1>3. CASE Transmit!Take
  <2>1. /\ txLoop = "select" /\ pcm # <<>> /\ txLoop' = "encode" /\ free' = free
        /\ transmitHand' = Head(pcm) /\ pcm' = Tail(pcm)
    BY <1>3 DEF Transmit!Take
  <2>2. /\ Head(pcm) \in TxPure /\ Tail(pcm) \in Seq(TxPure) /\ Len(Tail(pcm)) = Len(pcm) - 1
    BY <1>1, <2>1, HeadTailProperties DEF TxType
  <2>3. Head(pcm) # <<>>
    <3>1. DOMAIN Head(pcm) = 1 .. 2
      BY <2>2 DEF TxPure
    <3>2. 1 \in 1 .. 2 /\ 1 \notin 1 .. 0
      OBVIOUS
    <3>3. DOMAIN <<>> = 1 .. 0
      OBVIOUS
    <3> QED  BY <3>1, <3>2, <3>3
  <2>4. closing # "freed"
    BY <1>1, <2>1 DEF TxHand
  <2>5. TxType' /\ TxHand'
    BY <1>1, <1>2, <2>1, <2>2, <2>3, <2>4 DEF TxType, TxHand
  <2>6. transmitHand = <<>>
    BY <1>1, <2>1 DEF TxHand
  <2>7. Transmit!PoolIsWhole'
    BY <1>1, <2>1, <2>2, <2>3, <2>6
    DEF TxInv, TxType, Transmit!PoolIsWhole, Transmit!BufferCount, Transmit!NoFrame
  <2> QED  BY <1>1, <1>2, <2>5, <2>7 DEF TxInv
<1>4. CASE Transmit!DropFrame \/ Transmit!SendEnds
  <2>1. /\ txLoop \in {"encode", "send"} /\ txLoop' = "select" /\ transmitHand' = <<>>
        /\ pcm' = pcm /\ free' = IF free < QueueDepth + 1 THEN free + 1 ELSE free
    BY <1>4 DEF Transmit!DropFrame, Transmit!SendEnds, Transmit!GiveBack, Transmit!NoFrame,
         Transmit!BufferCount
  <2>2. transmitHand # <<>> /\ closing # "freed"
    BY <1>1, <2>1 DEF TxHand
  <2>3. free + Len(pcm) + 1 = QueueDepth + 1
    BY <2>2 DEF TxInv, Transmit!PoolIsWhole, Transmit!BufferCount, Transmit!NoFrame
  <2>4. free' = free + 1 /\ free' \in Nat
    BY <1>1, <2>1, <2>3 DEF TxType
  <2>5. TxType' /\ TxHand'
    BY <1>1, <1>2, <2>1, <2>2, <2>4 DEF TxType, TxHand
  <2>6. Transmit!PoolIsWhole'
    BY <1>1, <2>1, <2>3, <2>4
    DEF TxType, Transmit!PoolIsWhole, Transmit!BufferCount, Transmit!NoFrame
  <2> QED  BY <1>1, <1>2, <2>5, <2>6 DEF TxInv
<1>5. CASE Transmit!Encode \/ Transmit!TxLoopReturns
  <2>1. /\ UNCHANGED <<free, pcm, transmitHand>>
        /\ \/ txLoop = "encode" /\ txLoop' = "send"
           \/ txLoop = "select" /\ txLoop' = "returned"
    BY <1>5 DEF Transmit!Encode, Transmit!TxLoopReturns
  <2>2. TxType' /\ TxHand'
    BY <1>1, <1>2, <2>1 DEF TxType, TxHand
  <2>3. Transmit!PoolIsWhole'
    BY <2>1 DEF TxInv, Transmit!PoolIsWhole, Transmit!BufferCount, Transmit!NoFrame
  <2> QED  BY <1>1, <1>2, <2>2, <2>3 DEF TxInv
<1> QED  BY <1>3, <1>4, <1>5

\* The steps of the edges, of packets and of Close leave the frames alone, and
\* the encoder goes after txLoop (EndTransmission, txSend, Close).
LEMMA TxRestKeeps ==
  ASSUME TxInv, UNCHANGED <<acc, accGen, free, pcm, transmitHand>>,
         transmitGen' \in Nat, read' \in [Loops -> Nat], numbered' = seqs', TxHand'
  PROVE  TxInv'
<1>1. TxType'
  BY DEF TxInv, TxType
<1>2. Transmit!PoolIsWhole'
  BY DEF TxInv, Transmit!PoolIsWhole, Transmit!BufferCount, Transmit!NoFrame
<1> QED  BY <1>1, <1>2 DEF TxInv

\* Every step of the edges, of the DSP loops, of txLoop and of Close keeps the
\* invariant.
LEMMA TxStep == TxInv /\ [Transmit!Next]_transmitVars => TxInv'
<1> SUFFICES ASSUME TxInv, [Transmit!Next]_transmitVars PROVE TxInv'
  OBVIOUS
<1>0. transmitGen \in Nat /\ read \in [Loops -> Nat] /\ numbered = seqs /\ TxHand
  BY DEF TxInv, TxType
<1>1. CASE Transmit!EndTransmission
  <2>1. /\ UNCHANGED <<acc, accGen, free, pcm, transmitHand, read, numbered, seqs, txLoop, closing>>
        /\ transmitGen' = transmitGen + 1
    BY <1>1 DEF Transmit!EndTransmission
  <2> QED  BY <1>0, <2>1, TxRestKeeps DEF TxHand
<1>2. CASE Transmit!SetTXFrequencies \/ Transmit!ReleaseLast \/ Transmit!ClearTargets
  <2>1. UNCHANGED <<acc, accGen, free, pcm, transmitHand, read, numbered, seqs, txLoop, closing,
                    transmitGen>>
    BY <1>2 DEF Transmit!SetTXFrequencies, Transmit!ReleaseLast, Transmit!ClearTargets
  <2> QED  BY <1>0, <2>1, TxRestKeeps DEF TxHand
<1>3. ASSUME NEW l \in Loops, Transmit!LoadTargets(l) PROVE TxInv'
  <2>1. UNCHANGED <<acc, accGen, free, pcm, transmitHand, read, numbered, seqs, txLoop, closing,
                    transmitGen>>
    BY <1>3 DEF Transmit!LoadTargets
  <2> QED  BY <1>0, <2>1, TxRestKeeps DEF TxHand
<1>4. ASSUME NEW l \in Loops, Transmit!LoadGen(l) PROVE TxInv'
  <2>1. /\ UNCHANGED <<acc, accGen, free, pcm, transmitHand, numbered, seqs, txLoop, closing,
                       transmitGen>>
        /\ read' = [read EXCEPT ![l] = transmitGen]
    BY <1>4 DEF Transmit!LoadGen
  <2> QED  BY <1>0, <2>1, TxRestKeeps DEF TxHand
<1>5. ASSUME NEW l \in Loops, Transmit!Accumulate(l) PROVE TxInv'
  BY <1>5, TxAccumulateKeeps
<1>6. CASE \/ Transmit!Take \/ Transmit!DropFrame \/ Transmit!Encode \/ Transmit!SendEnds
           \/ Transmit!TxLoopReturns
  BY <1>6, TxLoopKeeps
<1>7. ASSUME NEW f \in Freqs, Transmit!SendPacket(f) PROVE TxInv'
  <2>1. /\ UNCHANGED <<acc, accGen, free, pcm, transmitHand, read, txLoop, closing, transmitGen>>
        /\ seqs' = [seqs EXCEPT ![f] = (seqs[f] + 1) % TransmitSeqMod]
        /\ numbered' = [numbered EXCEPT ![f] = (seqs[f] + 1) % TransmitSeqMod]
    BY <1>7 DEF Transmit!SendPacket, Transmit!Count
  <2> QED  BY <1>0, <2>1, TxRestKeeps DEF TxHand
<1>8. CASE Transmit!Close
  <2>1. /\ UNCHANGED <<acc, accGen, free, pcm, transmitHand, read, numbered, seqs, txLoop,
                       transmitGen>>
        /\ closing' = "done"
    BY <1>8 DEF Transmit!Close
  <2> QED  BY <1>0, <2>1, TxRestKeeps DEF TxHand
<1>9. CASE Transmit!FreeEncoder
  <2>1. /\ UNCHANGED <<acc, accGen, free, pcm, transmitHand, read, numbered, seqs, txLoop,
                       transmitGen>>
        /\ txLoop = "returned"
    BY <1>9 DEF Transmit!FreeEncoder, Transmit!Joined
  <2> QED  BY <1>0, <2>1, TxRestKeeps DEF TxHand
<1>10. CASE UNCHANGED transmitVars
  <2>1. UNCHANGED <<acc, accGen, free, pcm, transmitHand, read, numbered, seqs, txLoop, closing,
                    transmitGen>>
    BY <1>10 DEF transmitVars
  <2> QED  BY <1>0, <2>1, TxRestKeeps DEF TxHand
<1> QED
  BY <1>1, <1>2, <1>3, <1>4, <1>5, <1>6, <1>7, <1>8, <1>9, <1>10 DEF Transmit!Next

\* What the transmit path keeps follows from it.
LEMMA TxHolds == TxInv => Transmit!TransmitIsFaithful
<1> SUFFICES ASSUME TxInv PROVE Transmit!TransmitIsFaithful
  OBVIOUS
<1>1. Transmit!NoFrameSpansAPress
  <2> SUFFICES ASSUME NEW g \in {pcm[i] : i \in DOMAIN pcm} \cup {transmitHand}, g # <<>>
               PROVE  g[1] = g[2]
    BY DEF Transmit!NoFrameSpansAPress, Transmit!NoFrame
  <2>1. pcm \in Seq(TxPure) /\ transmitHand \in TxPure \cup {<<>>}
    BY DEF TxInv, TxType
  <2>2. \A i \in DOMAIN pcm : pcm[i] \in TxPure
    BY <2>1
  <2>3. g \in TxPure
    BY <2>1, <2>2
  <2> QED  BY <2>3 DEF TxPure
<1>2. Transmit!NumbersAreConsecutive
  BY DEF TxInv, Transmit!NumbersAreConsecutive
<1>3. Transmit!EncoderOutlivesUse
  BY DEF TxInv, TxHand, Transmit!EncoderOutlivesUse, Transmit!NoFrame
<1> QED  BY <1>1, <1>2, <1>3 DEF TxInv, Transmit!TransmitIsFaithful

(***************************************************************************)
(* The ring between the device and the DSP goroutine                       *)
(***************************************************************************)

\* What is proved of the path.
Facts == INSTANCE CapturePathProofs WITH frames <- framesToRead, lost <- skipped

\* The bounds are those of the path.
LEMMA PathBounded == Facts!PathAssumption
BY PathBounds
DEF Path!PathAssumption, Facts!PathAssumption, Path!Nothing, Facts!Nothing,
    Path!Samples, Facts!Samples, Path!Powers, Facts!Powers, Path!Holds, Facts!Holds

\* A behaviour of the session's parts is one of the path (Ring, push, dspLoop).
LEMMA PathRuns == SideSpec => Facts!Spec
<1>1. SideInit => Facts!Init
  BY DEF SideInit, Path!Init, Facts!Init, Path!Nothing, Facts!Nothing
<1>2. [SideNext]_allVars => [Facts!Next]_(Facts!vars)
  <2> SUFFICES ASSUME [SideNext]_allVars PROVE [Facts!Next]_(Facts!vars)
    OBVIOUS
  <2>1. CASE Path!Next
    BY <2>1
    DEF Path!Nothing, Facts!Nothing, Path!Samples, Facts!Samples, Path!Slot, Facts!Slot,
        Path!Deliver, Facts!Deliver, Path!Remainder, Facts!Remainder, Path!Cut,
        Facts!Cut, Path!Free, Facts!Free, Path!LoadRead, Facts!LoadRead, Path!Complete,
        Facts!Complete, Path!CopyIn, Facts!CopyIn, Path!StoreWrite, Facts!StoreWrite,
        Path!Tick, Facts!Tick, Path!DrainsTo, Facts!DrainsTo, Path!LoadWrite,
        Facts!LoadWrite, Path!Jump, Facts!Jump, Path!Within, Facts!Within, Path!Plans,
        Facts!Plans, Path!Plan, Facts!Plan, Path!ReadBegins, Facts!ReadBegins,
        Path!CopyOut, Facts!CopyOut, Path!Taken, Facts!Taken, Path!StoreRead,
        Facts!StoreRead, Path!Next, Facts!Next, Path!ring, Facts!ring, Path!callback,
        Facts!callback, Path!loop, Facts!loop, Path!history, Facts!history, Path!vars,
        Facts!vars
  <2>2. CASE UNCHANGED pathVars
    BY <2>2 DEF pathVars, Facts!vars, Facts!ring, Facts!callback, Facts!loop, Facts!history
  <2> QED  BY <2>1, <2>2 DEF SideNext, allVars
<1> QED  BY <1>1, <1>2, PTL DEF SideSpec, Facts!Spec

\* What comes from the microphone is whole and in order (Write, Read, dspLoop).
LEMMA PathKept == SideSpec => []Path!CaptureIsFaithful
<1>1. SideSpec => []Facts!CaptureIsFaithful
  BY PathBounded, PathRuns, Facts!CaptureFaithful
<1>2. Facts!CaptureIsFaithful => Path!CaptureIsFaithful
  BY
  DEF Path!CaptureIsFaithful, Facts!CaptureIsFaithful, Path!FramesAreWhole,
      Facts!FramesAreWhole, Path!NothingVanishes, Facts!NothingVanishes,
      Path!NoSilenceInBetween, Facts!NoSilenceInBetween, Path!BacklogIsCleared,
      Facts!BacklogIsCleared, Path!Reads, Facts!Reads
<1> QED BY <1>1, <1>2, PTL

(***************************************************************************)
(* The reception of a talker                                               *)
(***************************************************************************)

\* Every frame was sent at a tick of the talker's, one after the other.
RxTalker ==
  /\ now \in Nat /\ receiveSent \in Seq(Nat)
  /\ \A i \in 1 .. Len(receiveSent) : receiveSent[i] <= now /\ receiveSent[i] % FrameDur = 0
  /\ \A i, j \in 1 .. Len(receiveSent) :
       i <= j => FrameDur * (j - i) <= receiveSent[j] - receiveSent[i]

\* rxVoice has a frame that came in time, of a stream that was open.
RxHand ==
  \/ hand = <<>>
  \/ /\ hand \in Nat \X Nat /\ hand[2] # 0 /\ hand[1] \in 1 .. Len(receiveSent)
     /\ now <= receiveSent[hand[1]] + MaxDelay

RxType ==
  /\ stream \in Nat /\ opened \in Nat /\ lastSeen \in Nat /\ ring \in Nat
  /\ frames \subseteq 1 .. Len(receiveSent)
  /\ stream # 0 => nextExpected \in 0 .. SeqMod - 1
  /\ primed \in BOOLEAN

\* A stream that does not play yet has been buffering for the target at most,
\* and less when the decode goroutine has seen what there is.
RxFilling ==
  stream # 0 /\ ~primed =>
    /\ ring = 0
    /\ \/ startAt = -1 /\ frames = {}
       \/ /\ startAt \in Nat /\ startAt <= now /\ frames # {}
          /\ now <= startAt + Target
          /\ service # "topUp" /\ ~wake => now < startAt + Target
          /\ \A f \in frames : startAt <= receiveSent[f] + MaxDelay

RxDistinct ==
  stream # 0 => \A f, g \in frames : Receive!Seq24(f) = Receive!Seq24(g) => f = g

RxInv == RxTalker /\ RxHand /\ RxType /\ RxFilling /\ RxDistinct /\ Receive!StreamFollowsTalker

\* What is assumed of the constants of the reception.
LEMMA RxBounds ==
  /\ FrameDur \in Nat \ {0} /\ Target \in Nat /\ MaxFrames \in Nat \ {0} /\ MaxDelay \in Nat
  /\ IdleTimeout \in Nat /\ SeqMod \in Nat \ {0, 1} /\ FirstSeq \in 0 .. SeqMod - 1
  /\ MaxDelay + Target < FrameDur * (SeqMod \div 2)
<1>1. /\ FrameDur \in Nat \ {0} /\ Target \in Nat /\ MaxFrames \in Nat \ {0} /\ MaxDelay \in Nat
      /\ IdleTimeout \in Nat /\ SeqMod \in Nat /\ FirstSeq \in 0 .. SeqMod - 1
      /\ MaxDelay + Target < FrameDur * (SeqMod \div 2)
      /\ AheadFactor \in Nat \ {0} /\ SeqMod > 2 * MaxFrames * AheadFactor
  BY ReceiveBounds DEF Receive!ReceiveAssumption
<1>2. 2 * MaxFrames * AheadFactor >= 2
  BY <1>1
<1> QED  BY <1>1, <1>2

\* What remains of a number that is not further from zero than the modulus.
LEMMA RxRemains ==
  ASSUME NEW m \in Nat \ {0}, NEW x \in Int
  PROVE  /\ x % m \in 0 .. m - 1
         /\ 0 <= x /\ x < m => x % m = x
         /\ -m <= x /\ x < 0 => x % m = x + m
         /\ m <= x /\ x < 2 * m => x % m = x - m
<1>1. x = m * (x \div m) + (x % m) /\ x \div m \in Int /\ x % m \in 0 .. m - 1
  OBVIOUS
<1>2. PICK q \in Int : q = x \div m
  BY <1>1
<1>3. q >= 2 => m * q >= 2 * m
  <2>1. q >= 2 => m * 1 + m <= m * q
    BY Facts!Multiples
  <2> QED  BY <2>1
<1>4. q <= -2 => m * q <= -2 * m
  <2>1. q <= -2 => m * q + m <= m * (-1)
    BY Facts!Multiples
  <2> QED  BY <2>1
<1>5. q = 0 \/ q = 1 \/ q = -1 \/ q >= 2 \/ q <= -2
  OBVIOUS
<1>6. /\ q = 0 => m * q = 0
      /\ q = 1 => m * q = m
      /\ q = -1 => m * q = -m
  OBVIOUS
<1>7. m * q \in Int /\ x = m * q + (x % m)
  BY <1>1, <1>2
<1> QED  BY <1>1, <1>3, <1>4, <1>5, <1>6, <1>7

\* Which sequence numbers seqLess takes to be behind another.
LEMMA RxBehind ==
  ASSUME NEW a \in 0 .. SeqMod - 1, NEW b \in 0 .. SeqMod - 1
  PROVE  ~Receive!SeqLess(a, b) <=>
           (IF a >= b THEN a - b ELSE a - b + SeqMod) < SeqMod \div 2
<1>1. SeqMod \in Nat \ {0, 1} /\ SeqMod \div 2 \in Nat /\ 2 * (SeqMod \div 2) <= SeqMod
  BY RxBounds
<1>2. (a - b) % SeqMod = IF a >= b THEN a - b ELSE a - b + SeqMod
  <2>1. a - b \in Int /\ SeqMod \in Nat \ {0}
    BY <1>1
  <2>3. /\ \A z \in Int : 0 <= z /\ z < SeqMod => z % SeqMod = z
        /\ \A z \in Int : -SeqMod <= z /\ z < 0 => z % SeqMod = z + SeqMod
        /\ \A z \in Int : SeqMod <= z /\ z < 2 * SeqMod => z % SeqMod = z - SeqMod
    BY <2>1, RxRemains
  <2>2. /\ 0 <= a - b => (a - b) % SeqMod = a - b
        /\ a - b < 0 => (a - b) % SeqMod = (a - b) + SeqMod
    BY <1>1, <2>1, <2>3
  <2> QED  BY <1>1, <2>2
<1> QED  BY <1>1, <1>2 DEF Receive!SeqLess, Receive!SeqDiff

\* Playing one number leaves none behind (advanceLocked).
LEMMA RxAdvances ==
  ASSUME NEW a \in 0 .. SeqMod - 1, NEW b \in 0 .. SeqMod - 1, a # b, ~Receive!SeqLess(a, b)
  PROVE  ~Receive!SeqLess(a, (b + 1) % SeqMod) /\ (b + 1) % SeqMod \in 0 .. SeqMod - 1
<1>1. SeqMod \in Nat \ {0, 1} /\ SeqMod \div 2 \in Nat /\ 2 * (SeqMod \div 2) <= SeqMod
  BY RxBounds
<1>2. (b + 1) % SeqMod = IF b + 1 = SeqMod THEN 0 ELSE b + 1
  <2>1. b + 1 \in Int /\ SeqMod \in Nat \ {0}
    BY <1>1
  <2>3. /\ \A z \in Int : 0 <= z /\ z < SeqMod => z % SeqMod = z
        /\ \A z \in Int : -SeqMod <= z /\ z < 0 => z % SeqMod = z + SeqMod
        /\ \A z \in Int : SeqMod <= z /\ z < 2 * SeqMod => z % SeqMod = z - SeqMod
    BY <2>1, RxRemains
  <2>2. /\ b + 1 < SeqMod => (b + 1) % SeqMod = b + 1
        /\ b + 1 = SeqMod => (b + 1) % SeqMod = 0
    BY <1>1, <2>1, <2>3
  <2> QED  BY <1>1, <2>2
<1>3. (b + 1) % SeqMod \in 0 .. SeqMod - 1
  BY <1>1, <1>2
<1>4. (IF a >= b THEN a - b ELSE a - b + SeqMod) < SeqMod \div 2
  BY RxBehind
<1> QED  BY <1>1, <1>2, <1>3, <1>4, RxBehind

\* The number a frame carries has 24 bits.
LEMMA RxSeqType == \A f \in Nat \ {0} : Receive!Seq24(f) \in 0 .. SeqMod - 1
  BY RxBounds, RxRemains DEF Receive!Seq24

\* Frames less than half a cycle apart are in the talker's order.
LEMMA RxOrder ==
  ASSUME NEW f \in Nat \ {0}, NEW g \in Nat \ {0}, f - g < SeqMod \div 2, g - f < SeqMod \div 2
  PROVE  Receive!SeqLess(Receive!Seq24(f), Receive!Seq24(g)) <=> f < g
<1>1. SeqMod \in Nat \ {0, 1} /\ SeqMod \div 2 \in Nat /\ 2 * (SeqMod \div 2) <= SeqMod
      /\ FirstSeq \in 0 .. SeqMod - 1
  BY RxBounds
<1> DEFINE x == FirstSeq + f - 1
           y == FirstSeq + g - 1
<1>2. x \in Nat /\ y \in Nat /\ x - y = f - g
  BY <1>1
<1>3. PICK a, p : a \in 0 .. SeqMod - 1 /\ p \in Nat /\ x = SeqMod * p + a /\ a = x % SeqMod
  <2>1. /\ x = SeqMod * (x \div SeqMod) + (x % SeqMod)
        /\ x \div SeqMod \in Nat /\ x % SeqMod \in 0 .. SeqMod - 1
    BY <1>1, <1>2, Facts!Division
  <2> QED  BY <2>1
<1>4. PICK b, q : b \in 0 .. SeqMod - 1 /\ q \in Nat /\ y = SeqMod * q + b /\ b = y % SeqMod
  <2>1. /\ y = SeqMod * (y \div SeqMod) + (y % SeqMod)
        /\ y \div SeqMod \in Nat /\ y % SeqMod \in 0 .. SeqMod - 1
    BY <1>1, <1>2, Facts!Division
  <2> QED  BY <2>1
<1>5. /\ Receive!Seq24(f) = a /\ Receive!Seq24(g) = b
  BY <1>3, <1>4 DEF Receive!Seq24
<1> HIDE DEF x, y
<1>6. ~Receive!SeqLess(a, b) <=> (IF a >= b THEN a - b ELSE a - b + SeqMod) < SeqMod \div 2
  BY <1>3, <1>4, RxBehind
<1>7. p < q + 2 /\ q < p + 2
  <2>1. SeqMod \in Nat \ {0} /\ SeqMod * p \in Nat /\ SeqMod * q \in Nat
    BY <1>1, <1>3, <1>4
  <2>2. ASSUME p >= q + 2 PROVE FALSE
    <3>1. SeqMod * (q + 1) + SeqMod <= SeqMod * p
      BY <1>3, <1>4, <2>1, <2>2, Facts!Multiples
    <3>2. SeqMod * (q + 1) = SeqMod * q + SeqMod
      BY <1>4, <2>1
    <3> QED  BY <1>1, <1>2, <1>3, <1>4, <2>1, <3>1, <3>2
  <2>3. ASSUME q >= p + 2 PROVE FALSE
    <3>1. SeqMod * (p + 1) + SeqMod <= SeqMod * q
      BY <1>3, <1>4, <2>1, <2>3, Facts!Multiples
    <3>2. SeqMod * (p + 1) = SeqMod * p + SeqMod
      BY <1>3, <2>1
    <3> QED  BY <1>1, <1>2, <1>3, <1>4, <2>1, <3>1, <3>2
  <2> QED  BY <1>3, <1>4, <2>2, <2>3
<1>8. CASE p = q
  <2>1. a - b = f - g
    <3>1. SeqMod * p \in Nat /\ SeqMod * p = SeqMod * q
      BY <1>1, <1>3, <1>8
    <3> QED  BY <1>2, <1>3, <1>4, <3>1
  <2> QED  BY <1>1, <1>3, <1>4, <1>5, <1>6, <2>1
<1>9. CASE p = q + 1
  <2>1. a - b = f - g - SeqMod
    <3>1. SeqMod * p = SeqMod * q + SeqMod /\ SeqMod * q \in Nat
      BY <1>1, <1>4, <1>9
    <3> QED  BY <1>1, <1>2, <1>3, <1>4, <3>1
  <2> QED  BY <1>1, <1>3, <1>4, <1>5, <1>6, <2>1
<1>10. CASE q = p + 1
  <2>1. a - b = f - g + SeqMod
    <3>1. SeqMod * q = SeqMod * p + SeqMod /\ SeqMod * p \in Nat
      BY <1>1, <1>3, <1>10
    <3> QED  BY <1>1, <1>2, <1>3, <1>4, <3>1
  <2> QED  BY <1>1, <1>3, <1>4, <1>5, <1>6, <2>1
<1> QED  BY <1>3, <1>4, <1>7, <1>8, <1>9, <1>10

\* Frames that were sent within the delay and the target of each other are less
\* than half a cycle apart.
LEMMA RxClose ==
  ASSUME RxTalker, NEW f \in 1 .. Len(receiveSent), NEW g \in 1 .. Len(receiveSent),
         receiveSent[f] - receiveSent[g] <= MaxDelay + Target
  PROVE  f - g < SeqMod \div 2
<1>1. CASE f <= g
  BY <1>1, RxBounds
<1>2. CASE g < f
  <2>1. FrameDur * (f - g) <= receiveSent[f] - receiveSent[g]
    BY <1>2 DEF RxTalker
  <2>2. receiveSent[f] \in Nat /\ receiveSent[g] \in Nat
    BY DEF RxTalker
  <2>3. /\ FrameDur \in Nat \ {0} /\ SeqMod \div 2 \in Nat /\ f - g \in Nat
        /\ MaxDelay + Target \in Nat /\ MaxDelay + Target < FrameDur * (SeqMod \div 2)
    BY <1>2, RxBounds
  <2>4. CASE f - g >= SeqMod \div 2
    <3>1. FrameDur * (SeqMod \div 2) <= FrameDur * (f - g)
      <4>1. CASE f - g = SeqMod \div 2
        BY <2>3, <4>1
      <4>2. CASE f - g > SeqMod \div 2
        <5>1. FrameDur * (SeqMod \div 2) + FrameDur <= FrameDur * (f - g)
          BY <2>3, <4>2, Facts!Multiples
        <5> QED  BY <2>3, <5>1
      <4> QED  BY <2>3, <2>4, <4>1, <4>2
    <3>2. FrameDur * (f - g) \in Nat /\ FrameDur * (SeqMod \div 2) \in Nat
      BY <2>3
    <3> QED  BY <2>1, <2>2, <2>3, <3>1, <3>2
  <2> QED  BY <2>3, <2>4
<1> QED  BY <1>1, <1>2

\* Numbers have a least one.
LEMMA RxLeast ==
  ASSUME NEW S \in SUBSET Nat, S # {}
  PROVE  \E o \in S : \A f \in S : o <= f
<1> DEFINE R == OpToRel(<, Nat)
<1>1. IsWellFoundedOn(R, Nat)
  BY Zenon, NatLessThanWellFounded
<1>2. \A x, y \in Nat : y < x => <<y, x>> \in R
  BY DEF OpToRel
<1> HIDE DEF R
<1>3. PICK x \in S : \A y \in S : ~ (<<y, x>> \in R)
  BY Zenon, <1>1, WFMin
<1>4. \A y \in S : ~ (y < x)
  BY Zenon, <1>2, <1>3
<1> QED  BY <1>4

\* Of the frames a filling buffer holds, one was sent first.
LEMMA RxOldest ==
  ASSUME RxInv, stream # 0, ~primed, frames # {}
  PROVE  /\ Receive!Oldest(frames) \in frames
         /\ \A f \in frames :
              ~Receive!SeqLess(Receive!Seq24(f), Receive!Seq24(Receive!Oldest(frames)))
<1>1. frames \subseteq Nat \ {0} /\ frames \subseteq 1 .. Len(receiveSent)
  BY DEF RxInv, RxType
<1>2. PICK o \in frames : \A f \in frames : o <= f
  <2>1. \E n \in Nat : n \in frames
    BY <1>1
  <2>2. frames \subseteq Nat
    BY <1>1
  <2> QED  BY <2>1, <2>2, RxLeast
<1>3. ASSUME NEW f \in frames
      PROVE  ~Receive!SeqLess(Receive!Seq24(f), Receive!Seq24(o))
  <2>1. /\ RxTalker /\ startAt \in Nat /\ now <= startAt + Target /\ now \in Nat
        /\ startAt <= receiveSent[o] + MaxDelay /\ startAt <= receiveSent[f] + MaxDelay
    BY DEF RxInv, RxFilling, RxTalker
  <2>2. /\ receiveSent[f] \in Nat /\ receiveSent[o] \in Nat
        /\ receiveSent[f] <= now /\ receiveSent[o] <= now
    BY <1>1, <2>1 DEF RxTalker
  <2>3. /\ receiveSent[f] - receiveSent[o] <= MaxDelay + Target
        /\ receiveSent[o] - receiveSent[f] <= MaxDelay + Target
    BY <2>1, <2>2, RxBounds
  <2>4. f - o < SeqMod \div 2 /\ o - f < SeqMod \div 2
    BY <1>1, <2>1, <2>3, RxClose
  <2>5. ~(f < o)
    BY <1>1, <1>2
  <2> QED  BY <1>1, <2>4, <2>5, RxOrder
<1> QED  BY <1>2, <1>3 DEF Receive!Oldest

\* The slot pop goes by has nothing in the buffer behind it (Playout).
LEMMA RxPlayout ==
  ASSUME RxInv, stream # 0, ~Receive!Priming
  PROVE  /\ primed \/ frames # {}
         /\ frames # {} => Receive!Playout.next \in 0 .. SeqMod - 1
         /\ \A f \in frames : ~Receive!SeqLess(Receive!Seq24(f), Receive!Playout.next)
<1>1. CASE primed
  <2>1. Receive!Playout.next = nextExpected
    BY <1>1 DEF Receive!Playout
  <2>2. nextExpected \in 0 .. SeqMod - 1
    BY DEF RxInv, RxType
  <2>3. \A f \in frames : ~Receive!SeqLess(Receive!Seq24(f), nextExpected)
    BY <1>1 DEF RxInv, Receive!StreamFollowsTalker, Receive!NothingBehindPlayout, Receive!None
  <2> QED  BY <1>1, <2>1, <2>2, <2>3
<1>2. CASE ~primed
  <2>1. frames # {}
    BY <1>2 DEF Receive!Priming
  <2>2. Receive!Playout.next = Receive!Seq24(Receive!Oldest(frames))
    BY <1>2 DEF Receive!Playout
  <2>3. Receive!Oldest(frames) \in Nat \ {0}
    <3>1. Receive!Oldest(frames) \in frames
      BY <1>2, <2>1, RxOldest
    <3>2. \A f \in frames : f \in Nat \ {0}
      BY DEF RxInv, RxType
    <3> QED  BY <3>1, <3>2
  <2> QED  BY <1>2, <2>1, <2>2, <2>3, RxOldest, RxSeqType
<1> QED  BY <1>1, <1>2

\* A session that has received nothing keeps the invariant.
LEMMA RxInitial == Receive!Init => RxInv
<1> SUFFICES ASSUME Receive!Init PROVE RxInv
  OBVIOUS
<1>1. /\ now = 0 /\ receiveSent = <<>> /\ hand = <<>> /\ stream = 0 /\ opened = 0
      /\ frames = {} /\ nextExpected = 0 /\ lastSeen = 0 /\ ring = 0 /\ primed = FALSE
  BY DEF Receive!Init, Receive!Nothing, Receive!None
<1>2. Len(receiveSent) = 0 /\ receiveSent \in Seq(Nat)
  BY <1>1, EmptySeq
<1>3. RxTalker
  BY <1>1, <1>2 DEF RxTalker
<1>4. RxType
  <2>1. 0 \in 0 .. SeqMod - 1
    BY RxBounds
  <2>2. frames \subseteq 1 .. Len(receiveSent) /\ primed \in BOOLEAN
    BY <1>1
  <2> QED  BY <1>1, <2>1, <2>2 DEF RxType
<1>5. RxHand /\ RxFilling /\ RxDistinct /\ Receive!StreamFollowsTalker
  BY <1>1 DEF RxHand, RxFilling, RxDistinct, Receive!StreamFollowsTalker,
       Receive!NothingBehindPlayout, Receive!SilentStreamIsReaped, Receive!None
<1> QED  BY <1>3, <1>4, <1>5 DEF RxInv

\* rxStreamFor opens a stream that holds nothing.
LEMMA RxArriveKeeps ==
  ASSUME RxInv, NEW i, Receive!Arrive(i)
  PROVE  RxInv'
<1>1. /\ i \in 1 .. Len(receiveSent) /\ now - receiveSent[i] <= MaxDelay
      /\ hand' = <<i, stream'>>
      /\ UNCHANGED <<now, receiveSent, service, wake>>
  BY DEF Receive!Arrive
<1>2. /\ RxTalker /\ RxType /\ now \in Nat /\ MaxDelay \in Nat /\ receiveSent[i] \in Nat
      /\ i \in Nat
  BY <1>1, RxBounds DEF RxInv, RxTalker
<1>3. RxTalker'
  BY <1>1, <1>2 DEF RxTalker
<1>4. hand' # <<>>
  BY <1>1
<1>5. CASE stream = 0
  <2>1. /\ opened' = opened + 1 /\ stream' = opened' /\ lastSeen' = now /\ ring' = 0
        /\ frames' = {} /\ startAt' = -1 /\ primed' = FALSE /\ nextExpected' = 0
    BY <1>5 DEF Receive!Arrive, Receive!FreshJitter, Receive!None, Receive!Never
  <2>2. stream' \in Nat \ {0} /\ opened' \in Nat
    BY <1>2, <2>1 DEF RxType
  <2>3. RxType'
    <3>1. 0 \in 0 .. SeqMod - 1
      BY RxBounds
    <3>2. /\ stream' \in Nat /\ opened' \in Nat /\ lastSeen' \in Nat /\ ring' \in Nat
      BY <1>2, <2>1, <2>2
    <3>3. frames' \subseteq 1 .. Len(receiveSent') /\ primed' \in BOOLEAN
      BY <2>1
    <3> QED  BY <2>1, <3>1, <3>2, <3>3 DEF RxType
  <2>4. RxHand'
    <3>1. hand'[1] = i /\ hand'[2] = stream' /\ hand' \in Nat \X Nat
      BY <1>1, <1>2, <2>2
    <3>2. now' <= receiveSent'[i] + MaxDelay
      BY <1>1, <1>2
    <3> QED  BY <1>1, <2>2, <3>1, <3>2 DEF RxHand
  <2>5. RxFilling' /\ RxDistinct'
    BY <2>1 DEF RxFilling, RxDistinct
  <2>6. Receive!StreamFollowsTalker'
    BY <1>4, <2>1 DEF Receive!StreamFollowsTalker, Receive!NothingBehindPlayout,
         Receive!SilentStreamIsReaped, Receive!Nothing
  <2> QED  BY <1>3, <2>3, <2>4, <2>5, <2>6 DEF RxInv
<1>6. CASE stream # 0
  <2>1. UNCHANGED <<opened, stream, lastSeen, ring, frames, startAt, primed, nextExpected>>
    BY <1>6 DEF Receive!Arrive, Receive!None, Receive!jitterVars
  <2>2. RxType'
    BY <1>1, <1>2, <2>1 DEF RxType
  <2>3. RxHand'
    <3>1. stream' \in Nat /\ stream' # 0
      BY <1>2, <1>6, <2>1 DEF RxType
    <3>2. hand'[1] = i /\ hand'[2] = stream' /\ hand' \in Nat \X Nat
      BY <1>1, <1>2, <3>1
    <3>3. now' <= receiveSent'[i] + MaxDelay
      BY <1>1, <1>2
    <3> QED  BY <1>1, <3>1, <3>2, <3>3 DEF RxHand
  <2>4. RxFilling' /\ RxDistinct'
    BY <1>1, <2>1 DEF RxInv, RxFilling, RxDistinct
  <2>5. Receive!StreamFollowsTalker'
    BY <1>4, <2>1 DEF RxInv, Receive!StreamFollowsTalker, Receive!NothingBehindPlayout,
         Receive!SilentStreamIsReaped, Receive!Nothing
  <2> QED  BY <1>3, <2>2, <2>3, <2>4, <2>5 DEF RxInv
<1> QED  BY <1>5, <1>6

\* Sets are counted alike in the reception's module.
LEMMA RxCount == \A S : Receive!Cardinality(S) = Cardinality(S)
  BY Zenon DEF Receive!Cardinality, Cardinality

\* A frame the buffer takes is not behind the playout and not there yet, and
\* there is something in the buffer then (push).
LEMMA RxPushes ==
  ASSUME RxInv, stream # 0, NEW i \in 1 .. Len(receiveSent), now <= receiveSent[i] + MaxDelay,
         Receive!Push(i), UNCHANGED <<now, receiveSent, stream, ring, service>>, wake'
  PROVE  /\ frames' \subseteq 1 .. Len(receiveSent)
         /\ RxFilling' /\ RxDistinct' /\ Receive!NothingBehindPlayout'
         /\ UNCHANGED <<primed, nextExpected>>
<1>1. UNCHANGED <<primed, nextExpected>>
  BY DEF Receive!Push
<1>2. CASE ~Receive!Accepts(i)
  <2>1. UNCHANGED <<frames, startAt>>
    BY <1>2 DEF Receive!Push
  <2>2. frames' \subseteq 1 .. Len(receiveSent)
    BY <2>1 DEF RxInv, RxType
  <2>3. RxFilling' /\ RxDistinct'
    BY <1>1, <2>1 DEF RxInv, RxFilling, RxDistinct
  <2>4. Receive!NothingBehindPlayout'
    BY <1>1, <2>1 DEF RxInv, Receive!StreamFollowsTalker, Receive!NothingBehindPlayout
  <2> QED  BY <1>1, <2>2, <2>3, <2>4
<1>3. CASE Receive!Accepts(i)
  <2> DEFINE full == frames \cup {i}
             made == IF Receive!Cardinality(full) > MaxFrames THEN {Receive!Oldest(full)} ELSE {}
  <2>1. /\ frames' = full \ made
        /\ startAt' = IF startAt = -1 THEN now ELSE startAt
    BY <1>3 DEF Receive!Push, Receive!Never
  <2>2. frames' # {}
    <3>1. ASSUME frames' = {} PROVE FALSE
      <4>1. full \subseteq made /\ i \in made
        BY <2>1, <3>1
      <4>2. made = {Receive!Oldest(full)} /\ Receive!Cardinality(full) > MaxFrames
        BY <4>1
      <4>3. full = {i}
        BY <4>1, <4>2
      <4>4. Cardinality({i}) = 1
        BY FS_Singleton
      <4>5. Receive!Cardinality(full) = 1
        BY <4>3, <4>4, RxCount
      <4> HIDE DEF full, made
      <4> QED  BY <4>2, <4>5, RxBounds
    <3> QED  BY <3>1
  <2>3. \A f \in frames' : f \in frames \/ f = i
    BY <2>1
  <2> HIDE DEF full, made
  <2>4. frames' \subseteq 1 .. Len(receiveSent)
    BY <2>3 DEF RxInv, RxType
  <2>5. RxFilling'
    <3> SUFFICES ASSUME ~primed PROVE RxFilling'
      BY <1>1 DEF RxFilling
    <3>1. /\ ring = 0
          /\ \/ startAt = -1 /\ frames = {}
             \/ /\ startAt \in Nat /\ startAt <= now /\ now <= startAt + Target
                /\ \A f \in frames : startAt <= receiveSent[f] + MaxDelay
      BY DEF RxInv, RxFilling
    <3>2. now \in Nat /\ receiveSent[i] \in Nat /\ Target \in Nat /\ MaxDelay \in Nat
      BY RxBounds DEF RxInv, RxTalker
    <3>3. startAt' \in Nat /\ startAt' <= now /\ now <= startAt' + Target
      BY <2>1, <3>1, <3>2
    <3>4. ASSUME NEW f \in frames' PROVE startAt' <= receiveSent[f] + MaxDelay
      <4>1. CASE f = i
        BY <3>2, <3>3, <4>1
      <4>2. CASE f \in frames
        <5>1. startAt # -1
          BY <3>1, <4>2
        <5> QED  BY <2>1, <3>1, <4>2, <5>1
      <4> QED  BY <2>3, <4>1, <4>2
    <3> QED  BY <1>1, <2>2, <3>1, <3>3, <3>4 DEF RxFilling
  <2>6. RxDistinct'
    <3>1. Receive!Seq24(i) \notin {Receive!Seq24(f) : f \in frames}
      BY <1>3 DEF Receive!Accepts
    <3>2. \A f, g \in frames : Receive!Seq24(f) = Receive!Seq24(g) => f = g
      BY DEF RxInv, RxDistinct
    <3> QED  BY <2>3, <3>1, <3>2 DEF RxDistinct, Receive!Seq24
  <2>7. Receive!NothingBehindPlayout'
    <3> SUFFICES ASSUME primed, NEW f \in frames'
                 PROVE  ~Receive!SeqLess(Receive!Seq24(f), nextExpected)
      BY <1>1 DEF Receive!NothingBehindPlayout, Receive!SeqLess, Receive!SeqDiff, Receive!Seq24
    <3>1. ~Receive!SeqLess(Receive!Seq24(i), nextExpected)
      BY <1>3 DEF Receive!Accepts
    <3>2. f \in frames => ~Receive!SeqLess(Receive!Seq24(f), nextExpected)
      BY DEF RxInv, Receive!StreamFollowsTalker, Receive!NothingBehindPlayout, Receive!None
    <3> QED  BY <2>3, <3>1, <3>2
  <2> QED  BY <1>1, <2>4, <2>5, <2>6, <2>7
<1> QED  BY <1>2, <1>3

\* push takes a frame or drops it, and the first of a filling stream starts
\* the target (rxVoice, push).
LEMMA RxAdmitKeeps ==
  ASSUME RxInv, Receive!Admit
  PROVE  RxInv'
<1>1. /\ hand # <<>> /\ hand' = <<>> /\ wake' = TRUE
      /\ UNCHANGED <<now, receiveSent, stream, opened, ring, service>>
  BY DEF Receive!Admit, Receive!Nothing
<1>2. RxTalker /\ RxType
  BY DEF RxInv
<1>3. RxTalker' /\ RxHand'
  BY <1>1, <1>2 DEF RxTalker, RxHand
<1>4. Receive!SilentStreamIsReaped'
  BY <1>1 DEF Receive!SilentStreamIsReaped
<1>5. /\ hand[2] # 0 /\ hand[1] \in 1 .. Len(receiveSent)
      /\ now <= receiveSent[hand[1]] + MaxDelay
  BY <1>1 DEF RxInv, RxHand
<1>6. CASE hand[2] = stream
  <2>1. lastSeen' = now /\ Receive!Push(hand[1]) /\ stream # 0
    BY <1>5, <1>6 DEF Receive!Admit
  <2>2. PICK i \in 1 .. Len(receiveSent) : i = hand[1]
    BY <1>5
  <2>3. /\ frames' \subseteq 1 .. Len(receiveSent)
        /\ RxFilling' /\ RxDistinct' /\ Receive!NothingBehindPlayout'
        /\ UNCHANGED <<primed, nextExpected>>
    BY <1>1, <1>5, <2>1, <2>2, RxPushes
  <2>4. lastSeen' \in Nat
    BY <1>2, <2>1 DEF RxTalker
  <2>5. RxType'
    BY <1>1, <1>2, <2>3, <2>4 DEF RxType
  <2> QED  BY <1>3, <1>4, <2>3, <2>5 DEF RxInv, Receive!StreamFollowsTalker
<1>7. CASE hand[2] # stream
  <2>1. UNCHANGED <<lastSeen, frames, startAt, primed, nextExpected>>
    BY <1>7 DEF Receive!Admit, Receive!jitterVars
  <2>2. RxType'
    BY <1>1, <1>2, <2>1 DEF RxType
  <2>3. RxFilling' /\ RxDistinct' /\ Receive!NothingBehindPlayout'
    BY <1>1, <2>1 DEF RxInv, RxFilling, RxDistinct, Receive!StreamFollowsTalker,
         Receive!NothingBehindPlayout
  <2> QED  BY <1>3, <1>4, <2>2, <2>3 DEF RxInv, Receive!StreamFollowsTalker
<1> QED  BY <1>6, <1>7

\* What is played or conceded leaves nothing of it behind (pop).
LEMMA RxDecodeKeeps ==
  ASSUME RxInv, Receive!Decode
  PROVE  RxInv'
<1>1. /\ service = "topUp" /\ ring' = ring + FrameDur
      /\ UNCHANGED <<now, receiveSent, hand, stream, opened, lastSeen, service, wake>>
      /\ Receive!PopFrame \/ Receive!PopConcedes
      /\ ~Receive!Priming /\ Receive!Advance
  BY DEF Receive!Decode, Receive!PopFrame, Receive!PopConcedes, Receive!SlotMissing
<1>2. RxTalker /\ RxHand /\ RxType /\ FrameDur \in Nat
  BY RxBounds DEF RxInv
<1>3. RxTalker' /\ RxHand'
  BY <1>1, <1>2 DEF RxTalker, RxHand
<1>4. Receive!SilentStreamIsReaped'
  BY <1>1 DEF Receive!SilentStreamIsReaped
<1>5. primed' = TRUE /\ nextExpected' = (Receive!Playout.next + 1) % SeqMod
  BY <1>1 DEF Receive!Advance
<1>6. /\ frames # {} /\ frames' \subseteq frames
      /\ \A f \in frames' : Receive!Seq24(f) = Receive!Playout.next =>
           \E g \in frames : g \notin frames' /\ Receive!Seq24(g) = Receive!Playout.next
  <2>1. CASE Receive!PopFrame
    BY <2>1 DEF Receive!PopFrame
  <2>2. CASE Receive!PopConcedes
    BY <2>2 DEF Receive!PopConcedes, Receive!SlotMissing
  <2> QED  BY <1>1, <2>1, <2>2
<1>7. stream # 0 => nextExpected' \in 0 .. SeqMod - 1
  <2> SUFFICES ASSUME stream # 0 PROVE nextExpected' \in 0 .. SeqMod - 1
    OBVIOUS
  <2>1. Receive!Playout.next \in 0 .. SeqMod - 1
    BY <1>1, <1>6, RxPlayout
  <2>2. Receive!Playout.next + 1 \in Int /\ SeqMod \in Nat \ {0}
    BY <2>1, RxBounds
  <2> QED  BY <1>5, <2>2, RxRemains
<1>8. RxType'
  <2>1. ring' \in Nat
    BY <1>1, <1>2 DEF RxType
  <2> QED  BY <1>1, <1>2, <1>5, <1>6, <1>7, <2>1 DEF RxType
<1>9. RxFilling'
  BY <1>5 DEF RxFilling
<1>10. RxDistinct'
  BY <1>1, <1>6 DEF RxInv, RxDistinct, Receive!Seq24
<1>11. Receive!NothingBehindPlayout'
  <2> SUFFICES ASSUME stream # 0, NEW f \in frames'
               PROVE  ~Receive!SeqLess(Receive!Seq24(f), nextExpected')
    BY <1>1 DEF Receive!NothingBehindPlayout, Receive!None, Receive!SeqLess, Receive!SeqDiff,
         Receive!Seq24
  <2>1. Receive!Playout.next \in 0 .. SeqMod - 1 /\ f \in frames
        /\ ~Receive!SeqLess(Receive!Seq24(f), Receive!Playout.next)
    BY <1>1, <1>6, RxPlayout
  <2>2. Receive!Seq24(f) # Receive!Playout.next
    BY <1>6, <2>1 DEF RxInv, RxDistinct
  <2>3. Receive!Seq24(f) \in 0 .. SeqMod - 1
    BY <2>1, RxSeqType DEF RxInv, RxType
  <2> QED  BY <1>5, <2>1, <2>2, <2>3, RxAdvances
<1> QED  BY <1>3, <1>4, <1>8, <1>9, <1>10, <1>11 DEF RxInv, Receive!StreamFollowsTalker

\* topUp ends, and what still fills has not reached its target (topUp, pop).
LEMMA RxTopUpEnds ==
  ASSUME RxInv, Receive!EndTopUp
  PROVE  RxInv'
<1>1. /\ service = "topUp" /\ service' = "reap"
      /\ UNCHANGED <<now, receiveSent, hand, stream, opened, lastSeen, ring, wake>>
  BY DEF Receive!EndTopUp
<1>2. RxTalker /\ RxHand /\ RxType
  BY DEF RxInv
<1>3. RxTalker' /\ RxHand'
  BY <1>1, <1>2 DEF RxTalker, RxHand
<1>4. Receive!SilentStreamIsReaped'
  BY <1>1 DEF Receive!SilentStreamIsReaped
<1>5. Receive!Ahead > 0 /\ Receive!Ahead \in Nat
  BY RxBounds DEF Receive!Ahead, Receive!Larger, Receive!Smaller
<1>6. CASE UNCHANGED <<frames, startAt, primed, nextExpected>>
           /\ (primed \/ Receive!Priming \/ ring > 0)
  <2>1. RxType' /\ RxDistinct' /\ Receive!NothingBehindPlayout'
    BY <1>1, <1>2, <1>6 DEF RxInv, RxType, RxDistinct, Receive!StreamFollowsTalker,
         Receive!NothingBehindPlayout
  <2>2. RxFilling'
    BY <1>1, <1>6 DEF RxInv, RxFilling, Receive!Priming, Receive!Never
  <2> QED  BY <1>3, <1>4, <2>1, <2>2 DEF RxInv, Receive!StreamFollowsTalker
<1>7. CASE Receive!PopWaits
  <2>1. /\ primed' = TRUE /\ nextExpected' = Receive!Playout.next /\ frames' = frames
        /\ ~Receive!Priming /\ frames # {}
    BY <1>7 DEF Receive!PopWaits, Receive!SlotMissing
  <2>2. RxFilling'
    BY <2>1 DEF RxFilling
  <2>3. RxDistinct'
    BY <1>1, <2>1 DEF RxInv, RxDistinct
  <2>4. Receive!NothingBehindPlayout'
    <3> SUFFICES ASSUME stream # 0, NEW f \in frames
                 PROVE  ~Receive!SeqLess(Receive!Seq24(f), Receive!Playout.next)
      BY <1>1, <2>1 DEF Receive!NothingBehindPlayout, Receive!None, Receive!SeqLess,
           Receive!SeqDiff, Receive!Seq24
    <3> QED  BY <2>1, RxPlayout
  <2>5. RxType'
    <3>1. stream # 0 => nextExpected' \in 0 .. SeqMod - 1
      BY <2>1, RxPlayout
    <3> QED  BY <1>1, <1>2, <2>1, <3>1 DEF RxType
  <2> QED  BY <1>3, <1>4, <2>2, <2>3, <2>4, <2>5 DEF RxInv, Receive!StreamFollowsTalker
<1>8. ring >= Receive!Ahead => ring > 0
  BY <1>2, <1>5 DEF RxType
<1> QED
  BY <1>6, <1>7, <1>8 DEF Receive!EndTopUp, Receive!PopPriming, Receive!PopDry, Receive!Priming,
       Receive!jitterVars

\* The decode goroutine parks and wakes, and reaps what was silent for too long
\* (rxService, reap).
LEMMA RxRestKeeps ==
  ASSUME RxInv, Receive!StartService \/ Receive!Reap
  PROVE  RxInv'
<1>1. /\ UNCHANGED <<now, receiveSent, hand, opened, lastSeen, ring, frames, startAt, primed,
                     nextExpected>>
      /\ stream' = stream \/ stream' = 0
  BY DEF Receive!StartService, Receive!Reap, Receive!jitterVars, Receive!None
<1>2. RxTalker /\ RxHand /\ RxType
  BY DEF RxInv
<1>3. RxTalker' /\ RxHand'
  BY <1>1, <1>2 DEF RxTalker, RxHand
<1>4. RxType' /\ RxDistinct' /\ Receive!NothingBehindPlayout'
  BY <1>1, <1>2 DEF RxInv, RxType, RxDistinct, Receive!StreamFollowsTalker,
       Receive!NothingBehindPlayout, Receive!None
<1>5. CASE Receive!StartService
  <2>1. /\ stream' = stream /\ stream # 0 => service' = "topUp"
        /\ service' \in {"parked", "topUp"}
    BY <1>5 DEF Receive!StartService, Receive!None
  <2>2. RxFilling'
    BY <1>1, <2>1 DEF RxInv, RxFilling
  <2>3. Receive!SilentStreamIsReaped'
    BY <1>1, <2>1 DEF Receive!SilentStreamIsReaped, Receive!None
  <2> QED  BY <1>3, <1>4, <2>2, <2>3 DEF RxInv, Receive!StreamFollowsTalker
<1>6. CASE Receive!Reap
  <2>1. /\ service = "reap" /\ service' = "parked" /\ wake' = wake
        /\ stream' = IF now - lastSeen >= IdleTimeout THEN 0 ELSE stream
    BY <1>6 DEF Receive!Reap, Receive!None
  <2>2. RxFilling'
    BY <1>1, <2>1 DEF RxInv, RxFilling
  <2>3. Receive!SilentStreamIsReaped'
    <3>1. now \in Nat /\ lastSeen \in Nat /\ IdleTimeout \in Nat
      BY <1>2, RxBounds DEF RxTalker, RxType
    <3>2. stream' # 0 => now - lastSeen < IdleTimeout
      BY <2>1, <3>1
    <3> QED  BY <1>1, <3>2 DEF Receive!SilentStreamIsReaped, Receive!None
  <2> QED  BY <1>3, <1>4, <2>2, <2>3 DEF RxInv, Receive!StreamFollowsTalker
<1> QED  BY <1>5, <1>6

\* Ticks that are whole frames apart are a frame apart at least.
LEMMA RxTicks ==
  ASSUME NEW m \in Nat, NEW n \in Nat, m % FrameDur = 0, n % FrameDur = 0, m < n
  PROVE  m + FrameDur <= n
<1>1. FrameDur \in Nat \ {0}
  BY RxBounds
<1>2. /\ m = FrameDur * (m \div FrameDur) /\ m \div FrameDur \in Nat
      /\ n = FrameDur * (n \div FrameDur) /\ n \div FrameDur \in Nat
  BY <1>1, Facts!Division
<1>3. PICK p, q : p \in Nat /\ q \in Nat /\ m = FrameDur * p /\ n = FrameDur * q
  BY <1>2
<1>4. p < q
  <2>1. q < p => FrameDur * q + FrameDur <= FrameDur * p
    BY <1>1, <1>3, Facts!Multiples
  <2>2. q = p => m = n
    BY <1>3
  <2> QED  BY <1>1, <1>3, <2>1, <2>2
<1> QED  BY <1>1, <1>3, <1>4, Facts!Multiples

\* The clock moves when the decode goroutine has done with everything.
LEMMA RxTickKeeps ==
  ASSUME RxInv, Receive!Tick
  PROVE  RxInv'
<1>1. /\ service = "parked" /\ ~wake /\ hand = <<>> /\ now' = now + 1 /\ wake' = TRUE
      /\ ring' = Receive!Larger(ring - 1, 0)
      /\ UNCHANGED <<hand, stream, opened, frames, startAt, primed, nextExpected, lastSeen, service>>
      /\ \/ now' % FrameDur = 0 /\ receiveSent' = Append(receiveSent, now')
         \/ receiveSent' = receiveSent
  BY DEF Receive!Tick, Receive!Nothing, Receive!jitterVars
<1>2. RxTalker /\ RxType /\ now \in Nat /\ FrameDur \in Nat \ {0} /\ Target \in Nat
      /\ Len(receiveSent) \in Nat
  BY RxBounds, LenProperties DEF RxInv, RxTalker
<1>3. RxTalker' /\ Len(receiveSent') >= Len(receiveSent) /\ Len(receiveSent') \in Nat
      /\ \A i \in 1 .. Len(receiveSent) : receiveSent'[i] = receiveSent[i]
  <2>1. CASE receiveSent' = receiveSent
    <3>1. now' \in Nat /\ \A i \in 1 .. Len(receiveSent) : receiveSent[i] <= now'
      <4>1. \A i \in 1 .. Len(receiveSent) : receiveSent[i] <= now /\ receiveSent[i] \in Nat
        BY <1>2 DEF RxTalker
      <4> QED  BY <1>1, <1>2, <4>1
    <3> QED  BY <1>2, <2>1, <3>1 DEF RxTalker
  <2>2. CASE now' % FrameDur = 0 /\ receiveSent' = Append(receiveSent, now')
    <3>1. PICK n : n = Len(receiveSent)
      OBVIOUS
    <3>2. now' \in Nat /\ receiveSent \in Seq(Nat) /\ n \in Nat
      BY <1>1, <1>2, <3>1 DEF RxTalker
    <3>3. /\ receiveSent' \in Seq(Nat) /\ Len(receiveSent') = n + 1
          /\ receiveSent'[n + 1] = now'
          /\ \A i \in 1 .. n : receiveSent'[i] = receiveSent[i]
      BY <2>2, <3>1, <3>2, AppendProperties
    <3>4. \A i \in 1 .. n + 1 : i \in 1 .. n \/ i = n + 1
      BY <3>2
    <3>5. \A i \in 1 .. n : /\ receiveSent[i] \in Nat /\ receiveSent[i] <= now
                            /\ receiveSent[i] % FrameDur = 0
      BY <1>2, <3>1 DEF RxTalker
    <3>6. \A i \in 1 .. n : receiveSent[i] + FrameDur <= now'
      <4>1. \A i \in 1 .. n : receiveSent[i] < now'
        BY <1>1, <1>2, <3>5
      <4> QED  BY <2>2, <3>2, <3>5, <4>1, RxTicks
    <3>7. \A i \in 1 .. n + 1 : receiveSent'[i] <= now' /\ receiveSent'[i] % FrameDur = 0
      <4>1. \A i \in 1 .. n : receiveSent[i] <= now'
        BY <1>1, <1>2, <3>5
      <4> QED  BY <2>2, <3>2, <3>3, <3>4, <3>5, <4>1
    <3>8. ASSUME NEW i \in 1 .. n + 1, NEW j \in 1 .. n + 1, i <= j
          PROVE  FrameDur * (j - i) <= receiveSent'[j] - receiveSent'[i]
      <4>1. CASE j \in 1 .. n
        <5>1. i \in 1 .. n
          BY <3>2, <3>8, <4>1
        <5> QED  BY <1>2, <3>1, <3>3, <3>8, <4>1, <5>1 DEF RxTalker
      <4>2. CASE j = n + 1 /\ i = n + 1
        BY <1>2, <3>2, <3>3, <4>2
      <4>3. CASE j = n + 1 /\ i \in 1 .. n
        <5>1. n \in 1 .. n /\ i <= n
          BY <3>2, <4>3
        <5>2. FrameDur * (n - i) <= receiveSent[n] - receiveSent[i]
          BY <1>2, <3>1, <4>3, <5>1 DEF RxTalker
        <5>3. receiveSent[n] + FrameDur <= now' /\ receiveSent[n] \in Nat /\ receiveSent[i] \in Nat
          BY <3>5, <3>6, <4>3, <5>1
        <5>4. FrameDur * ((n + 1) - i) = FrameDur * (n - i) + FrameDur /\ FrameDur * (n - i) \in Nat
          BY <1>2, <3>2, <4>3, <5>1
        <5>5. receiveSent'[j] = now' /\ receiveSent'[i] = receiveSent[i]
          BY <3>3, <4>3
        <5>6. PICK d, a, b, c, e : /\ d = FrameDur * (n - i) /\ a = receiveSent[n]
                                   /\ b = receiveSent[i] /\ c = now' /\ e = FrameDur * ((n + 1) - i)
          OBVIOUS
        <5>7. /\ d \in Nat /\ a \in Nat /\ b \in Nat /\ c \in Nat
              /\ d <= a - b /\ a + FrameDur <= c /\ e = d + FrameDur
          BY <3>2, <5>2, <5>3, <5>4, <5>6
        <5>8. e <= c - b
          BY <1>2, <5>7
        <5>9. FrameDur * (j - i) = e
          BY <4>3, <5>6
        <5> QED  BY <5>5, <5>6, <5>8, <5>9
      <4> QED  BY <3>4, <4>1, <4>2, <4>3
    <3>9. RxTalker'
      BY <3>2, <3>3, <3>7, <3>8 DEF RxTalker
    <3> QED  BY <3>1, <3>2, <3>3, <3>9
  <2> QED  BY <1>1, <2>1, <2>2
<1>4. RxHand'
  BY <1>1 DEF RxHand
<1>5. RxType'
  <2>1. ring' \in Nat
    BY <1>1, <1>2 DEF RxType, Receive!Larger
  <2>2. frames' \subseteq 1 .. Len(receiveSent')
    BY <1>1, <1>2, <1>3 DEF RxType
  <2> QED  BY <1>1, <1>2, <2>1, <2>2 DEF RxType
<1>6. RxFilling'
  <2> SUFFICES ASSUME stream # 0, ~primed PROVE RxFilling'
    BY <1>1 DEF RxFilling
  <2>1. /\ ring = 0
        /\ \/ startAt = -1 /\ frames = {}
           \/ /\ startAt \in Nat /\ startAt <= now /\ frames # {} /\ now < startAt + Target
              /\ \A f \in frames : startAt <= receiveSent[f] + MaxDelay
    BY <1>1 DEF RxInv, RxFilling
  <2>2. ring' = 0
    BY <1>1, <2>1 DEF Receive!Larger
  <2>3. \A f \in frames : receiveSent'[f] = receiveSent[f]
    BY <1>2, <1>3 DEF RxType
  <2>4. startAt \in Nat /\ startAt <= now /\ now < startAt + Target =>
          startAt <= now' /\ now' <= startAt + Target
    BY <1>1, <1>2
  <2> QED  BY <1>1, <2>1, <2>2, <2>3, <2>4 DEF RxFilling
<1>7. RxDistinct' /\ Receive!NothingBehindPlayout'
  BY <1>1 DEF RxInv, RxDistinct, Receive!StreamFollowsTalker, Receive!NothingBehindPlayout
<1>8. Receive!SilentStreamIsReaped'
  BY <1>1 DEF Receive!SilentStreamIsReaped
<1> QED  BY <1>3, <1>4, <1>5, <1>6, <1>7, <1>8 DEF RxInv, Receive!StreamFollowsTalker

\* Every step of the talker, of the receive goroutine and of the decode
\* goroutine keeps the invariant.
LEMMA RxStep == RxInv /\ [Receive!Next]_receiveVars => RxInv'
<1> SUFFICES ASSUME RxInv, [Receive!Next]_receiveVars PROVE RxInv'
  OBVIOUS
<1>1. CASE UNCHANGED receiveVars
  <2>1. UNCHANGED <<now, receiveSent, hand, stream, opened, lastSeen, ring, frames, startAt, primed,
                    nextExpected, service, wake>>
    BY <1>1 DEF receiveVars
  <2>2. RxTalker' /\ RxHand' /\ RxType'
    BY <2>1 DEF RxInv, RxTalker, RxHand, RxType
  <2>3. RxFilling' /\ RxDistinct' /\ Receive!StreamFollowsTalker'
    BY <2>1 DEF RxInv, RxFilling, RxDistinct, Receive!StreamFollowsTalker,
         Receive!NothingBehindPlayout, Receive!SilentStreamIsReaped
  <2> QED  BY <2>2, <2>3 DEF RxInv
<1> QED
  BY <1>1, RxArriveKeeps, RxAdmitKeeps, RxRestKeeps, RxDecodeKeeps, RxTopUpEnds, RxTickKeeps
  DEF Receive!Next

(***************************************************************************)
(* The microphone gate                                                     *)
(***************************************************************************)

\* The numbers whose run of Q, up to n, they begin or are in.
GateRun(Q, n) == {m \in 1 .. n : m .. n \subseteq Q}

\* The last number of B up to n, when all since are of E.
GateMarks(B, E, n) == {k \in 1 .. n : k \in B /\ k .. n \subseteq E /\ \A m \in k + 1 .. n : m \notin B}

\* How many numbers of U there are from k to n.
GateSpent(U, k, n) == Cardinality({m \in k .. n : m \in U})

\* A counter that the last number of B sets to R of it, and every number of U
\* since counts down, while all are of E.
GateLeft(B, E, U, R, n, c) ==
  /\ GateMarks(B, E, n) = {} => c = 0
  /\ \A k \in GateMarks(B, E, n) :
       c = IF R[k] > GateSpent(U, k, n) THEN R[k] - GateSpent(U, k, n) ELSE 0

\* A run grows by one or is over.
LEMMA GateRunSteps ==
  ASSUME NEW Q, NEW n \in Nat
  PROVE  /\ GateRun(Q, 0) = {} /\ Cardinality(GateRun(Q, 0)) = 0
         /\ n + 1 \in Q => /\ GateRun(Q, n + 1) = GateRun(Q, n) \cup {n + 1}
                           /\ Cardinality(GateRun(Q, n + 1)) = Cardinality(GateRun(Q, n)) + 1
         /\ n + 1 \notin Q => /\ GateRun(Q, n + 1) = {}
                              /\ Cardinality(GateRun(Q, n + 1)) = 0
         /\ Cardinality(GateRun(Q, n)) \in Nat
<1>1. IsFiniteSet(GateRun(Q, n)) /\ Cardinality(GateRun(Q, n)) \in Nat
  <2>1. IsFiniteSet(1 .. n)
    BY FS_Interval
  <2>2. GateRun(Q, n) \in SUBSET (1 .. n)
    BY DEF GateRun
  <2> QED  BY <2>1, <2>2, FS_Subset, FS_CardinalityType
<1>2. GateRun(Q, 0) = {}
  BY DEF GateRun
<1>3. ASSUME n + 1 \in Q
      PROVE  /\ GateRun(Q, n + 1) = GateRun(Q, n) \cup {n + 1}
             /\ Cardinality(GateRun(Q, n + 1)) = Cardinality(GateRun(Q, n)) + 1
  <2>1. ASSUME NEW m \in 1 .. n + 1
        PROVE  m .. n + 1 \subseteq Q <=> m = n + 1 \/ (m \in 1 .. n /\ m .. n \subseteq Q)
    <3>1. \A j \in m .. n + 1 : j = n + 1 \/ j \in m .. n
      BY <2>1
    <3>2. m .. n \subseteq m .. n + 1
      BY <2>1
    <3>3. m = n + 1 \/ m \in 1 .. n
      BY <2>1
    <3>4. m = n + 1 => m .. n = {}
      BY <2>1
    <3> QED  BY <1>3, <3>1, <3>2, <3>3, <3>4
  <2>2. GateRun(Q, n + 1) = GateRun(Q, n) \cup {n + 1}
    <3>1. \A m : m \in 1 .. n => m \in 1 .. n + 1
      OBVIOUS
    <3>2. n + 1 \in 1 .. n + 1
      OBVIOUS
    <3> QED  BY <2>1, <3>1, <3>2 DEF GateRun
  <2>3. n + 1 \notin GateRun(Q, n)
    BY DEF GateRun
  <2> QED  BY <1>1, <2>2, <2>3, FS_AddElement
<1>4. n + 1 \notin Q => GateRun(Q, n + 1) = {}
  <2>1. \A m \in 1 .. n + 1 : n + 1 \in m .. n + 1
    OBVIOUS
  <2> QED  BY <2>1 DEF GateRun
<1> QED  BY <1>1, <1>2, <1>3, <1>4, FS_EmptySet

\* A run is what is in Q up to where it ends, whatever follows.
LEMMA GateRunAgrees ==
  ASSUME NEW Q, NEW T, NEW n \in Nat, \A m \in 1 .. n : m \in Q <=> m \in T, NEW k \in 0 .. n
  PROVE  GateRun(Q, k) = GateRun(T, k)
<1>1. \A m \in 1 .. k : \A j \in m .. k : j \in 1 .. n
  OBVIOUS
<1>2. \A m \in 1 .. k : m .. k \subseteq Q <=> m .. k \subseteq T
  BY <1>1
<1> QED  BY <1>2 DEF GateRun

\* What is counted grows by the numbers of U.
LEMMA GateSpentSteps ==
  ASSUME NEW U, NEW n \in Nat, NEW k \in 1 .. n
  PROVE  /\ GateSpent(U, k, n) \in Nat
         /\ n + 1 \in U => GateSpent(U, k, n + 1) = GateSpent(U, k, n) + 1
         /\ n + 1 \notin U => GateSpent(U, k, n + 1) = GateSpent(U, k, n)
<1> DEFINE S == {m \in k .. n : m \in U}
           T == {m \in k .. n + 1 : m \in U}
<1>1. IsFiniteSet(S) /\ Cardinality(S) \in Nat
  <2>1. IsFiniteSet(k .. n)
    BY FS_Interval
  <2> QED  BY <2>1, FS_Subset, FS_CardinalityType
<1>2. n + 1 \notin S
  OBVIOUS
<1>3. \A m : m \in k .. n + 1 <=> m \in k .. n \/ m = n + 1
  OBVIOUS
<1>4. n + 1 \in U => T = S \cup {n + 1}
  BY <1>3
<1>5. n + 1 \notin U => T = S
  BY <1>3
<1>6. n + 1 \in U => Cardinality(T) = Cardinality(S) + 1
  BY <1>1, <1>2, <1>4, FS_AddElement
<1> QED  BY <1>1, <1>5, <1>6 DEF GateSpent

\* Nothing is counted where nothing is of U.
LEMMA GateSpentNone ==
  ASSUME NEW U, NEW k \in Nat, k \notin U
  PROVE  GateSpent(U, k, k) = 0
<1>1. {m \in k .. k : m \in U} = {}
  <2>1. \A m \in k .. k : m = k
    OBVIOUS
  <2> QED  BY <2>1
<1> QED  BY <1>1, FS_EmptySet DEF GateSpent

\* The last number of B is a new one, or the same, or too long ago.
LEMMA GateMarksSteps ==
  ASSUME NEW B, NEW E, NEW n \in Nat
  PROVE  /\ n + 1 \in E /\ n + 1 \notin B => GateMarks(B, E, n + 1) = GateMarks(B, E, n)
         /\ n + 1 \in E /\ n + 1 \in B => GateMarks(B, E, n + 1) = {n + 1}
         /\ n + 1 \notin E => GateMarks(B, E, n + 1) = {}
         /\ GateMarks(B, E, n) \subseteq 1 .. n
<1>1. ASSUME n + 1 \in E, n + 1 \notin B
      PROVE  GateMarks(B, E, n + 1) = GateMarks(B, E, n)
  <2>1. ASSUME NEW k \in 1 .. n
        PROVE  /\ k .. n + 1 \subseteq E <=> k .. n \subseteq E
               /\ (\A m \in k + 1 .. n + 1 : m \notin B) <=> (\A m \in k + 1 .. n : m \notin B)
    <3>1. \A m : m \in k .. n + 1 <=> m \in k .. n \/ m = n + 1
      BY <2>1
    <3>2. \A m : m \in k + 1 .. n + 1 <=> m \in k + 1 .. n \/ m = n + 1
      BY <2>1
    <3> QED  BY <1>1, <3>1, <3>2
  <2>2. \A k \in 1 .. n + 1 : k \in 1 .. n \/ k = n + 1
    OBVIOUS
  <2>3. \A k \in 1 .. n : k \in 1 .. n + 1
    OBVIOUS
  <2> QED  BY <1>1, <2>1, <2>2, <2>3 DEF GateMarks
<1>2. ASSUME n + 1 \in E, n + 1 \in B
      PROVE  GateMarks(B, E, n + 1) = {n + 1}
  <2>1. \A k \in 1 .. n : n + 1 \in k + 1 .. n + 1
    OBVIOUS
  <2>2. \A k \in 1 .. n + 1 : k \in 1 .. n \/ k = n + 1
    OBVIOUS
  <2>3. n + 1 \in 1 .. n + 1 /\ n + 1 .. n + 1 = {n + 1} /\ (n + 1) + 1 .. n + 1 = {}
    OBVIOUS
  <2> QED  BY <1>2, <2>1, <2>2, <2>3 DEF GateMarks
<1>3. n + 1 \notin E => GateMarks(B, E, n + 1) = {}
  <2>1. \A k \in 1 .. n + 1 : n + 1 \in k .. n + 1
    OBVIOUS
  <2> QED  BY <2>1 DEF GateMarks
<1>4. GateMarks(B, E, n) \subseteq 1 .. n
  BY DEF GateMarks
<1> QED  BY <1>1, <1>2, <1>3, <1>4

\* What a counter is after one more number.
LEMMA GateLeftSteps ==
  ASSUME NEW B, NEW E, NEW U, NEW R, NEW n \in Nat, NEW c \in Nat,
         \A k \in 1 .. n + 1 : R[k] \in Nat,
         GateLeft(B, E, U, R, n, c)
  PROVE  /\ n + 1 \in E /\ n + 1 \in B /\ n + 1 \notin U => GateLeft(B, E, U, R, n + 1, R[n + 1])
         /\ n + 1 \in E /\ n + 1 \notin B /\ n + 1 \notin U => GateLeft(B, E, U, R, n + 1, c)
         /\ n + 1 \in E /\ n + 1 \notin B /\ n + 1 \in U =>
              GateLeft(B, E, U, R, n + 1, IF c > 0 THEN c - 1 ELSE 0)
         /\ n + 1 \notin E => GateLeft(B, E, U, R, n + 1, 0)
<1>1. ASSUME n + 1 \in E, n + 1 \in B, n + 1 \notin U
      PROVE  GateLeft(B, E, U, R, n + 1, R[n + 1])
  <2>1. GateMarks(B, E, n + 1) = {n + 1}
    BY <1>1, GateMarksSteps
  <2>2. GateSpent(U, n + 1, n + 1) = 0
    BY <1>1, GateSpentNone
  <2>3. R[n + 1] \in Nat
    OBVIOUS
  <2>4. R[n + 1] = IF R[n + 1] > 0 THEN R[n + 1] - 0 ELSE 0
    BY <2>3
  <2> QED  BY <2>1, <2>2, <2>4 DEF GateLeft
<1>2. ASSUME n + 1 \in E, n + 1 \notin B, n + 1 \notin U
      PROVE  GateLeft(B, E, U, R, n + 1, c)
  <2>1. GateMarks(B, E, n + 1) = GateMarks(B, E, n) /\ GateMarks(B, E, n) \subseteq 1 .. n
    BY <1>2, GateMarksSteps
  <2>2. \A k \in GateMarks(B, E, n) : GateSpent(U, k, n + 1) = GateSpent(U, k, n)
    BY <1>2, <2>1, GateSpentSteps
  <2> QED  BY <2>1, <2>2 DEF GateLeft
<1>3. ASSUME n + 1 \in E, n + 1 \notin B, n + 1 \in U
      PROVE  GateLeft(B, E, U, R, n + 1, IF c > 0 THEN c - 1 ELSE 0)
  <2>1. GateMarks(B, E, n + 1) = GateMarks(B, E, n) /\ GateMarks(B, E, n) \subseteq 1 .. n
    BY <1>3, GateMarksSteps
  <2>2. ASSUME NEW k \in GateMarks(B, E, n)
        PROVE  (IF c > 0 THEN c - 1 ELSE 0) =
                 IF R[k] > GateSpent(U, k, n + 1) THEN R[k] - GateSpent(U, k, n + 1) ELSE 0
    <3>1. /\ GateSpent(U, k, n + 1) = GateSpent(U, k, n) + 1 /\ GateSpent(U, k, n) \in Nat
          /\ R[k] \in Nat
      BY <1>3, <2>1, GateSpentSteps
    <3>2. c = IF R[k] > GateSpent(U, k, n) THEN R[k] - GateSpent(U, k, n) ELSE 0
      BY DEF GateLeft
    <3> QED  BY <3>1, <3>2
  <2>3. GateMarks(B, E, n) = {} => c = 0
    BY DEF GateLeft
  <2> QED  BY <2>1, <2>2, <2>3 DEF GateLeft
<1>4. n + 1 \notin E => GateLeft(B, E, U, R, n + 1, 0)
  <2>1. n + 1 \notin E => GateMarks(B, E, n + 1) = {}
    BY GateMarksSteps
  <2> QED  BY <2>1 DEF GateLeft
<1> QED  BY <1>1, <1>2, <1>3, <1>4

\* What a counter of zero says before one more number counts it down.
LEMMA GateLeftOpen ==
  ASSUME NEW B, NEW E, NEW U, NEW R, NEW n \in Nat, NEW c \in Nat,
         \A k \in 1 .. n + 1 : R[k] \in Nat,
         GateLeft(B, E, U, R, n, c), n + 1 \in E, n + 1 \notin B, n + 1 \in U
  PROVE  c > 0 <=> \E k \in GateMarks(B, E, n + 1) : GateSpent(U, k, n + 1) <= R[k]
<1>1. GateMarks(B, E, n + 1) = GateMarks(B, E, n) /\ GateMarks(B, E, n) \subseteq 1 .. n
  BY GateMarksSteps
<1>2. ASSUME NEW k \in GateMarks(B, E, n)
      PROVE  c > 0 <=> GateSpent(U, k, n + 1) <= R[k]
  <2>1. /\ GateSpent(U, k, n + 1) = GateSpent(U, k, n) + 1 /\ GateSpent(U, k, n) \in Nat
        /\ R[k] \in Nat
    BY <1>1, GateSpentSteps
  <2>2. c = IF R[k] > GateSpent(U, k, n) THEN R[k] - GateSpent(U, k, n) ELSE 0
    BY DEF GateLeft
  <2> QED  BY <2>1, <2>2
<1>3. GateMarks(B, E, n) = {} => c = 0
  BY DEF GateLeft
<1>4. c = 0 => ~(c > 0)
  OBVIOUS
<1> QED  BY <1>1, <1>2, <1>3, <1>4

\* A counter says the same of sets that agree up to n.
LEMMA GateMarksAgree ==
  ASSUME NEW B, NEW E, NEW U, NEW R, NEW B2, NEW E2, NEW U2, NEW R2, NEW n \in Nat, NEW c \in Nat,
         \A m \in 1 .. n : /\ m \in B <=> m \in B2
                           /\ m \in E <=> m \in E2
                           /\ m \in U <=> m \in U2
                           /\ R[m] = R2[m],
         GateLeft(B, E, U, R, n, c)
  PROVE  GateLeft(B2, E2, U2, R2, n, c)
<1>1. GateMarks(B, E, n) = GateMarks(B2, E2, n)
  <2>1. ASSUME NEW k \in 1 .. n
        PROVE  /\ k .. n \subseteq E <=> k .. n \subseteq E2
               /\ (\A m \in k + 1 .. n : m \notin B) <=> (\A m \in k + 1 .. n : m \notin B2)
    <3>1. (\A m \in k .. n : m \in 1 .. n) /\ \A m \in k + 1 .. n : m \in 1 .. n
      BY <2>1
    <3> QED  BY <3>1
  <2> QED  BY <2>1 DEF GateMarks
<1>2. ASSUME NEW k \in GateMarks(B, E, n)
      PROVE  GateSpent(U, k, n) = GateSpent(U2, k, n) /\ R[k] = R2[k]
  <2>1. k \in 1 .. n
    BY DEF GateMarks
  <2>2. \A m \in k .. n : m \in 1 .. n
    BY <2>1
  <2>3. {m \in k .. n : m \in U} = {m \in k .. n : m \in U2}
    BY <2>2
  <2> QED  BY <2>1, <2>3 DEF GateSpent
<1> QED  BY <1>1, <1>2 DEF GateLeft

\* One of the numbers a run has lasted for is of S.
GateOpened(Q, S, n) == \E k \in GateRun(Q, n) : k \in S

\* What has opened stays open while the run lasts.
LEMMA GateOpenedSteps ==
  ASSUME NEW Q, NEW S, NEW n \in Nat
  PROVE  /\ n + 1 \in Q => (GateOpened(Q, S, n + 1) <=> GateOpened(Q, S, n) \/ n + 1 \in S)
         /\ n + 1 \notin Q => ~GateOpened(Q, S, n + 1)
<1>1. ASSUME n + 1 \in Q PROVE GateOpened(Q, S, n + 1) <=> GateOpened(Q, S, n) \/ n + 1 \in S
  <2>1. GateRun(Q, n + 1) = GateRun(Q, n) \cup {n + 1}
    BY <1>1, GateRunSteps
  <2> QED  BY <2>1 DEF GateOpened
<1>2. ASSUME n + 1 \notin Q PROVE ~GateOpened(Q, S, n + 1)
  <2>1. GateRun(Q, n + 1) = {}
    BY <1>2, GateRunSteps
  <2> QED  BY <2>1 DEF GateOpened
<1> QED  BY <1>1, <1>2

\* It depends on the numbers up to n only.
LEMMA GateOpenedAgrees ==
  ASSUME NEW Q, NEW S, NEW T, NEW S2, NEW n \in Nat,
         \A m \in 1 .. n : (m \in Q <=> m \in T) /\ (m \in S <=> m \in S2),
         NEW k \in 0 .. n
  PROVE  GateOpened(Q, S, k) <=> GateOpened(T, S2, k)
<1>1. GateRun(Q, k) = GateRun(T, k)
  BY GateRunAgrees
<1>2. \A j \in GateRun(Q, k) : j \in 1 .. n
  BY DEF GateRun
<1> QED  BY <1>1, <1>2 DEF GateOpened

GateFrame == [PTT : BOOLEAN, loud : BOOLEAN, cfg : GateConfigs]

\* Frames by what they are: with the key down or up, loud enough or quiet, with
\* voice activation; in a run long enough; with the key, the voice having opened.
GatePressed == {m \in 1 .. Len(inputs) : inputs[m].PTT}
GateUp == {m \in 1 .. Len(inputs) : ~inputs[m].PTT}
GateLoud == {m \in 1 .. Len(inputs) : Gate!Loud(m)}
GateQuiet == {m \in 1 .. Len(inputs) : ~inputs[m].loud}
GateVox == {m \in 1 .. Len(inputs) : inputs[m].cfg.VOXEnabled}
GateKeyLong ==
  {m \in 1 .. Len(inputs) :
     Cardinality(GateRun(GatePressed, m)) > Gate!msToFrames(inputs[m].cfg.PTTStartDelayMS)}
GateVoiceLong ==
  {m \in 1 .. Len(inputs) :
     Cardinality(GateRun(GateLoud, m)) >= Gate!msToFrames(inputs[m].cfg.VOXMinLengthMS)}
GateKeyed == {m \in 1 .. Len(inputs) : GateOpened(GatePressed, GateKeyLong, m)}
GateVoiced == {m \in 1 .. Len(inputs) : GateOpened(GateLoud, GateVoiceLong, m)}
GateRelease == [m \in 1 .. Len(inputs) |-> Gate!msToFrames(inputs[m].cfg.PTTReleaseDelayMS)]
GateHang == [m \in 1 .. Len(inputs) |-> Gate!msToFrames(inputs[m].cfg.VOXHangMS)]

GateType ==
  /\ cfg \in GateConfigs /\ inputs \in Seq(GateFrame)
  /\ pttHeld \in Nat /\ tail \in Nat /\ voxSustain \in Nat /\ voxHangLeft \in Nat
  /\ pttLatched \in BOOLEAN /\ voxLatched \in BOOLEAN

\* The gate's counters say of the last frames what the frames say themselves.
GateRunsInv ==
  /\ pttHeld = Cardinality(GateRun(GatePressed, Len(inputs)))
  /\ voxSustain = Cardinality(GateRun(GateLoud, Len(inputs)))
  /\ pttLatched <=> Len(inputs) \in GateKeyed
  /\ voxLatched <=> Len(inputs) \in GateVoiced

GateTailInv ==
  /\ GateLeft(GateKeyed, Nat, GateUp, GateRelease, Len(inputs), tail)
  /\ GateLeft(GateVoiced, GateVox, GateQuiet, GateHang, Len(inputs), voxHangLeft)

GateInv == GateType /\ GateRunsInv /\ GateTailInv /\ Gate!GateIsExact

\* Sets are counted alike in the gate's module.
LEMMA GateCount == \A S : Gate!Cardinality(S) = Cardinality(S)
  BY Zenon DEF Gate!Cardinality, Cardinality

\* Durations are whole numbers of frames.
LEMMA GateDurations ==
  \A c \in GateConfigs :
    /\ Gate!msToFrames(c.PTTStartDelayMS) \in Nat /\ Gate!msToFrames(c.PTTReleaseDelayMS) \in Nat
    /\ Gate!msToFrames(c.VOXMinLengthMS) \in Nat /\ Gate!msToFrames(c.VOXHangMS) \in Nat
    /\ c.VOXEnabled \in BOOLEAN
<1>1. ASSUME NEW ms \in Int PROVE Gate!msToFrames(ms) \in Nat
  <2>1. FrameMS \in Nat \ {0}
    BY GateBounds DEF Gate!GateAssumption
  <2>2. ms > 0 => ms \div FrameMS \in Nat
    BY <2>1
  <2> QED  BY <2>2 DEF Gate!msToFrames
<1>2. \A c \in GateConfigs :
        /\ c.PTTStartDelayMS \in Int /\ c.PTTReleaseDelayMS \in Int
        /\ c.VOXMinLengthMS \in Int /\ c.VOXHangMS \in Int /\ c.VOXEnabled \in BOOLEAN
  BY GateBounds DEF Gate!GateAssumption, Gate!Durations
<1> SUFFICES ASSUME NEW c \in GateConfigs
             PROVE  /\ Gate!msToFrames(c.PTTStartDelayMS) \in Nat
                    /\ Gate!msToFrames(c.PTTReleaseDelayMS) \in Nat
                    /\ Gate!msToFrames(c.VOXMinLengthMS) \in Nat
                    /\ Gate!msToFrames(c.VOXHangMS) \in Nat
                    /\ c.VOXEnabled \in BOOLEAN
  OBVIOUS
<1>3. /\ c.PTTStartDelayMS \in Int /\ c.PTTReleaseDelayMS \in Int
      /\ c.VOXMinLengthMS \in Int /\ c.VOXHangMS \in Int
  BY <1>2
<1>4. c.VOXEnabled \in BOOLEAN
  BY <1>2
<1>5. /\ Gate!msToFrames(c.PTTStartDelayMS) \in Nat
      /\ Gate!msToFrames(c.PTTReleaseDelayMS) \in Nat
      /\ Gate!msToFrames(c.VOXMinLengthMS) \in Nat
      /\ Gate!msToFrames(c.VOXHangMS) \in Nat
  BY <1>1, <1>3
<1> QED  BY <1>4, <1>5

\* What the properties call the runs, and what opened, are these.
LEMMA GateMeaning ==
  GateType /\ Len(inputs) > 0 =>
    /\ Gate!ByKey(Len(inputs)) <=> Len(inputs) \in GateKeyed
    /\ Gate!ByVoice(Len(inputs)) <=> Len(inputs) \in GateVoiced
    /\ Gate!InTail(Len(inputs)) <=>
         /\ Len(inputs) \in GateUp
         /\ \E k \in GateMarks(GateKeyed, Nat, Len(inputs)) :
              GateSpent(GateUp, k, Len(inputs)) <= GateRelease[k]
    /\ Gate!InHang(Len(inputs)) <=>
         /\ Len(inputs) \in GateQuiet
         /\ \E k \in GateMarks(GateVoiced, GateVox, Len(inputs)) :
              GateSpent(GateQuiet, k, Len(inputs)) <= GateHang[k]
<1> SUFFICES ASSUME GateType, Len(inputs) > 0
             PROVE  /\ Gate!ByKey(Len(inputs)) <=> Len(inputs) \in GateKeyed
                    /\ Gate!ByVoice(Len(inputs)) <=> Len(inputs) \in GateVoiced
                    /\ Gate!InTail(Len(inputs)) <=>
                         /\ Len(inputs) \in GateUp
                         /\ \E k \in GateMarks(GateKeyed, Nat, Len(inputs)) :
                              GateSpent(GateUp, k, Len(inputs)) <= GateRelease[k]
                    /\ Gate!InHang(Len(inputs)) <=>
                         /\ Len(inputs) \in GateQuiet
                         /\ \E k \in GateMarks(GateVoiced, GateVox, Len(inputs)) :
                              GateSpent(GateQuiet, k, Len(inputs)) <= GateHang[k]
  OBVIOUS
<1>0. PICK n \in Nat : n = Len(inputs)
  BY LenProperties DEF GateType
<1>0a. n \in 1 .. n
  BY <1>0
<1>1. ASSUME NEW k \in 1 .. n
      PROVE  Gate!KeyRun(k) = GateRun(GatePressed, k) /\ Gate!LoudRun(k) = GateRun(GateLoud, k)
  <2>1. \A m \in 1 .. k : \A j \in m .. k : j \in 1 .. n
    BY <1>0
  <2>2. \A m \in 1 .. k : m .. k \subseteq GatePressed <=> \A j \in m .. k : inputs[j].PTT
    BY <1>0, <2>1 DEF GatePressed
  <2>3. \A m \in 1 .. k : m .. k \subseteq GateLoud <=> \A j \in m .. k : Gate!Loud(j)
    BY <1>0, <2>1 DEF GateLoud
  <2> QED  BY <2>2, <2>3 DEF Gate!KeyRun, Gate!LoudRun, GateRun
<1>2. ASSUME NEW k \in 1 .. n
      PROVE  (Gate!ByKey(k) <=> k \in GateKeyed) /\ (Gate!ByVoice(k) <=> k \in GateVoiced)
  <2>1. /\ \A j \in GateRun(GatePressed, k) : j \in 1 .. n
        /\ \A j \in GateRun(GateLoud, k) : j \in 1 .. n
    BY <1>0 DEF GateRun
  <2>2. Gate!ByKey(k) <=> \E j \in GateRun(GatePressed, k) : j \in GateKeyLong
    BY <1>0, <1>1, <2>1, GateCount DEF Gate!ByKey, GateKeyLong
  <2>3. Gate!ByVoice(k) <=> \E j \in GateRun(GateLoud, k) : j \in GateVoiceLong
    BY <1>0, <1>1, <2>1, GateCount DEF Gate!ByVoice, GateVoiceLong
  <2> QED  BY <1>0, <2>2, <2>3 DEF GateKeyed, GateVoiced, GateOpened
<1>3. ASSUME NEW k \in 1 .. n
      PROVE  /\ k \in GateMarks(GateKeyed, Nat, n)
                <=> Gate!ByKey(k) /\ \A m \in k + 1 .. n : ~Gate!ByKey(m)
             /\ k \in GateMarks(GateVoiced, GateVox, n)
                <=> /\ Gate!ByVoice(k) /\ \A m \in k + 1 .. n : ~Gate!ByVoice(m)
                    /\ \A m \in k .. n : inputs[m].cfg.VOXEnabled
  <2>1. (\A m \in k + 1 .. n : m \in 1 .. n) /\ (\A m \in k .. n : m \in 1 .. n)
    BY <1>0
  <2>2. k .. n \subseteq Nat
    BY <1>0
  <2>3. k .. n \subseteq GateVox <=> \A m \in k .. n : inputs[m].cfg.VOXEnabled
    BY <1>0, <2>1 DEF GateVox
  <2> QED  BY <1>2, <2>1, <2>2, <2>3 DEF GateMarks
<1>4. ASSUME NEW k \in 1 .. n
      PROVE  /\ Gate!Cardinality({m \in k .. n : ~inputs[m].PTT}) = GateSpent(GateUp, k, n)
             /\ Gate!Cardinality({m \in k .. n : ~inputs[m].loud}) = GateSpent(GateQuiet, k, n)
  <2>1. \A m \in k .. n : m \in 1 .. n
    BY <1>0
  <2>2. {m \in k .. n : ~inputs[m].PTT} = {m \in k .. n : m \in GateUp}
    BY <1>0, <2>1 DEF GateUp
  <2>3. {m \in k .. n : ~inputs[m].loud} = {m \in k .. n : m \in GateQuiet}
    BY <1>0, <2>1 DEF GateQuiet
  <2> QED  BY <2>2, <2>3, GateCount DEF GateSpent
<1>5. /\ \A k \in GateMarks(GateKeyed, Nat, n) : k \in 1 .. n
      /\ \A k \in GateMarks(GateVoiced, GateVox, n) : k \in 1 .. n
  BY DEF GateMarks
<1>6. ASSUME NEW k \in 1 .. n
      PROVE  /\ GateRelease[k] = Gate!msToFrames(inputs[k].cfg.PTTReleaseDelayMS)
             /\ GateHang[k] = Gate!msToFrames(inputs[k].cfg.VOXHangMS)
  BY <1>0 DEF GateRelease, GateHang
<1>7. Gate!InTail(n) <=> /\ n \in GateUp
                         /\ \E k \in GateMarks(GateKeyed, Nat, n) :
                              GateSpent(GateUp, k, n) <= GateRelease[k]
  <2>1. ASSUME NEW k \in 1 .. n
        PROVE  (/\ Gate!ByKey(k) /\ \A m \in k + 1 .. n : ~Gate!ByKey(m)
                /\ Gate!Cardinality({m \in k .. n : ~inputs[m].PTT})
                   <= Gate!msToFrames(inputs[k].cfg.PTTReleaseDelayMS))
               <=> k \in GateMarks(GateKeyed, Nat, n) /\ GateSpent(GateUp, k, n) <= GateRelease[k]
    BY <1>3, <1>4, <1>6
  <2>2. Gate!InTail(n) <=>
          /\ ~inputs[n].PTT
          /\ \E k \in 1 .. n :
               k \in GateMarks(GateKeyed, Nat, n) /\ GateSpent(GateUp, k, n) <= GateRelease[k]
    BY <2>1 DEF Gate!InTail
  <2>3. ~inputs[n].PTT <=> n \in GateUp
    BY <1>0, <1>0a DEF GateUp
  <2> QED  BY <1>5, <2>2, <2>3
<1>8. Gate!InHang(n) <=> /\ n \in GateQuiet
                         /\ \E k \in GateMarks(GateVoiced, GateVox, n) :
                              GateSpent(GateQuiet, k, n) <= GateHang[k]
  <2>1. ASSUME NEW k \in 1 .. n
        PROVE  (/\ Gate!ByVoice(k) /\ \A m \in k + 1 .. n : ~Gate!ByVoice(m)
                /\ \A m \in k .. n : inputs[m].cfg.VOXEnabled
                /\ Gate!Cardinality({m \in k .. n : ~inputs[m].loud})
                   <= Gate!msToFrames(inputs[k].cfg.VOXHangMS))
               <=> k \in GateMarks(GateVoiced, GateVox, n) /\ GateSpent(GateQuiet, k, n) <= GateHang[k]
    BY <1>3, <1>4, <1>6
  <2>2. Gate!InHang(n) <=>
          /\ ~inputs[n].loud
          /\ \E k \in 1 .. n :
               k \in GateMarks(GateVoiced, GateVox, n) /\ GateSpent(GateQuiet, k, n) <= GateHang[k]
    BY <2>1 DEF Gate!InHang
  <2>3. ~inputs[n].loud <=> n \in GateQuiet
    BY <1>0, <1>0a DEF GateQuiet
  <2> QED  BY <1>5, <2>2, <2>3
<1> QED  BY <1>0, <1>0a, <1>2, <1>7, <1>8

\* And so after a step.
LEMMA GateMeaningNext ==
  (GateType /\ Len(inputs) > 0)' =>
    (/\ Gate!ByKey(Len(inputs)) <=> Len(inputs) \in GateKeyed
     /\ Gate!ByVoice(Len(inputs)) <=> Len(inputs) \in GateVoiced
     /\ Gate!InTail(Len(inputs)) <=>
          /\ Len(inputs) \in GateUp
          /\ \E k \in GateMarks(GateKeyed, Nat, Len(inputs)) :
               GateSpent(GateUp, k, Len(inputs)) <= GateRelease[k]
     /\ Gate!InHang(Len(inputs)) <=>
          /\ Len(inputs) \in GateQuiet
          /\ \E k \in GateMarks(GateVoiced, GateVox, Len(inputs)) :
               GateSpent(GateQuiet, k, Len(inputs)) <= GateHang[k])'
BY GateMeaning, PTL

\* One more frame leaves what is said of the frames before it.
LEMMA GateGrows ==
  ASSUME GateType, NEW x \in GateFrame, inputs' = Append(inputs, x), NEW n, n = Len(inputs)
  PROVE  /\ n \in Nat /\ Len(inputs') = n + 1 /\ inputs' \in Seq(GateFrame)
         /\ \A m \in 1 .. n : /\ m \in GatePressed <=> m \in GatePressed'
                              /\ m \in GateUp <=> m \in GateUp'
                              /\ m \in GateLoud <=> m \in GateLoud'
                              /\ m \in GateQuiet <=> m \in GateQuiet'
                              /\ m \in GateVox <=> m \in GateVox'
                              /\ GateRelease[m] = GateRelease'[m]
                              /\ GateHang[m] = GateHang'[m]
         /\ n + 1 \in GatePressed' <=> x.PTT
         /\ n + 1 \in GateUp' <=> ~x.PTT
         /\ n + 1 \in GateLoud' <=> x.loud /\ x.cfg.VOXEnabled
         /\ n + 1 \in GateQuiet' <=> ~x.loud
         /\ n + 1 \in GateVox' <=> x.cfg.VOXEnabled
         /\ GateRelease'[n + 1] = Gate!msToFrames(x.cfg.PTTReleaseDelayMS)
         /\ GateHang'[n + 1] = Gate!msToFrames(x.cfg.VOXHangMS)
         /\ inputs'[n + 1] = x /\ \A m \in 1 .. n : inputs'[m] = inputs[m]
<1>1. /\ n \in Nat /\ inputs' \in Seq(GateFrame) /\ Len(inputs') = n + 1
      /\ inputs'[n + 1] = x /\ \A m \in 1 .. n : inputs'[m] = inputs[m]
  BY AppendProperties, LenProperties DEF GateType
<1>2. (\A m \in 1 .. n : m \in 1 .. n + 1) /\ n + 1 \in 1 .. n + 1
  BY <1>1
<1>3. \A m \in 1 .. n : /\ m \in GatePressed <=> m \in GatePressed'
                        /\ m \in GateUp <=> m \in GateUp'
  BY <1>1, <1>2 DEF GatePressed, GateUp
<1>4. \A m \in 1 .. n : /\ m \in GateLoud <=> m \in GateLoud'
                        /\ m \in GateQuiet <=> m \in GateQuiet'
                        /\ m \in GateVox <=> m \in GateVox'
  BY <1>1, <1>2 DEF GateLoud, GateQuiet, GateVox, Gate!Loud
<1>5. \A m \in 1 .. n : GateRelease[m] = GateRelease'[m] /\ GateHang[m] = GateHang'[m]
  BY <1>1, <1>2 DEF GateRelease, GateHang
<1>6. /\ n + 1 \in GatePressed' <=> x.PTT
      /\ n + 1 \in GateUp' <=> ~x.PTT
      /\ n + 1 \in GateQuiet' <=> ~x.loud
      /\ n + 1 \in GateVox' <=> x.cfg.VOXEnabled
  BY <1>1, <1>2 DEF GatePressed, GateUp, GateQuiet, GateVox
<1>7. n + 1 \in GateLoud' <=> x.loud /\ x.cfg.VOXEnabled
  BY <1>1, <1>2 DEF GateLoud, Gate!Loud
<1>8. /\ GateRelease'[n + 1] = Gate!msToFrames(x.cfg.PTTReleaseDelayMS)
      /\ GateHang'[n + 1] = Gate!msToFrames(x.cfg.VOXHangMS)
  BY <1>1, <1>2 DEF GateRelease, GateHang
<1> QED  BY <1>1, <1>3, <1>4, <1>5, <1>6, <1>7, <1>8

\* What a frame more makes of the runs.
LEMMA GateRunsGrow ==
  ASSUME GateType, GateRunsInv, NEW x \in GateFrame, inputs' = Append(inputs, x),
         NEW n, n = Len(inputs)
  PROVE  /\ \A m \in 1 .. n : /\ m \in GateKeyed <=> m \in GateKeyed'
                              /\ m \in GateVoiced <=> m \in GateVoiced'
         /\ IF x.PTT
              THEN /\ Cardinality(GateRun(GatePressed', n + 1)) = pttHeld + 1
                   /\ n + 1 \in GateKeyed' <=>
                        pttLatched \/ pttHeld + 1 > Gate!msToFrames(x.cfg.PTTStartDelayMS)
              ELSE /\ Cardinality(GateRun(GatePressed', n + 1)) = 0
                   /\ n + 1 \notin GateKeyed'
         /\ IF x.loud /\ x.cfg.VOXEnabled
              THEN /\ Cardinality(GateRun(GateLoud', n + 1)) = voxSustain + 1
                   /\ n + 1 \in GateVoiced' <=>
                        voxLatched \/ voxSustain + 1 >= Gate!msToFrames(x.cfg.VOXMinLengthMS)
              ELSE /\ Cardinality(GateRun(GateLoud', n + 1)) = 0
                   /\ n + 1 \notin GateVoiced'
<1>0. /\ n \in Nat /\ Len(inputs') = n + 1
      /\ inputs'[n + 1] = x /\ \A m \in 1 .. n : inputs'[m] = inputs[m]
      /\ \A m \in 1 .. n : (m \in GatePressed <=> m \in GatePressed')
                           /\ (m \in GateLoud <=> m \in GateLoud')
      /\ n + 1 \in GatePressed' <=> x.PTT
      /\ n + 1 \in GateLoud' <=> x.loud /\ x.cfg.VOXEnabled
  BY GateGrows
<1>1. (\A m \in 1 .. n : m \in 1 .. n + 1) /\ n + 1 \in 1 .. n + 1 /\ n \in 0 .. n
  BY <1>0
<1>2. \A k \in 0 .. n : /\ GateRun(GatePressed, k) = GateRun(GatePressed', k)
                        /\ GateRun(GateLoud, k) = GateRun(GateLoud', k)
  <2> SUFFICES ASSUME NEW k \in 0 .. n
               PROVE  /\ GateRun(GatePressed, k) = GateRun(GatePressed', k)
                      /\ GateRun(GateLoud, k) = GateRun(GateLoud', k)
    OBVIOUS
  <2>1. GateRun(GatePressed, k) = GateRun(GatePressed', k)
    <3>1. \A m \in 1 .. n : m \in GatePressed <=> m \in GatePressed'
      BY <1>0
    <3>2. n \in Nat
      BY <1>0
    <3> QED  BY <3>1, <3>2, GateRunAgrees
  <2>2. GateRun(GateLoud, k) = GateRun(GateLoud', k)
    <3>1. \A m \in 1 .. n : m \in GateLoud <=> m \in GateLoud'
      BY <1>0
    <3>2. n \in Nat
      BY <1>0
    <3> QED  BY <3>1, <3>2, GateRunAgrees
  <2> QED  BY <2>1, <2>2
<1>3. \A m \in 1 .. n : (m \in GateKeyLong <=> m \in GateKeyLong')
                        /\ (m \in GateVoiceLong <=> m \in GateVoiceLong')
  <2>1. \A m \in 1 .. n : m \in 0 .. n
    BY <1>0
  <2> QED  BY <1>0, <1>1, <1>2, <2>1 DEF GateKeyLong, GateVoiceLong
<1>4. \A k \in 0 .. n :
        /\ GateOpened(GatePressed, GateKeyLong, k) <=> GateOpened(GatePressed', GateKeyLong', k)
        /\ GateOpened(GateLoud, GateVoiceLong, k) <=> GateOpened(GateLoud', GateVoiceLong', k)
  <2> SUFFICES ASSUME NEW k \in 0 .. n
               PROVE  /\ GateOpened(GatePressed, GateKeyLong, k)
                         <=> GateOpened(GatePressed', GateKeyLong', k)
                      /\ GateOpened(GateLoud, GateVoiceLong, k)
                         <=> GateOpened(GateLoud', GateVoiceLong', k)
    OBVIOUS
  <2>1. GateOpened(GatePressed, GateKeyLong, k) <=> GateOpened(GatePressed', GateKeyLong', k)
    BY <1>0, <1>3, GateOpenedAgrees
  <2>2. GateOpened(GateLoud, GateVoiceLong, k) <=> GateOpened(GateLoud', GateVoiceLong', k)
    BY <1>0, <1>3, GateOpenedAgrees
  <2> QED  BY <2>1, <2>2
<1>5. \A m \in 1 .. n : /\ m \in GateKeyed <=> m \in GateKeyed'
                        /\ m \in GateVoiced <=> m \in GateVoiced'
  <2>1. \A m \in 1 .. n : m \in 0 .. n
    BY <1>0
  <2> QED  BY <1>0, <1>1, <1>4, <2>1 DEF GateKeyed, GateVoiced
<1>6. /\ n = 0 => /\ ~GateOpened(GatePressed', GateKeyLong', n)
                  /\ ~GateOpened(GateLoud', GateVoiceLong', n)
      /\ GateRun(GatePressed', 0) = {} /\ GateRun(GateLoud', 0) = {}
  BY <1>0, GateRunSteps DEF GateOpened
<1>7. /\ pttLatched <=> GateOpened(GatePressed', GateKeyLong', n)
      /\ voxLatched <=> GateOpened(GateLoud', GateVoiceLong', n)
  <2>1. /\ pttLatched <=> n \in GateKeyed
        /\ voxLatched <=> n \in GateVoiced
    BY DEF GateRunsInv
  <2>2. CASE n = 0
    <3>1. n \notin GateKeyed /\ n \notin GateVoiced
      BY <2>2 DEF GateKeyed, GateVoiced
    <3> QED  BY <1>6, <2>1, <2>2, <3>1
  <2>3. CASE n # 0
    <3>1. n \in 1 .. n
      BY <1>0, <2>3
    <3>2. /\ n \in GateKeyed <=> GateOpened(GatePressed, GateKeyLong, n)
          /\ n \in GateVoiced <=> GateOpened(GateLoud, GateVoiceLong, n)
      BY <3>1 DEF GateKeyed, GateVoiced
    <3> QED  BY <1>1, <1>4, <2>1, <3>2
  <2> QED  BY <2>2, <2>3
<1>8. /\ pttHeld = Cardinality(GateRun(GatePressed', n))
      /\ voxSustain = Cardinality(GateRun(GateLoud', n))
  BY <1>1, <1>2 DEF GateRunsInv
<1>9. /\ n + 1 \in GateKeyed' <=> GateOpened(GatePressed', GateKeyLong', n + 1)
      /\ n + 1 \in GateVoiced' <=> GateOpened(GateLoud', GateVoiceLong', n + 1)
      /\ n + 1 \in GateKeyLong' <=>
           Cardinality(GateRun(GatePressed', n + 1)) > Gate!msToFrames(x.cfg.PTTStartDelayMS)
      /\ n + 1 \in GateVoiceLong' <=>
           Cardinality(GateRun(GateLoud', n + 1)) >= Gate!msToFrames(x.cfg.VOXMinLengthMS)
  BY <1>0, <1>1 DEF GateKeyed, GateVoiced, GateKeyLong, GateVoiceLong
<1>10. ASSUME x.PTT
       PROVE  /\ Cardinality(GateRun(GatePressed', n + 1)) = pttHeld + 1
              /\ n + 1 \in GateKeyed' <=>
                   pttLatched \/ pttHeld + 1 > Gate!msToFrames(x.cfg.PTTStartDelayMS)
  <2>1. n + 1 \in GatePressed'
    BY <1>0, <1>10
  <2>2. Cardinality(GateRun(GatePressed', n + 1)) = pttHeld + 1
    BY <1>0, <1>8, <2>1, GateRunSteps
  <2>3. n + 1 \in GateKeyed' <=> pttLatched \/ n + 1 \in GateKeyLong'
    BY <1>0, <1>7, <1>9, <2>1, GateOpenedSteps
  <2> QED  BY <1>9, <2>2, <2>3
<1>11. ASSUME ~x.PTT
       PROVE  /\ Cardinality(GateRun(GatePressed', n + 1)) = 0
              /\ n + 1 \notin GateKeyed'
  <2>1. n + 1 \notin GatePressed'
    BY <1>0, <1>11
  <2> QED  BY <1>0, <1>9, <2>1, GateRunSteps, GateOpenedSteps
<1>12. ASSUME x.loud, x.cfg.VOXEnabled
       PROVE  /\ Cardinality(GateRun(GateLoud', n + 1)) = voxSustain + 1
              /\ n + 1 \in GateVoiced' <=>
                   voxLatched \/ voxSustain + 1 >= Gate!msToFrames(x.cfg.VOXMinLengthMS)
  <2>1. n + 1 \in GateLoud'
    BY <1>0, <1>12
  <2>2. Cardinality(GateRun(GateLoud', n + 1)) = voxSustain + 1
    BY <1>0, <1>8, <2>1, GateRunSteps
  <2>3. n + 1 \in GateVoiced' <=> voxLatched \/ n + 1 \in GateVoiceLong'
    BY <1>0, <1>7, <1>9, <2>1, GateOpenedSteps
  <2> QED  BY <1>9, <2>2, <2>3
<1>13. ASSUME ~(x.loud /\ x.cfg.VOXEnabled)
       PROVE  /\ Cardinality(GateRun(GateLoud', n + 1)) = 0
              /\ n + 1 \notin GateVoiced'
  <2>1. n + 1 \notin GateLoud'
    BY <1>0, <1>13
  <2> QED  BY <1>0, <1>9, <2>1, GateRunSteps, GateOpenedSteps
<1> QED  BY <1>5, <1>10, <1>11, <1>12, <1>13

\* A gate that has judged no frame keeps the invariant.
LEMMA GateInitial == Gate!Init => GateInv
<1> SUFFICES ASSUME Gate!Init PROVE GateInv
  OBVIOUS
<1>1. /\ cfg \in GateConfigs /\ inputs = <<>>
      /\ pttHeld = 0 /\ tail = 0 /\ voxSustain = 0 /\ voxHangLeft = 0
      /\ pttLatched = FALSE /\ voxLatched = FALSE
  BY DEF Gate!Init
<1>2. Len(inputs) = 0 /\ inputs \in Seq(GateFrame)
  BY <1>1, EmptySeq
<1>3. GateType
  BY <1>1, <1>2 DEF GateType
<1>4. GateRunsInv
  BY <1>1, <1>2, GateRunSteps DEF GateRunsInv, GateKeyed, GateVoiced
<1>5. GateTailInv
  <2>1. GateMarks(GateKeyed, Nat, 0) = {} /\ GateMarks(GateVoiced, GateVox, 0) = {}
    BY DEF GateMarks
  <2> QED  BY <1>1, <1>2, <2>1 DEF GateTailInv, GateLeft
<1>6. Gate!GateIsExact
  BY <1>2 DEF Gate!GateIsExact
<1> QED  BY <1>3, <1>4, <1>5, <1>6 DEF GateInv

\* The key's counters after a frame (Step).
LEMMA GatePressStep ==
  ASSUME GateType, GateRunsInv, GateTailInv, NEW in, NEW x \in GateFrame,
         x.PTT = in.PTT, x.PTT \in BOOLEAN, x.cfg = cfg, inputs' = Append(inputs, x), Gate!Press(in)
  PROVE  /\ pttHeld' \in Nat /\ tail' \in Nat /\ pttLatched' \in BOOLEAN
         /\ pttHeld' = Cardinality(GateRun(GatePressed', Len(inputs')))
         /\ pttLatched' <=> Len(inputs') \in GateKeyed'
         /\ GateLeft(GateKeyed', Nat, GateUp', GateRelease', Len(inputs'), tail')
         /\ Gate!PttOpen(in) <=>
              \/ Len(inputs') \in GateKeyed'
              \/ /\ Len(inputs') \in GateUp'
                 /\ \E k \in GateMarks(GateKeyed', Nat, Len(inputs')) :
                      GateSpent(GateUp', k, Len(inputs')) <= GateRelease'[k]
<1>0. PICK n : n = Len(inputs)
  OBVIOUS
<1>1. /\ n \in Nat /\ Len(inputs') = n + 1 /\ n + 1 \in Nat
      /\ n + 1 \in GatePressed' <=> x.PTT
      /\ n + 1 \in GateUp' <=> ~x.PTT
      /\ GateRelease'[n + 1] = Gate!msToFrames(x.cfg.PTTReleaseDelayMS)
  BY <1>0, GateGrows
<1>2. /\ pttHeld \in Nat /\ tail \in Nat /\ pttLatched \in BOOLEAN /\ cfg \in GateConfigs
      /\ Gate!msToFrames(cfg.PTTReleaseDelayMS) \in Nat
  BY GateDurations DEF GateType
<1>3. IF x.PTT
        THEN /\ Cardinality(GateRun(GatePressed', n + 1)) = pttHeld + 1
             /\ n + 1 \in GateKeyed' <=>
                  pttLatched \/ pttHeld + 1 > Gate!msToFrames(cfg.PTTStartDelayMS)
        ELSE /\ Cardinality(GateRun(GatePressed', n + 1)) = 0
             /\ n + 1 \notin GateKeyed'
  BY <1>0, GateRunsGrow
<1>4. GateLeft(GateKeyed', Nat, GateUp', GateRelease', n, tail)
  <2>1. GateLeft(GateKeyed, Nat, GateUp, GateRelease, n, tail)
    BY <1>0 DEF GateTailInv
  <2>2. \A m \in 1 .. n : /\ m \in GateUp <=> m \in GateUp'
                          /\ GateRelease[m] = GateRelease'[m]
    BY <1>0, GateGrows
  <2>3. \A m \in 1 .. n : m \in GateKeyed <=> m \in GateKeyed'
    BY <1>0, GateRunsGrow
  <2>4. n \in Nat /\ tail \in Nat
    BY <1>1, <1>2
  <2> QED  BY <2>1, <2>2, <2>3, <2>4, GateMarksAgree
<1>5. \A k \in 1 .. n + 1 : GateRelease'[k] \in Nat
  <2>1. inputs' \in Seq(GateFrame) /\ Len(inputs') = n + 1
    BY <1>0, GateGrows
  <2>2. \A k \in 1 .. n + 1 : inputs'[k] \in GateFrame
    BY <2>1
  <2>3. \A k \in 1 .. n + 1 : inputs'[k].cfg \in GateConfigs
    BY <2>2 DEF GateFrame
  <2> QED  BY <2>1, <2>3, GateDurations DEF GateRelease
<1>6. CASE x.PTT
  <2>1. /\ pttHeld' = pttHeld + 1
        /\ pttLatched' = (pttLatched \/ pttHeld' > Gate!msToFrames(cfg.PTTStartDelayMS))
        /\ tail' = IF pttLatched' THEN Gate!msToFrames(cfg.PTTReleaseDelayMS) ELSE tail
    BY <1>6 DEF Gate!Press, Gate!KeepsPress, Gate!TailOfPress
  <2>2. pttHeld' \in Nat /\ pttHeld' = Cardinality(GateRun(GatePressed', n + 1))
    BY <1>2, <1>3, <1>6, <2>1
  <2>3. pttLatched' \in BOOLEAN /\ (pttLatched' <=> n + 1 \in GateKeyed')
    BY <1>3, <1>6, <2>1
  <2>4. n + 1 \notin GateUp'
    BY <1>1, <1>6
  <2>5. tail' \in Nat /\ GateLeft(GateKeyed', Nat, GateUp', GateRelease', n + 1, tail')
    <3>1. CASE pttLatched'
      <4>1. tail' = GateRelease'[n + 1] /\ tail' \in Nat
        BY <1>1, <1>2, <2>1, <3>1
      <4>2. n + 1 \in GateKeyed'
        BY <2>3, <3>1
      <4>3. GateLeft(GateKeyed', Nat, GateUp', GateRelease', n + 1, GateRelease'[n + 1])
        BY <1>1, <1>2, <1>4, <1>5, <2>4, <4>2, GateLeftSteps
      <4> QED  BY <4>1, <4>3
    <3>2. CASE ~pttLatched'
      <4>1. tail' = tail /\ n + 1 \notin GateKeyed'
        BY <2>1, <2>3, <3>2
      <4> QED  BY <1>1, <1>2, <1>4, <1>5, <2>4, <4>1, GateLeftSteps
    <3> QED  BY <3>1, <3>2
  <2>6. Gate!PttOpen(in) <=> n + 1 \in GateKeyed'
    BY <1>6, <2>3 DEF Gate!PttOpen
  <2> QED  BY <1>1, <2>2, <2>3, <2>4, <2>5, <2>6
<1>7. CASE ~x.PTT
  <2>1. /\ pttHeld' = 0 /\ pttLatched' = FALSE
        /\ tail' = IF tail > 0 THEN tail - 1 ELSE 0
    BY <1>7 DEF Gate!Press
  <2>2. pttHeld' \in Nat /\ pttHeld' = Cardinality(GateRun(GatePressed', n + 1))
    BY <1>3, <1>7, <2>1
  <2>3. n + 1 \notin GateKeyed' /\ n + 1 \in GateUp'
    BY <1>1, <1>3, <1>7
  <2>4. tail' \in Nat
    BY <1>2, <2>1
  <2>5. GateLeft(GateKeyed', Nat, GateUp', GateRelease', n + 1, tail')
    BY <1>1, <1>2, <1>4, <1>5, <2>1, <2>3, GateLeftSteps
  <2>6. tail > 0 <=> \E k \in GateMarks(GateKeyed', Nat, n + 1) :
                       GateSpent(GateUp', k, n + 1) <= GateRelease'[k]
    BY <1>1, <1>2, <1>4, <1>5, <2>3, GateLeftOpen
  <2>7. Gate!PttOpen(in) <=> tail > 0
    BY <1>7 DEF Gate!PttOpen
  <2> QED  BY <1>1, <2>1, <2>2, <2>3, <2>4, <2>5, <2>6, <2>7
<1> QED  BY <1>6, <1>7

\* The level's counters after a frame (Step).
LEMMA GateVoxStep ==
  ASSUME GateType, GateRunsInv, GateTailInv, NEW in, NEW x \in GateFrame,
         x.loud = in.loud, x.loud \in BOOLEAN, x.cfg = cfg, inputs' = Append(inputs, x), Gate!Vox(in)
  PROVE  /\ voxSustain' \in Nat /\ voxHangLeft' \in Nat /\ voxLatched' \in BOOLEAN
         /\ voxSustain' = Cardinality(GateRun(GateLoud', Len(inputs')))
         /\ voxLatched' <=> Len(inputs') \in GateVoiced'
         /\ GateLeft(GateVoiced', GateVox', GateQuiet', GateHang', Len(inputs'), voxHangLeft')
         /\ Gate!VoxOpen(in) <=>
              \/ Len(inputs') \in GateVoiced'
              \/ /\ Len(inputs') \in GateQuiet'
                 /\ \E k \in GateMarks(GateVoiced', GateVox', Len(inputs')) :
                      GateSpent(GateQuiet', k, Len(inputs')) <= GateHang'[k]
<1>0. PICK n : n = Len(inputs)
  OBVIOUS
<1>1. /\ n \in Nat /\ Len(inputs') = n + 1 /\ n + 1 \in Nat
      /\ n + 1 \in GateVox' <=> cfg.VOXEnabled
      /\ n + 1 \in GateQuiet' <=> ~x.loud
      /\ GateHang'[n + 1] = Gate!msToFrames(x.cfg.VOXHangMS)
  BY <1>0, GateGrows
<1>2. /\ voxSustain \in Nat /\ voxHangLeft \in Nat /\ voxLatched \in BOOLEAN /\ cfg \in GateConfigs
      /\ Gate!msToFrames(cfg.VOXHangMS) \in Nat /\ cfg.VOXEnabled \in BOOLEAN
  BY GateDurations DEF GateType
<1>3. IF x.loud /\ cfg.VOXEnabled
        THEN /\ Cardinality(GateRun(GateLoud', n + 1)) = voxSustain + 1
             /\ n + 1 \in GateVoiced' <=>
                  voxLatched \/ voxSustain + 1 >= Gate!msToFrames(cfg.VOXMinLengthMS)
        ELSE /\ Cardinality(GateRun(GateLoud', n + 1)) = 0
             /\ n + 1 \notin GateVoiced'
  BY <1>0, GateRunsGrow
<1>4. GateLeft(GateVoiced', GateVox', GateQuiet', GateHang', n, voxHangLeft)
  <2>1. GateLeft(GateVoiced, GateVox, GateQuiet, GateHang, n, voxHangLeft)
    BY <1>0 DEF GateTailInv
  <2>2. \A m \in 1 .. n : /\ m \in GateQuiet <=> m \in GateQuiet'
                          /\ m \in GateVox <=> m \in GateVox'
                          /\ GateHang[m] = GateHang'[m]
    BY <1>0, GateGrows
  <2>3. \A m \in 1 .. n : m \in GateVoiced <=> m \in GateVoiced'
    BY <1>0, GateRunsGrow
  <2>4. n \in Nat /\ voxHangLeft \in Nat
    BY <1>1, <1>2
  <2> QED  BY <2>1, <2>2, <2>3, <2>4, GateMarksAgree
<1>5. \A k \in 1 .. n + 1 : GateHang'[k] \in Nat
  <2>1. inputs' \in Seq(GateFrame) /\ Len(inputs') = n + 1
    BY <1>0, GateGrows
  <2>2. \A k \in 1 .. n + 1 : inputs'[k] \in GateFrame
    BY <2>1
  <2>3. \A k \in 1 .. n + 1 : inputs'[k].cfg \in GateConfigs
    BY <2>2 DEF GateFrame
  <2> QED  BY <2>1, <2>3, GateDurations DEF GateHang
<1>6. CASE cfg.VOXEnabled /\ x.loud
  <2>1. /\ voxSustain' = voxSustain + 1
        /\ voxLatched' = (voxLatched \/ voxSustain' >= Gate!msToFrames(cfg.VOXMinLengthMS))
        /\ voxHangLeft' = IF voxLatched' THEN Gate!msToFrames(cfg.VOXHangMS) ELSE voxHangLeft
    BY <1>6 DEF Gate!Vox
  <2>2. voxSustain' \in Nat /\ voxSustain' = Cardinality(GateRun(GateLoud', n + 1))
    BY <1>2, <1>3, <1>6, <2>1
  <2>3. voxLatched' \in BOOLEAN /\ (voxLatched' <=> n + 1 \in GateVoiced')
    BY <1>3, <1>6, <2>1
  <2>4. n + 1 \notin GateQuiet' /\ n + 1 \in GateVox'
    BY <1>1, <1>6
  <2>5. voxHangLeft' \in Nat
        /\ GateLeft(GateVoiced', GateVox', GateQuiet', GateHang', n + 1, voxHangLeft')
    <3>1. CASE voxLatched'
      <4>1. voxHangLeft' = GateHang'[n + 1] /\ voxHangLeft' \in Nat
        BY <1>1, <1>2, <2>1, <3>1
      <4>2. n + 1 \in GateVoiced'
        BY <2>3, <3>1
      <4>3. GateLeft(GateVoiced', GateVox', GateQuiet', GateHang', n + 1, GateHang'[n + 1])
        BY <1>1, <1>2, <1>4, <1>5, <2>4, <4>2, GateLeftSteps
      <4> QED  BY <4>1, <4>3
    <3>2. CASE ~voxLatched'
      <4>1. voxHangLeft' = voxHangLeft /\ n + 1 \notin GateVoiced'
        BY <2>1, <2>3, <3>2
      <4> QED  BY <1>1, <1>2, <1>4, <1>5, <2>4, <4>1, GateLeftSteps
    <3> QED  BY <3>1, <3>2
  <2>6. Gate!VoxOpen(in) <=> n + 1 \in GateVoiced'
    BY <1>6, <2>3 DEF Gate!VoxOpen
  <2> QED  BY <1>1, <2>2, <2>3, <2>4, <2>5, <2>6
<1>7. CASE cfg.VOXEnabled /\ ~x.loud
  <2>1. /\ voxSustain' = 0 /\ voxLatched' = FALSE
        /\ voxHangLeft' = IF voxHangLeft > 0 THEN voxHangLeft - 1 ELSE 0
    BY <1>7 DEF Gate!Vox
  <2>2. voxSustain' \in Nat /\ voxSustain' = Cardinality(GateRun(GateLoud', n + 1))
    BY <1>3, <1>7, <2>1
  <2>3. n + 1 \notin GateVoiced' /\ n + 1 \in GateQuiet' /\ n + 1 \in GateVox'
    BY <1>1, <1>3, <1>7
  <2>4. voxHangLeft' \in Nat
    BY <1>2, <2>1
  <2>5. GateLeft(GateVoiced', GateVox', GateQuiet', GateHang', n + 1, voxHangLeft')
    BY <1>1, <1>2, <1>4, <1>5, <2>1, <2>3, GateLeftSteps
  <2>6. voxHangLeft > 0 <=> \E k \in GateMarks(GateVoiced', GateVox', n + 1) :
                              GateSpent(GateQuiet', k, n + 1) <= GateHang'[k]
    BY <1>1, <1>2, <1>4, <1>5, <2>3, GateLeftOpen
  <2>7. Gate!VoxOpen(in) <=> voxHangLeft > 0
    BY <1>7 DEF Gate!VoxOpen
  <2> QED  BY <1>1, <2>1, <2>2, <2>3, <2>4, <2>5, <2>6, <2>7
<1>8. CASE ~cfg.VOXEnabled
  <2>1. voxSustain' = 0 /\ voxLatched' = FALSE /\ voxHangLeft' = 0
    BY <1>8 DEF Gate!Vox, Gate!NoHang
  <2>2. voxSustain' \in Nat /\ voxSustain' = Cardinality(GateRun(GateLoud', n + 1))
    BY <1>3, <1>8, <2>1
  <2>3. n + 1 \notin GateVoiced' /\ n + 1 \notin GateVox'
    BY <1>1, <1>3, <1>8
  <2>4. GateLeft(GateVoiced', GateVox', GateQuiet', GateHang', n + 1, 0)
    BY <1>1, <1>2, <1>4, <1>5, <2>3, GateLeftSteps
  <2>5. GateMarks(GateVoiced', GateVox', n + 1) = {}
    BY <1>1, <2>3, GateMarksSteps
  <2>6. ~Gate!VoxOpen(in)
    BY <1>8 DEF Gate!VoxOpen
  <2> QED  BY <1>1, <2>1, <2>2, <2>3, <2>4, <2>5, <2>6
<1> QED  BY <1>6, <1>7, <1>8

\* The gate is open exactly when the frames and the settings say so.
LEMMA GateStepKeeps ==
  ASSUME GateInv, NEW in \in [PTT : BOOLEAN, Muted : BOOLEAN, loud : BOOLEAN], Gate!Step(in)
  PROVE  GateInv'
<1>0. PICK x : x = [PTT |-> in.PTT, loud |-> in.loud, cfg |-> cfg]
  OBVIOUS
<1>1. /\ GateType /\ GateRunsInv /\ GateTailInv /\ x \in GateFrame
      /\ x.PTT = in.PTT /\ x.loud = in.loud /\ x.cfg = cfg
      /\ x.PTT \in BOOLEAN /\ x.loud \in BOOLEAN
  BY <1>0 DEF GateInv, GateType, GateFrame
<1>2. /\ inputs' = Append(inputs, x) /\ Gate!Press(in) /\ Gate!Vox(in) /\ cfg' = cfg
      /\ gateOpen' = ((Gate!PttOpen(in) \/ Gate!VoxOpen(in)) /\ ~in.Muted)
      /\ muted' = in.Muted
  BY <1>0 DEF Gate!Step
<1>3. inputs' \in Seq(GateFrame) /\ Len(inputs') > 0
  <2>1. PICK n : n = Len(inputs)
    OBVIOUS
  <2>2. n \in Nat /\ Len(inputs') = n + 1 /\ inputs' \in Seq(GateFrame)
    BY <1>1, <1>2, <2>1, GateGrows
  <2> QED  BY <2>2
<1>4. /\ pttHeld' \in Nat /\ tail' \in Nat /\ pttLatched' \in BOOLEAN
      /\ pttHeld' = Cardinality(GateRun(GatePressed', Len(inputs')))
      /\ pttLatched' <=> Len(inputs') \in GateKeyed'
      /\ GateLeft(GateKeyed', Nat, GateUp', GateRelease', Len(inputs'), tail')
      /\ Gate!PttOpen(in) <=>
           \/ Len(inputs') \in GateKeyed'
           \/ /\ Len(inputs') \in GateUp'
              /\ \E k \in GateMarks(GateKeyed', Nat, Len(inputs')) :
                   GateSpent(GateUp', k, Len(inputs')) <= GateRelease'[k]
  BY <1>1, <1>2, GatePressStep
<1>5. /\ voxSustain' \in Nat /\ voxHangLeft' \in Nat /\ voxLatched' \in BOOLEAN
      /\ voxSustain' = Cardinality(GateRun(GateLoud', Len(inputs')))
      /\ voxLatched' <=> Len(inputs') \in GateVoiced'
      /\ GateLeft(GateVoiced', GateVox', GateQuiet', GateHang', Len(inputs'), voxHangLeft')
      /\ Gate!VoxOpen(in) <=>
           \/ Len(inputs') \in GateVoiced'
           \/ /\ Len(inputs') \in GateQuiet'
              /\ \E k \in GateMarks(GateVoiced', GateVox', Len(inputs')) :
                   GateSpent(GateQuiet', k, Len(inputs')) <= GateHang'[k]
  BY <1>1, <1>2, GateVoxStep
<1>6. GateType'
  BY <1>1, <1>2, <1>3, <1>4, <1>5 DEF GateType
<1>7. GateRunsInv'
  BY <1>4, <1>5 DEF GateRunsInv
<1>8. GateTailInv'
  BY <1>4, <1>5 DEF GateTailInv
<1>9. (/\ Gate!ByKey(Len(inputs)) <=> Len(inputs) \in GateKeyed
       /\ Gate!ByVoice(Len(inputs)) <=> Len(inputs) \in GateVoiced
       /\ Gate!InTail(Len(inputs)) <=>
            /\ Len(inputs) \in GateUp
            /\ \E k \in GateMarks(GateKeyed, Nat, Len(inputs)) :
                 GateSpent(GateUp, k, Len(inputs)) <= GateRelease[k]
       /\ Gate!InHang(Len(inputs)) <=>
            /\ Len(inputs) \in GateQuiet
            /\ \E k \in GateMarks(GateVoiced, GateVox, Len(inputs)) :
                 GateSpent(GateQuiet, k, Len(inputs)) <= GateHang[k])'
  BY <1>3, <1>6, GateMeaningNext
<1>10. /\ Gate!PttOpen(in) <=> Gate!ByKey(Len(inputs))' \/ Gate!InTail(Len(inputs))'
       /\ Gate!VoxOpen(in) <=> Gate!ByVoice(Len(inputs))' \/ Gate!InHang(Len(inputs))'
  BY <1>4, <1>5, <1>9
<1>11. Gate!GateIsExact'
  BY <1>2, <1>10 DEF Gate!GateIsExact
<1> QED  BY <1>6, <1>7, <1>8, <1>11 DEF GateInv

\* Every frame and every change of the settings keeps the invariant (Step,
\* SetConfig).
LEMMA GateStep == GateInv /\ [Gate!Next]_gateVars => GateInv'
<1> SUFFICES ASSUME GateInv, [Gate!Next]_gateVars PROVE GateInv'
  OBVIOUS
<1>1. ASSUME UNCHANGED <<pttHeld, tail, voxSustain, voxHangLeft, pttLatched, voxLatched, gateOpen,
                         muted, inputs>>,
             cfg' \in GateConfigs
      PROVE  GateInv'
  <2>1. GateType'
    BY <1>1 DEF GateInv, GateType
  <2>2. /\ GatePressed' = GatePressed /\ GateUp' = GateUp /\ GateLoud' = GateLoud
        /\ GateQuiet' = GateQuiet /\ GateVox' = GateVox
        /\ GateRelease' = GateRelease /\ GateHang' = GateHang
    BY <1>1 DEF GatePressed, GateUp, GateLoud, GateQuiet, GateVox, GateRelease, GateHang, Gate!Loud
  <2>3. GateKeyLong' = GateKeyLong /\ GateVoiceLong' = GateVoiceLong
    BY <1>1, <2>2 DEF GateKeyLong, GateVoiceLong
  <2>4. GateKeyed' = GateKeyed /\ GateVoiced' = GateVoiced
    BY <1>1, <2>2, <2>3 DEF GateKeyed, GateVoiced
  <2>5. GateRunsInv' /\ GateTailInv'
    BY <1>1, <2>2, <2>4 DEF GateInv, GateRunsInv, GateTailInv
  <2>6. Gate!GateIsExact'
    <3>0. inputs' = inputs /\ gateOpen' = gateOpen /\ muted' = muted
      BY <1>1
    <3>1. \A k : Gate!KeyRun(k)' = Gate!KeyRun(k) /\ Gate!LoudRun(k)' = Gate!LoudRun(k)
      BY <3>0 DEF Gate!KeyRun, Gate!LoudRun, Gate!Loud
    <3>2. \A k : Gate!ByKey(k)' <=> Gate!ByKey(k)
      BY <3>0, <3>1 DEF Gate!ByKey
    <3>3. \A k : Gate!ByVoice(k)' <=> Gate!ByVoice(k)
      BY <3>0, <3>1 DEF Gate!ByVoice
    <3>4. \A k : Gate!InTail(k)' <=> Gate!InTail(k)
      BY <3>0, <3>2 DEF Gate!InTail
    <3>5. \A k : Gate!InHang(k)' <=> Gate!InHang(k)
      BY <3>0, <3>3 DEF Gate!InHang
    <3> QED  BY <3>0, <3>2, <3>3, <3>4, <3>5 DEF GateInv, Gate!GateIsExact
  <2> QED  BY <2>1, <2>5, <2>6 DEF GateInv
<1>2. ASSUME NEW c \in GateConfigs, Gate!SetConfig(c) PROVE GateInv'
  BY <1>1, <1>2 DEF Gate!SetConfig
<1>3. ASSUME NEW in \in [PTT : BOOLEAN, Muted : BOOLEAN, loud : BOOLEAN], Gate!Step(in)
      PROVE  GateInv'
  BY <1>3, GateStepKeeps
<1>4. CASE UNCHANGED gateVars
  BY <1>1, <1>4 DEF gateVars, GateInv, GateType
<1> QED  BY <1>2, <1>3, <1>4 DEF Gate!Next

(***************************************************************************)
(* The parts of a voice session together                                   *)
(***************************************************************************)

\* The round trip a session shows lies between a keepalive and a reply to it or
\* to a later one, and to it if no datagram was lost, for any number of
\* keepalives, losses, rebinds and sockets (recordKeepalive, resetBindingLocked).
THEOREM RoundTripMeasured == SideSpec => []RoundTripIsTrue
<1>1. SideInit => KAInv
  BY SideKeepalive, KAInitial
<1>2. KAInv /\ [SideNext]_allVars => KAInv'
  BY SideKeepalive, KAPreserved
<1>3. KAInv => RoundTripIsTrue
  BY DEF KAInv, RoundTripIsTrue
<1> QED BY <1>1, <1>2, <1>3, PTL DEF SideSpec

\* A step of a session's parts is a step of the transmit path or leaves it
\* alone, and the same for the gate.
LEMMA SideTransmit ==
  /\ SideInit => Transmit!Init /\ Gate!Init
  /\ [SideNext]_allVars => [Transmit!Next]_transmitVars /\ [Gate!Next]_gateVars
BY DEF SideInit, SideNext, allVars

\* What the microphone records reaches the gate whole and in order or is
\* dropped whole, for any ring, frame and chunk; the gate is open exactly when
\* the frames so far and the settings each was judged by say so, for any
\* settings changed at any time; and a frame that is sent is of one
\* transmission, no buffer is lost, the packets of a frequency are numbered
\* without a gap and the encoder outlives its use, for any number of DSP loops
\* (Write, Read, Step, WriteFrame, txLoop, Close).
THEOREM TransmitFaithful == SideSpec => []TransmitIsFaithful
<1>1. SideInit => TxInv /\ GateInv
  BY SideTransmit, TxInitial, GateInitial
<1>2. TxInv /\ GateInv /\ [SideNext]_allVars => (TxInv /\ GateInv)'
  BY SideTransmit, TxStep, GateStep
<1>3. TxInv /\ GateInv /\ Path!CaptureIsFaithful => TransmitIsFaithful
  BY TxHolds DEF GateInv, TransmitIsFaithful
<1> QED  BY <1>1, <1>2, <1>3, PathKept, PTL DEF SideSpec

\* A step of a session's parts is a step of the reception or leaves it alone.
LEMMA SideReceive ==
  /\ SideInit => Receive!Init
  /\ [SideNext]_allVars => [Receive!Next]_receiveVars
BY DEF SideInit, SideNext, allVars

\* Of a stream that plays nothing waits behind the playout, across any number
\* of losses, delays, reorderings, wraps of the sequence numbers and streams of
\* the talker, and whatever the bound of the buffer evicts; and a stream of a
\* silent talker is gone when the decode goroutine has done its tick, whether it
\* ever played or not.  No datagram is on its way for half a cycle of the numbers
\* (rxVoice, push, pop, advanceLocked, rxService, reap).
THEOREM StreamFollows == SideSpec => []StreamFollowsTalker
<1>1. SideInit => RxInv
  BY SideReceive, RxInitial
<1>2. RxInv /\ [SideNext]_allVars => RxInv'
  BY SideReceive, RxStep
<1>3. RxInv => StreamFollowsTalker
  BY DEF RxInv, StreamFollowsTalker
<1> QED  BY <1>1, <1>2, <1>3, PTL DEF SideSpec
=============================================================================

---------------------------- MODULE VoiceSession ----------------------------
(***************************************************************************)
(* The lifecycle of a voice session (internal/voice/session.go): one UDP   *)
(* socket at a time, the HELLO ladder that binds its source address at the *)
(* server, the keepalives that notice a lost binding, Close and the        *)
(* ordered delivery of state transitions.                                  *)
(*                                                                         *)
(* Sockets are their generation numbers.  The network loses and reorders   *)
(* datagrams.  Time is abstracted: a wait may end at any moment or, with   *)
(* Patient, only when no datagram is on its way that would end it earlier. *)
(***************************************************************************)
EXTENDS Integers, Sequences

CONSTANTS Attempts,     \* Len(helloLadder)
          LossThreshold,\* bindingLossThreshold
          EventMax,     \* eventBuffer
          MaxGen,       \* bound: sockets
          MaxPending,   \* bound: transitions waiting for OnState when a wait ends
          MaxFaults,    \* bound: lost datagrams, server restarts, failed dials and reads
          Patient       \* a wait outlasts the datagrams on their way

ASSUME VoiceAssumption ==
  /\ Attempts \in Nat \ {0} /\ LossThreshold \in Nat \ {0} /\ EventMax \in Nat
  /\ MaxGen \in Nat /\ MaxFaults \in Nat /\ MaxPending \in Nat /\ Patient \in BOOLEAN

VARIABLES
  state,       \* Session.state
  cbQueue,     \* Session.cbQueue
  cbFinal,     \* Session.cbFinal
  seen,        \* the transition delivered last
  deliverer,   \* where deliverLoop is
  conn,        \* Session.conn: the generation of its socket, or None
  gen,         \* Session.gen
  closed,      \* Session.closed
  done,        \* Session.done is closed
  events,      \* Session.events
  lifecycle,   \* where lifecycleLoop is
  rebinding,   \* its local of that name
  attempt,     \* the ladder's attempt
  unanswered,  \* serve's local of that name
  rxLoops,     \* the sockets whose rxLoop runs
  closer,      \* where the first Close is
  toServer,    \* datagrams on their way
  toClient,
  bound,       \* the socket the server has bound the session to, or None
  acked,       \* the sockets whose HELLO the server has acknowledged (history)
  faults

stateVars  == <<state, cbQueue, cbFinal>>
socketVars == <<conn, gen>>
loopVars   == <<lifecycle, rebinding, attempt, unanswered>>
netVars    == <<toServer, toClient, bound, acked>>
closeVars  == <<closed, done, closer>>
vars == <<stateVars, seen, deliverer, socketVars, closeVars, events, loopVars, rxLoops,
          netVars, faults>>

None == 0
Gens == 1..MaxGen
States == {"idle", "resolving", "handshaking", "connected", "rebinding", "retrying", "closed"}
Requests == [type : {"hello", "keepalive", "bye"}, gen : Gens]
Replies  == [type : {"ack", "reply"}, gen : Gens]

\* setState(resolving) of Dial has been made; its openSocket is next.
Init ==
  /\ state = "resolving" /\ cbQueue = <<"resolving">> /\ cbFinal = FALSE
  /\ seen = "idle" /\ deliverer = "idle"
  /\ conn = None /\ gen = 0 /\ closed = FALSE /\ done = FALSE
  /\ events = <<>> /\ lifecycle = "dial" /\ rebinding = FALSE
  /\ attempt = 0 /\ unanswered = 0 /\ rxLoops = {}
  /\ closer = "idle" /\ toServer = {} /\ toClient = {} /\ bound = None /\ acked = {}
  /\ faults = 0

----------------------------------------------------------------------------
(* What the steps are made of.                                             *)

Last(s) == s[Len(s)]

\* Mutant: a transition that finds deliverLoop awake is not queued.
SetStatesIfIdle(sts) ==
  /\ state' = Last(sts)
  /\ cbQueue' = IF cbQueue = <<>> THEN sts ELSE cbQueue
  /\ cbFinal' = (cbFinal \/ Last(sts) = "closed")

\* setState for each of sts in turn; nothing is published after closed.
SetStates(sts) ==
  IF cbFinal THEN UNCHANGED stateVars
  ELSE /\ state' = Last(sts)
       /\ cbQueue' = cbQueue \o sts
       /\ cbFinal' = (Last(sts) = "closed")

\* send: nothing goes out on a closed session.
Send(type) ==
  toServer' = IF closed \/ conn = None THEN toServer
              ELSE toServer \cup {[type |-> type, gen |-> conn]}

\* Mutant: an acknowledgement counts whatever socket it arrived on.
OfAnySocket(ev) == TRUE

\* The event arrived on the socket that is open now.
OfThisSocket(ev) == ev.gen = gen

TimeOut ==
  /\ Len(cbQueue) <= MaxPending
  /\ Patient => events = <<>> /\ ~\E m \in toServer \cup toClient : m.gen = conn

Fault == faults < MaxFaults /\ faults' = faults + 1

----------------------------------------------------------------------------
(* lifecycleLoop.                                                          *)

\* runLadder starts over on the present socket.
Ladder(sts) ==
  /\ SetStates(sts \o <<"handshaking">>)
  /\ lifecycle' = "hello" /\ attempt' = 1

SendHello ==
  /\ lifecycle = "hello"
  /\ Send("hello")
  /\ lifecycle' = "ladder"
  /\ UNCHANGED <<stateVars, seen, deliverer, socketVars, closeVars, events, rebinding, attempt,
                 unanswered, rxLoops, toClient, bound, acked, faults>>

\* wait: an event is taken off the queue; the ladder is looking for an ACK.
LadderEvent ==
  /\ lifecycle = "ladder" /\ events # <<>>
  /\ events' = Tail(events)
  /\ IF OfThisSocket(Head(events)) /\ Head(events).type = "ack"
     THEN /\ rebinding' = FALSE /\ unanswered' = 0
          /\ SetStates(<<"connected">>) /\ lifecycle' = "keepalive"
     ELSE UNCHANGED <<stateVars, lifecycle, rebinding, unanswered>>
  /\ UNCHANGED <<seen, deliverer, socketVars, closeVars, attempt, rxLoops, netVars, faults>>

\* A rung has passed: the next one, or the ladder is exhausted.
LadderTimeOut ==
  /\ lifecycle = "ladder" /\ TimeOut
  /\ IF attempt < Attempts
     THEN lifecycle' = "hello" /\ attempt' = attempt + 1 /\ UNCHANGED <<stateVars, rebinding>>
     ELSE /\ UNCHANGED attempt /\ rebinding' = FALSE
          /\ IF rebinding
             THEN SetStates(<<"resolving">>) /\ lifecycle' = "resolve"
             ELSE SetStates(<<"retrying">>) /\ lifecycle' = "pause"
  /\ UNCHANGED <<seen, deliverer, socketVars, closeVars, events, unanswered, rxLoops, netVars, faults>>

\* serve sends a keepalive and counts it as unanswered.
SendKeepalive ==
  /\ lifecycle = "keepalive"
  /\ Send("keepalive")
  /\ unanswered' = unanswered + 1
  /\ lifecycle' = "serve"
  /\ UNCHANGED <<stateVars, seen, deliverer, socketVars, closeVars, events, rebinding, attempt,
                 rxLoops, toClient, bound, acked, faults>>

\* Mutant: a reply does not clear the count.
ServeEventKeepsCount ==
  /\ lifecycle = "serve" /\ events # <<>>
  /\ events' = Tail(events)
  /\ UNCHANGED <<stateVars, seen, deliverer, socketVars, closeVars, loopVars, rxLoops, netVars, faults>>

ServeEvent ==
  /\ lifecycle = "serve" /\ events # <<>>
  /\ events' = Tail(events)
  /\ unanswered' = IF OfThisSocket(Head(events)) /\ Head(events).type = "reply"
                   THEN 0 ELSE unanswered
  /\ UNCHANGED <<stateVars, seen, deliverer, socketVars, closeVars, lifecycle, rebinding, attempt,
                 rxLoops, netVars, faults>>

\* A keepalive period has passed; silence past the threshold is a lost binding,
\* answered with a ladder on the same socket.
ServeTimeOut ==
  /\ lifecycle = "serve" /\ TimeOut
  /\ IF unanswered >= LossThreshold
     THEN Ladder(<<"rebinding">>) /\ rebinding' = TRUE /\ unanswered' = 0
     ELSE lifecycle' = "keepalive" /\ UNCHANGED <<stateVars, rebinding, attempt, unanswered>>
  /\ UNCHANGED <<seen, deliverer, socketVars, closeVars, events, rxLoops, netVars, faults>>

\* retryInterval: whatever arrives meanwhile is dropped.
PauseEvent ==
  /\ lifecycle = "pause" /\ events # <<>>
  /\ events' = Tail(events)
  /\ UNCHANGED <<stateVars, seen, deliverer, socketVars, closeVars, loopVars, rxLoops, netVars, faults>>

PauseEnds ==
  /\ lifecycle = "pause" /\ TimeOut
  /\ SetStates(<<"resolving">>) /\ lifecycle' = "resolve"
  /\ UNCHANGED <<seen, deliverer, socketVars, closeVars, events, rebinding, attempt, unanswered,
                 rxLoops, netVars, faults>>

\* Mutant: a socket is installed without looking at closed.
OpenUnchecked ==
  /\ lifecycle \in {"dial", "resolve"} /\ gen < MaxGen
  /\ gen' = gen + 1 /\ conn' = gen + 1
  /\ rxLoops' = rxLoops \cup {gen + 1}
  /\ Ladder(<<>>)
  /\ UNCHANGED <<seen, deliverer, closeVars, events, rebinding, unanswered, netVars, faults>>

\* openSocket: the old socket is closed, and a ladder starts on the new one.
Open ==
  /\ lifecycle \in {"dial", "resolve"} /\ gen < MaxGen /\ ~closed
  /\ gen' = gen + 1 /\ conn' = gen + 1
  /\ rxLoops' = rxLoops \cup {gen + 1}
  /\ Ladder(<<>>)
  /\ UNCHANGED <<seen, deliverer, closeVars, events, rebinding, unanswered, netVars, faults>>

\* Resolving or dialing fails; the first time there is no session to return.
OpenFails ==
  /\ lifecycle \in {"dial", "resolve"} /\ Fault
  /\ IF lifecycle = "dial"
     THEN SetStates(<<"closed">>) /\ lifecycle' = "exited"
     ELSE SetStates(<<"retrying">>) /\ lifecycle' = "pause"
  /\ UNCHANGED <<seen, deliverer, socketVars, closeVars, events, rebinding, attempt, unanswered,
                 rxLoops, netVars>>

\* done ends every wait and the resolver; openSocket also looks at closed.
Exit ==
  /\ \/ done /\ lifecycle \in {"ladder", "serve", "pause", "resolve"}
     \/ closed /\ lifecycle = "resolve"
  /\ lifecycle' = "exited"
  /\ UNCHANGED <<stateVars, seen, deliverer, socketVars, closeVars, events, rebinding, attempt,
                 unanswered, rxLoops, netVars, faults>>

----------------------------------------------------------------------------
(* rxLoop of one socket.                                                   *)

\* A control datagram is queued, or dropped when the queue is full.
Read(m) ==
  /\ m \in toClient /\ m.gen \in rxLoops
  /\ toClient' = toClient \ {m}
  /\ events' = IF Len(events) < EventMax THEN Append(events, m) ELSE events
  /\ UNCHANGED <<stateVars, seen, deliverer, socketVars, closeVars, loopVars, rxLoops, toServer,
                 bound, acked, faults>>

\* The socket has been closed under it.
EndRead(g) ==
  /\ g \in rxLoops /\ g # conn /\ (closed => done)
  /\ rxLoops' = rxLoops \ {g}
  /\ UNCHANGED <<stateVars, seen, deliverer, socketVars, closeVars, events, loopVars, netVars, faults>>

\* Any other error ends it as well, and nobody reads the open socket any more.
ReadFails(g) ==
  /\ g \in rxLoops /\ Fault
  /\ rxLoops' = rxLoops \ {g}
  /\ UNCHANGED <<stateVars, seen, deliverer, socketVars, closeVars, events, loopVars, netVars>>

----------------------------------------------------------------------------
(* Close and deliverLoop.                                                  *)

\* Mutant: the session is not marked closed with the BYE.
ByeUnmarked ==
  /\ closer = "idle" /\ lifecycle # "dial" /\ state # "closed"
  /\ Send("bye")
  /\ closer' = "bye" /\ UNCHANGED <<closed, conn>>

\* The BYE and the mark are made under one hold of mu.
Bye ==
  /\ closer = "idle" /\ lifecycle # "dial" /\ state # "closed"
  /\ Send("bye")
  /\ closed' = TRUE /\ conn' = None /\ closer' = "bye"

Close ==
  /\ Bye
  /\ UNCHANGED <<stateVars, seen, deliverer, gen, done, events, loopVars, rxLoops,
                 toClient, bound, acked, faults>>

\* close(done) and the socket.
CloseSocket ==
  /\ closer = "bye"
  /\ done' = TRUE /\ closer' = "join"
  /\ UNCHANGED <<stateVars, seen, deliverer, socketVars, closed, events, loopVars, rxLoops, netVars, faults>>

\* Mutant: deliverLoop is one of the goroutines Close joins.
JoinAll ==
  /\ closer = "join" /\ lifecycle = "exited" /\ rxLoops = {} /\ deliverer = "idle"
  /\ SetStates(<<"closed">>)
  /\ closer' = "returned"
  /\ UNCHANGED <<seen, deliverer, socketVars, closed, done, events, loopVars, rxLoops, netVars, faults>>

\* wg.Wait, then the last transition.
Join ==
  /\ closer = "join" /\ lifecycle = "exited" /\ rxLoops = {}
  /\ SetStates(<<"closed">>)
  /\ closer' = "returned"
  /\ UNCHANGED <<seen, deliverer, socketVars, closed, done, events, loopVars, rxLoops, netVars, faults>>

\* OnState is called with the oldest transition.
Deliver ==
  /\ deliverer = "idle" /\ cbQueue # <<>>
  /\ seen' = Head(cbQueue) /\ cbQueue' = Tail(cbQueue)
  /\ deliverer' = "callback"
  /\ UNCHANGED <<state, cbFinal, socketVars, closeVars, events, loopVars, rxLoops, netVars, faults>>

\* OnState may call Close; only the first call does anything, the others wait.
CallbackCloses ==
  /\ deliverer = "callback" /\ deliverer' = "closing"
  /\ \/ Bye
     \/ closer # "idle" /\ UNCHANGED <<toServer, closed, conn, closer>>
  /\ UNCHANGED <<stateVars, seen, gen, done, events, loopVars, rxLoops, toClient, bound, acked, faults>>

Delivered ==
  /\ deliverer = "callback" \/ (deliverer = "closing" /\ closer = "returned")
  /\ deliverer' = IF seen = "closed" THEN "exited" ELSE "idle"
  /\ UNCHANGED <<stateVars, seen, socketVars, closeVars, events, loopVars, rxLoops, netVars, faults>>

----------------------------------------------------------------------------
(* The voice server and the network.                                       *)

\* A HELLO binds the session to its source address; a keepalive is answered and
\* a BYE obeyed only at the bound address.
Serve(m) ==
  /\ m \in toServer /\ toServer' = toServer \ {m}
  /\ bound' = CASE m.type = "hello" -> m.gen
                [] m.type = "bye" /\ bound = m.gen -> None
                [] OTHER -> bound
  /\ toClient' = toClient \cup
       {r \in Replies : /\ r.gen = m.gen
                        /\ \/ m.type = "hello" /\ r.type = "ack"
                           \/ m.type = "keepalive" /\ bound = m.gen /\ r.type = "reply"}
  /\ acked' = IF m.type = "hello" THEN acked \cup {m.gen} ELSE acked
  /\ UNCHANGED <<stateVars, seen, deliverer, socketVars, closeVars, events, loopVars, rxLoops, faults>>

\* The server restarts or sweeps the session.
Unbind ==
  /\ bound # None /\ Fault /\ bound' = None
  /\ UNCHANGED <<stateVars, seen, deliverer, socketVars, closeVars, events, loopVars, rxLoops,
                 toServer, toClient, acked>>

Lose(m) ==
  /\ Fault
  /\ m \in toServer \cup toClient
  /\ toServer' = toServer \ {m} /\ toClient' = toClient \ {m}
  /\ UNCHANGED <<stateVars, seen, deliverer, socketVars, closeVars, events, loopVars, rxLoops,
                 bound, acked>>

\* A datagram to a socket nobody reads.
Undeliverable(m) ==
  /\ m \in toClient /\ m.gen \notin rxLoops
  /\ toClient' = toClient \ {m}
  /\ UNCHANGED <<stateVars, seen, deliverer, socketVars, closeVars, events, loopVars, rxLoops,
                 toServer, bound, acked, faults>>

LifecycleStep ==
  \/ SendHello \/ LadderEvent \/ LadderTimeOut \/ SendKeepalive \/ ServeEvent \/ ServeTimeOut
  \/ PauseEvent \/ PauseEnds \/ Open \/ OpenFails

ReadStep    == \/ \E m \in toClient : Read(m)
               \/ \E g \in rxLoops : EndRead(g) \/ ReadFails(g)
CloseStep   == CloseSocket \/ Join
DeliverStep == Deliver \/ Delivered
NetStep     == \/ \E m \in toServer : Serve(m)
               \/ \E m \in toServer \cup toClient : Lose(m)
               \/ \E m \in toClient : Undeliverable(m)
               \/ Unbind

Next ==
  \/ LifecycleStep \/ Exit \/ ReadStep \/ Close \/ CloseStep
  \/ DeliverStep \/ CallbackCloses \/ NetStep

Spec == Init /\ [][Next]_vars

----------------------------------------------------------------------------
(* Properties.                                                             *)

\* The session's fields and its goroutines' locals keep their types.
TypeOK ==
  /\ state \in States /\ cbQueue \in Seq(States) /\ cbFinal \in BOOLEAN /\ seen \in States
  /\ deliverer \in {"idle", "callback", "closing", "exited"}
  /\ conn \in {None, gen} /\ gen \in 0..MaxGen
  /\ closed \in BOOLEAN /\ done \in BOOLEAN
  /\ events \in Seq(Replies) /\ Len(events) <= EventMax
  /\ lifecycle \in {"dial", "hello", "ladder", "keepalive", "serve", "pause", "resolve", "exited"}
  /\ rebinding \in BOOLEAN /\ attempt \in 0..Attempts /\ unanswered \in 0..LossThreshold
  /\ rxLoops \subseteq 1..gen
  /\ closer \in {"idle", "bye", "join", "returned"}
  /\ toServer \subseteq Requests /\ toClient \subseteq Replies
  /\ bound \in {None} \cup Gens /\ acked \subseteq Gens /\ faults \in 0..MaxFaults

\* The session is connected only over a socket whose HELLO the server has
\* acknowledged, whatever is still on its way from earlier sockets (event.gen,
\* "cannot satisfy a wait belonging to the new socket").
ConnectedIsAcknowledged == state = "connected" => gen \in acked

\* Once Close has said goodbye no datagram follows it: a late HELLO would leave
\* a ghost client bound at the server (Close).
NothingAfterBye == [][closer # "idle" => toServer' \subseteq toServer]_vars

\* The transitions waiting for OnState end in the present state, so that an
\* observer that has seen them all knows it (setState, deliverLoop).
ObserverCatchesUp ==
  IF cbQueue = <<>> THEN seen = state ELSE Last(cbQueue) = state

\* A closed session gets no socket any more, though the lifecycle may have been
\* resolving when it was closed (openSocket); Close would wait for its rxLoop.
NoSocketAfterClose == closed => conn = None

\* What State and OnState report of the session is true of its socket.
ReportedStateIsTrue == ConnectedIsAcknowledged /\ ObserverCatchesUp /\ NoSocketAfterClose


\* Close returns, also when OnState called it, and its transition is delivered.
CloseReturns == (closer = "bye") ~> (closer = "returned" /\ deliverer = "exited")

\* When the server and the network behave again the session is connected again,
\* and stays so (lifecycleLoop).
Recovers == <>[](closer # "idle" \/ state = "closed" \/ (state = "connected" /\ bound = conn))

\* Goroutines run on and callbacks return; a wait that finds done ready takes it
\* sooner or later; the server answers and the network delivers.
FairSpec ==
  /\ Spec
  /\ WF_vars(LifecycleStep) /\ SF_vars(Exit)
  /\ WF_vars(CloseStep) /\ WF_vars(DeliverStep)
  /\ \A g \in Gens : WF_vars(EndRead(g))
  /\ \A m \in Requests : WF_vars(Serve(m))
  /\ \A m \in Replies : WF_vars(Read(m)) /\ WF_vars(Undeliverable(m))
=============================================================================

--------------------------- MODULE TransmissionRows ---------------------------
(***************************************************************************)
(* The rows of the transmission log that a voice session reports: the      *)
(* decode goroutine ends a transmission that has gone quiet, Close ends    *)
(* those that are open, and a delivery goroutine takes their rows to OnRX  *)
(* (internal/voice/rx.go, session.go).                                     *)
(*                                                                         *)
(* A row is the number of its transmission.  A pass of the decode          *)
(* goroutine reads the clock once, so time passes between passes.          *)
(***************************************************************************)
EXTENDS Integers, Sequences, FiniteSets

CONSTANTS Talkers,    \* stream keys
          QueueMax,   \* rxEventBuffer
          MaxRows     \* bound: transmissions

RowsAssumption == QueueMax \in Nat /\ MaxRows \in Nat

VARIABLES
  streams,   \* rxState.streams, with lastSeen as an age
  muHeld,    \* endTransmission is between its load and its store, under rx.mu
  reader,    \* where rxLoop is with a packet
  pass,      \* where the decode goroutine is
  queue,     \* Session.rxEvents
  delivery,  \* where rxDeliverLoop is
  closer,    \* where Close is
  sweep,     \* the rows endOpenRXStreams has yet to queue
  done,      \* Session.done is closed
  begun,     \* transmissions so far
  owed,      \* those begun before endOpenRXStreams (history)
  logged,    \* how often OnRX had each (history)
  dropped    \* a row met a full queue (history)

rx == <<streams, muHeld, reader, begun, owed>>
rows == <<queue, dropped>>
closing == <<closer, sweep, done>>
vars == <<rx, pass, rows, delivery, logged, closing>>

Rows == 1..MaxRows
Fresh == "fresh"    \* lastSeen is less than historyIdle ago
Idle == "idle"      \* at least historyIdle
Silent == "silent"  \* at least rxIdleTimeout, which is longer

None == [at |-> "none"]
AtRest == [at |-> "idle"]
Exited == [at |-> "exited"]
Open == {t \in Talkers : streams[t] # None}

Init ==
  /\ streams = [t \in Talkers |-> None] /\ muHeld = FALSE
  /\ reader = AtRest /\ pass = AtRest /\ delivery = AtRest
  /\ queue = <<>> /\ dropped = FALSE
  /\ closer = "open" /\ sweep = {} /\ done = FALSE
  /\ begun = 0 /\ owed = {} /\ logged = [n \in Rows |-> 0]

-----------------------------------------------------------------------------
(* The receive goroutine.                                                  *)

\* A transmission of t begins, and is owed a row unless Close has swept.
Begins(t) ==
  /\ begun < MaxRows /\ begun' = begun + 1
  /\ streams' = [streams EXCEPT ![t] = [started |-> begun + 1, ended |-> FALSE, seen |-> Fresh]]
  /\ owed' = IF closer = "open" THEN owed \cup {begun + 1} ELSE owed

\* rxVoice finds the stream of a packet, or opens it.
Packet(t) ==
  /\ reader = AtRest /\ ~done /\ ~muHeld
  /\ reader' = [at |-> "found", key |-> t]
  /\ IF t \in Open THEN UNCHANGED <<streams, begun, owed>> ELSE Begins(t)
  /\ UNCHANGED <<muHeld, pass, rows, delivery, logged, closing>>

\* lastSeen.Store, an atomic without the lock.
Stamps ==
  /\ reader.at = "found"
  /\ streams' = [streams EXCEPT ![reader.key].seen = Fresh]
  /\ reader' = [reader EXCEPT !.at = "stamped"]
  /\ UNCHANGED <<muHeld, begun, owed, pass, rows, delivery, logged, closing>>

\* The unlocked hint: the stream's last transmission is over, or goes on.
Hints ==
  /\ reader.at = "stamped"
  /\ reader' = IF streams[reader.key].ended THEN [reader EXCEPT !.at = "restart"] ELSE AtRest
  /\ UNCHANGED <<streams, muHeld, begun, owed, pass, rows, delivery, logged, closing>>

\* The decision, under rx.mu.
Restarts ==
  /\ reader.at = "restart" /\ ~muHeld
  /\ reader' = AtRest
  /\ IF streams[reader.key].ended THEN Begins(reader.key) ELSE UNCHANGED <<streams, begun, owed>>
  /\ UNCHANGED <<muHeld, pass, rows, delivery, logged, closing>>

-----------------------------------------------------------------------------
(* The decode goroutine.                                                   *)

Ages(t) ==
  /\ pass = AtRest /\ t \in Open /\ streams[t].seen # Silent
  /\ streams' = [streams EXCEPT ![t].seen = IF @ = Fresh THEN Idle ELSE Silent]
  /\ UNCHANGED <<muHeld, reader, begun, owed, pass, rows, delivery, logged, closing>>

\* rxService begins, over the snapshot of the streams.
PassBegins ==
  /\ pass = AtRest /\ Open # {}
  /\ pass' = [at |-> "scan", todo |-> Open, silent |-> {}]
  /\ UNCHANGED <<rx, rows, delivery, logged, closing>>

\* The unlocked check of one stream, for both ends it may come to.
Scans(t) ==
  /\ pass.at = "scan" /\ t \in pass.todo
  /\ LET st == streams[t]
         due == ~st.ended /\ st.seen # Fresh
     IN pass' = [at |-> IF due THEN "ending" ELSE "scan", key |-> t,
                 todo |-> pass.todo \ {t},
                 silent |-> IF st.seen = Silent THEN pass.silent \cup {t} ELSE pass.silent]
  /\ UNCHANGED <<rx, rows, delivery, logged, closing>>

\* Mutant: endTransmission trusts the check its caller made without the lock.
EndLoadsNothing ==
  /\ pass.at = "ending" /\ ~muHeld
  /\ muHeld' = TRUE
  /\ pass' = [pass EXCEPT !.at = "storing"]
  /\ UNCHANGED <<streams, reader, begun, owed, rows, delivery, logged, closing>>

\* endTransmission takes rx.mu and loads lastSeen and ended again.
EndLoads ==
  /\ pass.at = "ending" /\ ~muHeld
  /\ LET st == streams[pass.key]
         over == ~st.ended /\ st.seen # Fresh
     IN /\ muHeld' = over
        /\ pass' = [pass EXCEPT !.at = IF over THEN "storing" ELSE "scan"]
  /\ UNCHANGED <<streams, reader, begun, owed, rows, delivery, logged, closing>>

\* It stores ended and returns the row; a packet may have been stamped since.
EndStores ==
  /\ pass.at = "storing"
  /\ streams' = [streams EXCEPT ![pass.key].ended = TRUE]
  /\ muHeld' = FALSE
  /\ pass' = [at |-> "queueing", key |-> streams[pass.key].started,
              todo |-> pass.todo, silent |-> pass.silent]
  /\ UNCHANGED <<reader, begun, owed, rows, delivery, logged, closing>>

\* queueRXEvent: a full queue drops the row.
Queues(n) ==
  IF Len(queue) < QueueMax
    THEN queue' = Append(queue, n) /\ UNCHANGED dropped
    ELSE dropped' = TRUE /\ UNCHANGED queue

EndQueues ==
  /\ pass.at = "queueing"
  /\ Queues(pass.key)
  /\ pass' = [at |-> "scan", todo |-> pass.todo, silent |-> pass.silent]
  /\ UNCHANGED <<rx, delivery, logged, closing>>

\* reap: the stream has been silent all the time up to this pass.
Reaps(t) ==
  /\ pass.at = "scan" /\ pass.todo = {} /\ t \in pass.silent /\ ~muHeld
  /\ pass' = [pass EXCEPT !.silent = @ \ {t}]
  /\ LET gone == streams[t].seen = Silent
     IN /\ streams' = IF gone THEN [streams EXCEPT ![t] = None] ELSE streams
        /\ reader' = IF gone /\ reader # AtRest /\ reader.key = t
                       THEN AtRest  \* what it does to the orphan nobody sees
                       ELSE reader
  /\ UNCHANGED <<muHeld, begun, owed, rows, delivery, logged, closing>>

PassEnds ==
  /\ pass.at = "scan" /\ pass.todo = {} /\ pass.silent = {}
  /\ pass' = AtRest
  /\ UNCHANGED <<rx, rows, delivery, logged, closing>>

DecoderExits ==
  /\ pass = AtRest /\ done /\ pass' = Exited
  /\ UNCHANGED <<rx, rows, delivery, logged, closing>>

-----------------------------------------------------------------------------
(* The delivery goroutine.                                                 *)

\* rxDeliverLoop takes a row, before or after the session is done.
Takes ==
  /\ delivery = AtRest /\ queue # <<>>
  /\ delivery' = [at |-> "deliver", row |-> Head(queue)] /\ queue' = Tail(queue)
  /\ UNCHANGED <<rx, pass, dropped, logged, closing>>

OnRX(n) == logged' = [logged EXCEPT ![n] = @ + 1]

Delivers ==
  /\ delivery.at = "deliver"
  /\ OnRX(delivery.row) /\ delivery' = AtRest
  /\ UNCHANGED <<rx, pass, rows, closing>>

DeliveryExits ==
  /\ delivery = AtRest /\ done /\ queue = <<>> /\ delivery' = Exited
  /\ UNCHANGED <<rx, pass, rows, logged, closing>>

-----------------------------------------------------------------------------
(* Session.Close.                                                          *)

\* endOpenRXStreams, under rx.mu.
Sweeps ==
  /\ closer = "open" /\ ~muHeld
  /\ closer' = "queue"
  /\ LET over == {t \in Open : ~streams[t].ended}
     IN /\ sweep' = {streams[t].started : t \in over}
        /\ streams' = [t \in Talkers |-> IF t \in over THEN [streams[t] EXCEPT !.ended = TRUE]
                                         ELSE streams[t]]
  /\ UNCHANGED <<muHeld, reader, begun, owed, pass, rows, delivery, logged, done>>

SweepQueues(n) ==
  /\ closer = "queue" /\ n \in sweep
  /\ Queues(n) /\ sweep' = sweep \ {n}
  /\ UNCHANGED <<rx, pass, delivery, logged, closer, done>>

\* close(done), and the socket: no packet is read after it.
ClosesDone ==
  /\ closer = "queue" /\ sweep = {}
  /\ closer' = "join" /\ done' = TRUE
  /\ UNCHANGED <<rx, pass, rows, delivery, logged, sweep>>

\* Mutant: Close trusts the drain of the delivery goroutine.
DrainsNothing ==
  /\ closer = "join"
  /\ reader = AtRest /\ pass = Exited /\ delivery = Exited
  /\ closer' = "closed"
  /\ UNCHANGED <<rx, pass, rows, delivery, logged, sweep, done>>

\* wg.Wait, and the drain of what was queued behind rxDeliverLoop's own.
Drains ==
  /\ closer = "join"
  /\ reader = AtRest /\ pass = Exited /\ delivery = Exited
  /\ IF queue # <<>>
       THEN OnRX(Head(queue)) /\ queue' = Tail(queue) /\ UNCHANGED closer
       ELSE closer' = "closed" /\ UNCHANGED <<logged, queue>>
  /\ UNCHANGED <<rx, pass, dropped, delivery, sweep, done>>

-----------------------------------------------------------------------------
Reader == (\E t \in Talkers : Packet(t)) \/ Stamps \/ Hints \/ Restarts

Decoder ==
  \/ \E t \in Talkers : Ages(t) \/ Scans(t) \/ Reaps(t)
  \/ PassBegins \/ EndLoads \/ EndStores \/ EndQueues \/ PassEnds \/ DecoderExits

Close == Sweeps \/ ClosesDone \/ Drains \/ \E n \in Rows : SweepQueues(n)

Next == Reader \/ Decoder \/ Takes \/ Delivers \/ DeliveryExits \/ Close

Spec == Init /\ [][Next]_vars

-----------------------------------------------------------------------------
(* Properties.                                                             *)

\* The places a row can be before OnRX has it.
InQueue(n) == Cardinality({i \in DOMAIN queue : queue[i] = n})
InHand(n) ==
  (IF pass.at = "queueing" /\ pass.key = n THEN 1 ELSE 0)
  + (IF delivery.at = "deliver" /\ delivery.row = n THEN 1 ELSE 0)
  + (IF n \in sweep THEN 1 ELSE 0)

\* The decode goroutine and Close may both find a transmission over, as may
\* two passes around a packet: it has one row (rx.go:716-724, 778-795).
OneRowPerTransmission ==
  \A n \in Rows : logged[n] + InQueue(n) + InHand(n) <= 1

\* With no row lost to a full queue, every transmission that had begun when
\* Close swept the streams has its row when Close returns, whichever of the
\* decode goroutine, the sweep and the two drains came to it (session.go:505-531).
EveryTransmissionIsReported ==
  closer = "closed" /\ ~dropped => \A n \in owed : logged[n] = 1

\* What the history is told of: each transmission once and none left out.
RowsAreFaithful == OneRowPerTransmission /\ EveryTransmissionIsReported
=============================================================================

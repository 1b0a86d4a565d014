--------------------------- MODULE VoiceKeepalive ---------------------------
(***************************************************************************)
(* What a voice session measures with its keepalives (sendKeepalive,       *)
(* recordKeepalive, resetBindingLocked in internal/voice/session.go): each *)
(* echoes the server's last timestamp, and a reply is timed against the    *)
(* oldest keepalive that has none.  Keepalives are numbered, and a         *)
(* timestamp of the server is the number of the keepalive it answered.     *)
(* The network keeps the order of datagrams and may lose them.             *)
(***************************************************************************)
EXTENDS Integers, Sequences

CONSTANTS LossThreshold, \* bindingLossThreshold
          MaxPendingKA,  \* maxPendingKA
          MaxKA          \* bound: keepalives

KeepaliveAssumption ==
  LossThreshold \in Nat \ {0} /\ MaxPendingKA \in Nat \ {0} /\ MaxKA \in Nat

VARIABLES
  pendingKA,    \* Session.pendingKA
  lastServerTS, \* Session.lastServerTS
  rtt,          \* the keepalive and the reply Session.rtt lies between
  serving,      \* serve runs, or else a ladder on the same or a new socket
  unanswered,   \* serve's local of that name
  sent,         \* keepalives so far
  socketSince,  \* those up to this one went out on an earlier socket
  bindingSince, \* those up to this one went out on an earlier binding (history)
  lost,         \* a datagram was lost (history)
  madeRoom,     \* a keepalive made room in pendingKA for another (history)
  up, down      \* keepalives and replies on their way

vars == <<pendingKA, lastServerTS, rtt, serving, unanswered, sent, socketSince, bindingSince,
          lost, madeRoom, up, down>>

Unmeasured == [sent |-> 0, answered |-> 0]

Init ==
  /\ pendingKA = <<>> /\ lastServerTS = 0 /\ rtt = Unmeasured
  /\ serving = FALSE /\ unanswered = 0 /\ sent = 0 /\ socketSince = 0 /\ bindingSince = 0
  /\ lost = FALSE /\ madeRoom = FALSE /\ up = <<>> /\ down = <<>>

\* noteKeepaliveSentLocked: the oldest makes room.
Note(id) ==
  Append(IF Len(pendingKA) >= MaxPendingKA THEN Tail(pendingKA) ELSE pendingKA, id)

SendKeepalive ==
  /\ serving /\ unanswered < LossThreshold /\ sent < MaxKA
  /\ sent' = sent + 1
  /\ up' = Append(up, [id |-> sent + 1, echo |-> lastServerTS])
  /\ pendingKA' = Note(sent + 1)
  /\ unanswered' = unanswered + 1
  /\ madeRoom' = (madeRoom \/ Len(pendingKA) >= MaxPendingKA)
  /\ UNCHANGED <<lastServerTS, rtt, serving, socketSince, bindingSince, lost, down>>

\* The HELLO was acknowledged, behind whatever was on its way on this socket; the
\* first keepalive follows.
Acknowledged ==
  /\ ~serving /\ serving' = TRUE /\ unanswered' = 0
  /\ \A i \in 1..Len(up) : up[i].id <= socketSince
  /\ \A i \in 1..Len(down) : down[i] <= socketSince
  /\ UNCHANGED <<pendingKA, lastServerTS, rtt, sent, socketSince, bindingSince, lost, madeRoom, up, down>>

\* Mutants: a reply is timed against the keepalive sent last; replies of an
\* earlier socket are taken.
ReceiveNewest ==
  /\ down # <<>> /\ down' = Tail(down)
  /\ LET id == Head(down) IN
     IF id <= socketSince
     THEN UNCHANGED <<pendingKA, lastServerTS, rtt, unanswered>>
     ELSE /\ lastServerTS' = id
          /\ unanswered' = IF serving THEN 0 ELSE unanswered
          /\ IF pendingKA = <<>>
             THEN UNCHANGED <<pendingKA, rtt>>
             ELSE /\ rtt' = [sent |-> pendingKA[Len(pendingKA)], answered |-> id]
                  /\ pendingKA' = SubSeq(pendingKA, 1, Len(pendingKA) - 1)
  /\ UNCHANGED <<serving, sent, socketSince, bindingSince, lost, madeRoom, up>>

ReceiveOfAnySocket ==
  /\ down # <<>> /\ down' = Tail(down)
  /\ LET id == Head(down) IN
     IF FALSE
     THEN UNCHANGED <<pendingKA, lastServerTS, rtt, unanswered>>
     ELSE /\ lastServerTS' = id
          /\ unanswered' = IF serving THEN 0 ELSE unanswered
          /\ IF pendingKA = <<>>
             THEN UNCHANGED <<pendingKA, rtt>>
             ELSE /\ rtt' = [sent |-> Head(pendingKA), answered |-> id]
                  /\ pendingKA' = Tail(pendingKA)
  /\ UNCHANGED <<serving, sent, socketSince, bindingSince, lost, madeRoom, up>>

\* recordKeepalive, in serve and, for a reply that is late, in the ladder.
Receive ==
  /\ down # <<>> /\ down' = Tail(down)
  /\ LET id == Head(down) IN
     IF id <= socketSince
     THEN UNCHANGED <<pendingKA, lastServerTS, rtt, unanswered>>
     ELSE /\ lastServerTS' = id
          /\ unanswered' = IF serving THEN 0 ELSE unanswered
          /\ IF pendingKA = <<>>
             THEN UNCHANGED <<pendingKA, rtt>>
             ELSE /\ rtt' = [sent |-> Head(pendingKA), answered |-> id]
                  /\ pendingKA' = Tail(pendingKA)
  /\ UNCHANGED <<serving, sent, socketSince, bindingSince, lost, madeRoom, up>>

\* resetBindingLocked.
ResetBinding ==
  /\ rtt' = Unmeasured /\ lastServerTS' = 0 /\ pendingKA' = <<>>
  /\ bindingSince' = sent

\* Silence past the threshold: a ladder on the same socket.
BindingLost ==
  /\ serving /\ unanswered >= LossThreshold
  /\ serving' = FALSE
  /\ ResetBinding
  /\ UNCHANGED <<unanswered, sent, socketSince, lost, madeRoom, up, down>>

\* The ladder fails too: a new socket, on which nothing of the old one arrives.
Reopen ==
  /\ ~serving /\ sent > socketSince
  /\ ResetBinding
  /\ socketSince' = sent
  /\ UNCHANGED <<serving, unanswered, sent, lost, madeRoom, up, down>>

Answer ==
  /\ up # <<>> /\ up' = Tail(up)
  /\ down' = Append(down, Head(up).id)
  /\ UNCHANGED <<pendingKA, lastServerTS, rtt, serving, unanswered, sent, socketSince,
                 bindingSince, lost, madeRoom>>

Lose ==
  /\ lost' = TRUE
  /\ \/ up # <<>> /\ up' = Tail(up) /\ UNCHANGED down
     \/ down # <<>> /\ down' = Tail(down) /\ UNCHANGED up
  /\ UNCHANGED <<pendingKA, lastServerTS, rtt, serving, unanswered, sent, socketSince, bindingSince,
                 madeRoom>>

Next == \/ SendKeepalive \/ Acknowledged \/ Receive \/ BindingLost \/ Reopen
        \/ Answer \/ Lose

Spec == Init /\ [][Next]_vars

----------------------------------------------------------------------------
(* Properties.                                                             *)

Keepalives == 1..MaxKA

\* The measurements keep their types and nothing waits that was not sent.
TypeOK ==
  /\ pendingKA \in Seq(Keepalives) /\ Len(pendingKA) <= MaxPendingKA
  /\ \A i \in 1..Len(pendingKA) : bindingSince < pendingKA[i] /\ pendingKA[i] <= sent
  /\ lastServerTS \in 0..sent /\ rtt.sent \in 0..sent /\ rtt.answered \in 0..sent
  /\ unanswered \in 0..LossThreshold /\ sent \in 0..MaxKA
  /\ socketSince \in 0..sent /\ bindingSince \in 0..sent

\* As long as no datagram is lost and nothing makes room in pendingKA, a reply on
\* a socket that has not lost its binding is timed against the keepalive it
\* answers (recordKeepalive).
ExactWithoutLoss == ~lost /\ ~madeRoom /\ bindingSince = socketSince => rtt.sent = rtt.answered

\* A loss can only make the round trip too long: no reply is timed against a
\* keepalive sent after the one it answers (recordKeepalive, "a residue, or a
\* negative"), until the binding has been lost or pendingKA is full.
NeverTooShort == ~madeRoom /\ bindingSince = socketSince => rtt.sent <= rtt.answered

\* The round trip shown to the user is one that was measured (RTT).
RoundTripIsTrue == ExactWithoutLoss /\ NeverTooShort
=============================================================================

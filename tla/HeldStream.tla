----------------------------- MODULE HeldStream -----------------------------
(***************************************************************************)
(* Hydrating the roster: an update stream opened ahead of the SyncClient   *)
(* snapshot, held until the snapshot is applied, replayed on top of it and *)
(* then routed live (internal/control: held.go, stream.go, client.go;      *)
(* internal/session: openHeldStream, awaitSubscribed, resync).             *)
(*                                                                         *)
(* The installer is the goroutine of Connect, Reconnect or resync, the     *)
(* consumer the goroutine that runs Held.Consume.  A roster entry is a     *)
(* version: the server counts one up whenever a client joins or leaves, so *)
(* odd versions are of clients that are there.                             *)
(***************************************************************************)
EXTENDS Integers, Sequences

CONSTANTS Keys,        \* client guids
          MaxVersion,  \* bound: how often a client joins or leaves
          BufMax,      \* Held.max, pendingUpdateCap
          WireMax,     \* the server's buffer of one subscription
          MaxFails     \* bound: attempts that fail and streams that break

HeldAssumption ==
  /\ MaxVersion \in Nat /\ BufMax \in Nat /\ WireMax \in Nat /\ MaxFails \in Nat

VARIABLES
  roster,      \* the server's roster
  registered,  \* the server has registered the subscription
  since,       \* the roster when the server registered it (history)
  wire,        \* updates sent and not received
  closed,      \* the server has ended the stream behind them
  ackLate,     \* the wait for the acknowledgement ran out on this stream (history)
  snapshot,    \* the answer of SyncClient
  store,       \* Store.clients
  buf,         \* Held.buf
  released,    \* Held.released
  hand,        \* <<u>> of the update Consume has received, or End
  installer,   \* where the installer is
  consumer,    \* where the consumer is
  fails        \* failures so far

serverVars == <<roster, registered, since, wire, closed>>
heldVars   == <<buf, released, ackLate>>
vars == <<serverVars, snapshot, store, heldVars, hand, installer, consumer, fails>>

Absent == 0
Shown(v) == IF v % 2 = 1 THEN v ELSE Absent

Update == [key : Keys, ver : 0..MaxVersion]
End == <<>>

Init ==
  /\ roster = [k \in Keys |-> 0] /\ registered = FALSE /\ since = roster
  /\ wire = <<>> /\ closed = FALSE /\ ackLate = FALSE
  /\ snapshot = roster /\ store = roster
  /\ buf = <<>> /\ released = FALSE /\ hand = End
  /\ installer = "subscribe" /\ consumer = "off" /\ fails = 0

\* route: a full-value set or a delete of one key.
Route(u) == store' = [store EXCEPT ![u.key] = Shown(u.ver)]

----------------------------------------------------------------------------
(* The server.                                                             *)

\* A client joins or leaves; a subscription whose buffer is full is ended.
Change(k) ==
  /\ roster[k] < MaxVersion
  /\ roster' = [roster EXCEPT ![k] = @ + 1]
  /\ \/ ~registered /\ UNCHANGED <<registered, wire, closed>>
     \/ /\ registered /\ Len(wire) < WireMax
        /\ wire' = Append(wire, [key |-> k, ver |-> roster[k] + 1])
        /\ UNCHANGED <<registered, closed>>
     \/ /\ registered /\ Len(wire) >= WireMax
        /\ registered' = FALSE /\ closed' = TRUE
        /\ UNCHANGED wire
  /\ UNCHANGED <<since, snapshot, store, heldVars, hand, installer, consumer>>

Register ==
  /\ installer # "subscribe" /\ ~registered /\ ~closed
  /\ registered' = TRUE /\ since' = roster
  /\ UNCHANGED <<roster, wire, closed, snapshot, store, heldVars, hand, installer, consumer>>

----------------------------------------------------------------------------
(* The installer.                                                          *)

\* openHeldStream: a new subscription.
Subscribe ==
  /\ installer = "subscribe"
  /\ installer' = "ack"
  /\ registered' = FALSE /\ wire' = <<>> /\ closed' = FALSE
  /\ UNCHANGED <<roster, since, snapshot, store, heldVars, hand, consumer>>

Consuming == consumer' = "recv" /\ hand' = End /\ buf' = <<>> /\ released' = FALSE

\* Mutant: SyncClient is not kept behind the subscription.
DoNotAwait ==
  /\ installer = "ack"
  /\ installer' = "sync" /\ Consuming /\ ackLate' = FALSE
  /\ UNCHANGED <<serverVars, snapshot, store>>

\* awaitSubscribed: the server's headers, or no more patience; then a Held and
\* its consumer.
AwaitSubscribed ==
  /\ installer = "ack"
  /\ installer' = "sync" /\ Consuming /\ ackLate' = ~registered
  /\ UNCHANGED <<serverVars, snapshot, store>>

\* The server answers SyncClient.
Answer ==
  /\ installer = "sync"
  /\ snapshot' = roster
  /\ installer' = "hydrate"
  /\ UNCHANGED <<serverVars, store, heldVars, hand, consumer>>

\* SyncClient: ResetRoster, then every client of the snapshot.
Hydrate ==
  /\ installer = "hydrate"
  /\ store' = [k \in Keys |-> Shown(snapshot[k])]
  /\ installer' = "replay"
  /\ UNCHANGED <<serverVars, snapshot, heldVars, hand, consumer>>

\* Release, one held update at a time, under the lock of the Held.
Replay ==
  /\ installer = "replay" /\ buf # <<>>
  /\ Route(Head(buf))
  /\ buf' = Tail(buf)
  /\ UNCHANGED <<serverVars, snapshot, released, ackLate, hand, installer, consumer>>

Release ==
  /\ installer = "replay" /\ buf = <<>>
  /\ released' = TRUE
  /\ installer' = "done"
  /\ UNCHANGED <<serverVars, snapshot, store, buf, ackLate, hand, consumer>>

----------------------------------------------------------------------------
(* The consumer.                                                           *)

Receive ==
  /\ consumer = "recv"
  /\ \/ /\ wire # <<>>
        /\ hand' = <<Head(wire)>> /\ wire' = Tail(wire)
     \/ /\ wire = <<>> /\ closed
        /\ hand' = End /\ UNCHANGED wire
  /\ consumer' = "decide"
  /\ UNCHANGED <<roster, registered, since, closed, snapshot, store, heldVars, installer>>

LockFree == installer # "replay"

\* Before Release an update is held; the end of the stream and an update too
\* many end the reading.
Hold ==
  /\ consumer = "decide" /\ LockFree /\ ~released
  /\ IF hand = End \/ Len(buf) >= BufMax
     THEN consumer' = "wait" /\ UNCHANGED buf
     ELSE consumer' = "recv" /\ buf' = Append(buf, hand[1])
  /\ UNCHANGED <<serverVars, snapshot, store, released, ackLate, hand, installer>>

GoLive ==
  /\ consumer = "decide" /\ LockFree /\ released
  /\ consumer' = IF hand = End THEN "ended" ELSE "route"
  /\ UNCHANGED <<serverVars, snapshot, store, heldVars, hand, installer>>

RouteLive ==
  /\ consumer = "route"
  /\ Route(hand[1])
  /\ consumer' = "recv"
  /\ UNCHANGED <<serverVars, snapshot, heldVars, hand, installer>>

\* Mutant: the overflow of the Held is not reported.
ReportServerEnd ==
  /\ consumer = "wait" /\ released /\ hand = End
  /\ consumer' = "ended"
  /\ UNCHANGED <<serverVars, snapshot, store, heldVars, hand, installer>>

\* waitRelease.
ReportEnd ==
  /\ consumer = "wait" /\ released
  /\ consumer' = "ended"
  /\ UNCHANGED <<serverVars, snapshot, store, heldVars, hand, installer>>

\* resync: the goroutine of the ended stream becomes the installer.
Resync ==
  /\ consumer = "ended"
  /\ installer' = "subscribe" /\ consumer' = "off" /\ hand' = End
  /\ registered' = FALSE
  /\ UNCHANGED <<roster, since, wire, closed, snapshot, store, heldVars>>

----------------------------------------------------------------------------
(* Failures.                                                               *)

\* The stream breaks and what is on its way is lost.
Break ==
  /\ fails < MaxFails /\ registered
  /\ fails' = fails + 1
  /\ registered' = FALSE /\ closed' = TRUE /\ wire' = <<>>
  /\ UNCHANGED <<roster, since, snapshot, store, heldVars, hand, installer, consumer>>

\* Subscribe, its acknowledgement or SyncClient fails, or another attempt has
\* replaced this one: its stream is abandoned before it is installed, and a
\* later attempt starts over.
Abandon ==
  /\ fails < MaxFails \/ (closed /\ installer = "ack")
  /\ installer \in {"ack", "sync", "hydrate"}
  /\ fails' = IF fails < MaxFails THEN fails + 1 ELSE fails
  /\ installer' = "subscribe" /\ consumer' = "off" /\ hand' = End
  /\ registered' = FALSE
  /\ UNCHANGED <<roster, since, wire, closed, snapshot, store, heldVars>>

InstallerStep ==
  /\ Subscribe \/ AwaitSubscribed \/ Answer \/ Hydrate \/ Replay \/ Release
  /\ UNCHANGED fails

ConsumerStep ==
  /\ Receive \/ Hold \/ GoLive \/ RouteLive \/ ReportEnd \/ Resync
  /\ UNCHANGED fails

ServerStep == ((\E k \in Keys : Change(k)) \/ Register) /\ UNCHANGED fails

Next == ServerStep \/ InstallerStep \/ ConsumerStep \/ Break \/ Abandon

Spec == Init /\ [][Next]_vars

----------------------------------------------------------------------------
(* Properties.                                                             *)

\* The roster, the Held and the two goroutines hold what the code may store.
TypeOK ==
  /\ roster \in [Keys -> 0..MaxVersion] /\ snapshot \in [Keys -> 0..MaxVersion]
  /\ since \in [Keys -> 0..MaxVersion]
  /\ store \in [Keys -> 0..MaxVersion]
  /\ registered \in BOOLEAN /\ closed \in BOOLEAN /\ released \in BOOLEAN
  /\ wire \in Seq(Update) /\ Len(wire) <= WireMax
  /\ buf \in Seq(Update) /\ Len(buf) <= BufMax
  /\ hand \in Seq(Update)
  /\ installer \in {"subscribe", "ack", "sync", "hydrate", "replay", "done"}
  /\ consumer \in {"off", "recv", "decide", "wait", "route", "ended"}
  /\ fails \in 0..MaxFails /\ ackLate \in BOOLEAN

\* What has been sent and not yet put in the store, oldest first.
Unrouted ==
  buf \o (IF consumer \in {"decide", "route"} THEN hand ELSE <<>>) \o wire

\* With the rest of the stream routed on top of it, s has what the roster has of k.
Catches(s, k) ==
  LET at == {i \in 1..Len(Unrouted) : Unrouted[i].key = k}
  IN  IF at = {}
      THEN s[k] = Shown(roster[k])
      ELSE \E i \in at : /\ \A j \in at : j <= i
                         /\ Unrouted[i].ver = roster[k]

Streaming == registered /\ consumer \notin {"off", "wait", "ended"}
Hydrated  == installer \in {"replay", "done"}

\* What the server published between its answer and a subscription whose
\* acknowledgement the client did not wait for, until the same client changes again.
InGap(k) == ackLate /\ snapshot[k] < since[k] /\ since[k] = roster[k]

\* From the snapshot on, no update is lost between the server and the store:
\* each is in the snapshot, held, on its way, or its loss ends the stream (Held,
\* "replaying them in order converges on the server's state"). Only a late
\* acknowledgement leaves a gap (awaitSubscribed, "without the ordering
\* guarantee").
NothingLost ==
  Streaming =>
    \A k \in Keys :
      /\ installer = "hydrate" =>
           Catches([x \in Keys |-> Shown(snapshot[x])], k) \/ InGap(k)
      /\ Hydrated => Catches(store, k) \/ InGap(k)

\* The store ends up as the server's roster, whatever the order in which the
\* snapshot and the updates travel, and also after overflows (resync).
Converges == <>[](\A k \in Keys : store[k] = Shown(roster[k]) \/ InGap(k))

\* Goroutines run on, the server answers and registers subscriptions.
FairSpec ==
  /\ Spec
  /\ WF_vars(InstallerStep) /\ WF_vars(ConsumerStep) /\ WF_vars(Register /\ UNCHANGED fails)
  /\ WF_vars(closed /\ Abandon)
=============================================================================

----------------------------- MODULE WindowRoster -----------------------------
(***************************************************************************)
(* The clients and the radios in a window: Go's store, the events that     *)
(* follow its changes, and the hydrate that useClientStateSync keeps       *)
(* beside them (frontend/src/shared/store/useClientStateSync.ts,           *)
(* internal/control/stream.go: route, internal/session/session.go).        *)
(* WindowSelection has its other half.                                     *)
(*                                                                         *)
(* What Go holds of a client is the number of the change that made it, or  *)
(* 0 where there is nothing.  Events reach a window in the order in which  *)
(* they were emitted; an answer comes when it comes.                       *)
(***************************************************************************)
EXTENDS Hydrate

CONSTANTS Clients,     \* client guids
          MaxUpdates,  \* bound: updates the server sends
          MaxSyncs     \* bound: snapshots the server gives

RosterAssumption == HydrateAssumption /\ MaxUpdates \in Nat /\ MaxSyncs \in Nat

VARIABLES
  session,   \* "out", "filled", "in", "leaving" or "gone"
  info, radio,  \* Store.clients and Store.radios
  routed,    \* the event the stream goroutine has still to emit
  wire,      \* events emitted and not delivered (external)
  mounted,
  client,    \* the hydrates started so far; the handle is of the last
  stores,    \* useClients and useRadios.radios
  changes, syncs,
  late,      \* history: an event was emitted behind the end of its session
  forced     \* history: the last attempt was applied over newer events

roster == <<session, info, radio, routed, changes, syncs, late>>
window == <<mounted, client, stores, forced>>
vars == <<roster, wire, window>>

Nothing == [type |-> "none"]
NoClients == [g \in Clients |-> 0]
Empty == [info |-> NoClients, radio |-> NoClients]

Init ==
  /\ session = "out" /\ info = NoClients /\ radio = NoClients /\ routed = Nothing
  /\ wire = <<>> /\ mounted = FALSE /\ client = <<>> /\ stores = Empty
  /\ changes = 0 /\ syncs = 0 /\ late = FALSE /\ forced = FALSE

\* A window that is not mounted hears nothing.
Emit(e) == wire' = IF mounted THEN Append(wire, e) ELSE wire

-----------------------------------------------------------------------------
(* The control session.  SyncClient fills the store without events, in one *)
(* step here: who reads in the middle of it is asked again at Connected.   *)

Hydrates ==
  /\ session \in {"out", "in", "gone"} /\ syncs < MaxSyncs
  /\ session' = "filled" /\ syncs' = syncs + 1 /\ changes' = changes + 1
  /\ info' \in [Clients -> {0, changes + 1}]
  /\ radio' = info'
  /\ late' = (late \/ routed # Nothing)
  /\ UNCHANGED <<routed, wire, window>>

Connected ==
  /\ session = "filled"
  /\ session' = "in"
  /\ Emit([type |-> "connected"])
  /\ UNCHANGED <<info, radio, routed, changes, syncs, late, window>>

\* The attempt fails after the snapshot was applied.
GivesUp ==
  /\ session = "filled"
  /\ session' = "out"
  /\ UNCHANGED <<info, radio, routed, changes, syncs, late, wire, window>>

\* Disconnect and endSession: ResetSession, and then the broadcast.
Resets ==
  /\ session = "in"
  /\ session' = "leaving"
  /\ info' = NoClients /\ radio' = NoClients
  /\ late' = (late \/ routed # Nothing)
  /\ UNCHANGED <<routed, changes, syncs, wire, window>>

LoggedOut ==
  /\ session = "leaving"
  /\ session' = "gone"
  /\ Emit([type |-> "logged_out"])
  /\ UNCHANGED <<info, radio, routed, changes, syncs, late, window>>

-----------------------------------------------------------------------------
(* route: the store first, the event after it.                             *)

Routes ==
  session \in {"filled", "in"} /\ routed = Nothing /\ changes - syncs < MaxUpdates

ClientUpdate(g) ==
  /\ Routes /\ changes' = changes + 1
  /\ info' = [info EXCEPT ![g] = changes + 1]
  /\ routed' = [type |-> "client_update", guid |-> g, v |-> changes + 1]
  /\ UNCHANGED <<session, radio, syncs, late, wire, window>>

RadioUpdate(g) ==
  /\ Routes /\ changes' = changes + 1
  /\ radio' = [radio EXCEPT ![g] = changes + 1]
  /\ routed' = [type |-> "radio_update", guid |-> g, v |-> changes + 1]
  /\ UNCHANGED <<session, info, syncs, late, wire, window>>

ClientLeft(g) ==
  /\ Routes /\ changes' = changes + 1
  /\ info' = [info EXCEPT ![g] = 0] /\ radio' = [radio EXCEPT ![g] = 0]
  /\ routed' = [type |-> "client_left", guid |-> g]
  /\ UNCHANGED <<session, syncs, late, wire, window>>

Emits ==
  /\ routed # Nothing
  /\ Emit(routed) /\ routed' = Nothing
  /\ UNCHANGED <<session, info, radio, changes, syncs, late, window>>

-----------------------------------------------------------------------------
(* The window.                                                             *)

Mounts ==
  /\ ~mounted /\ mounted' = TRUE
  /\ client' = Hydrated(client)
  /\ UNCHANGED <<roster, wire, stores, forced>>

\* GetClientState looks at the store once.
GetClientState(i) ==
  /\ client[i].at = "asked"
  /\ client' = [client EXCEPT ![i] = Answered(@, [info |-> info, radio |-> radio])]
  /\ UNCHANGED <<roster, wire, mounted, stores, forced>>

\* The delta rule, and applySnapshot.
ClientArrives(i) ==
  LET h == client[i] IN
  /\ h.at = "answered"
  /\ client' = [client EXCEPT ![i] = IF AsksAgain(h) THEN NextAttempt(h) ELSE Settled]
  /\ stores' = IF AppliesDelta(h)
                 THEN [stores EXCEPT !.info = h.answer.info, !.radio = h.answer.radio]
                 ELSE stores
  /\ forced' = IF AppliesDelta(h) THEN Forced(h) ELSE forced
  /\ UNCHANGED <<roster, wire, mounted>>

-----------------------------------------------------------------------------
(* What the window does about an event.                                    *)

OnUpdate(e) ==
  /\ e.type \in {"client_update", "radio_update", "client_left"}
  /\ client' = Marked(client)
  /\ stores' = CASE e.type = "client_update" -> [stores EXCEPT !.info[e.guid] = e.v]
                 [] e.type = "radio_update" -> [stores EXCEPT !.radio[e.guid] = e.v]
                 [] e.type = "client_left" -> [stores EXCEPT !.info[e.guid] = 0]

\* Mutant: the window keeps what it has across a reconnect.
StaysAsItIs(e) ==
  /\ e.type = "connected"
  /\ UNCHANGED <<client, stores>>

OnConnected(e) ==
  /\ e.type = "connected"
  /\ client' = Hydrated(client)
  /\ UNCHANGED stores

\* Mutant: a hydrate under way survives the logout.
ClearsOnly(e) ==
  /\ e.type = "logged_out"
  /\ stores' = Empty
  /\ UNCHANGED client

OnLoggedOut(e) ==
  /\ e.type = "logged_out"
  /\ client' = GivenUp(client)
  /\ stores' = Empty

Deliver ==
  /\ wire # <<>>
  /\ wire' = Tail(wire)
  /\ LET e == Head(wire) IN
       OnUpdate(e) \/ OnConnected(e) \/ OnLoggedOut(e)
  /\ UNCHANGED <<roster, mounted, forced>>

Next ==
  \/ Hydrates \/ Connected \/ GivesUp \/ Resets \/ LoggedOut
  \/ \E g \in Clients : ClientUpdate(g) \/ RadioUpdate(g) \/ ClientLeft(g)
  \/ Emits
  \/ Mounts \/ Deliver
  \/ \E i \in DOMAIN client : GetClientState(i) \/ ClientArrives(i)

Spec == Init /\ [][Next]_vars

-----------------------------------------------------------------------------
\* Nothing is under way between Go and the window.
AtRest ==
  /\ mounted /\ wire = <<>> /\ routed = Nothing
  /\ \A i \in DOMAIN client : ~InFlight(client[i])

\* At rest in a session the window lists the clients Go knows, and every radio
\* Go knows: no answer took back what an event told after it was read, and no
\* client of an earlier snapshot is left.  Excepted are an event emitted behind
\* the end of its session, and a last attempt applied over newer events.  The
\* radios of a client that has left stay (hydrate.ts:64-98,
\* useClientStateSync.ts:82-108).
RosterIsGo ==
  AtRest /\ session = "in" /\ ~late /\ ~forced =>
    /\ stores.info = info
    /\ \A g \in Clients : radio[g] # 0 => stores.radio[g] = radio[g]

\* After a logout the window holds nothing of the session, whatever was
\* under way then (useClientStateSync.ts:109-118).
NothingAfterLogout == AtRest /\ session = "gone" /\ ~late =>
  stores.info = NoClients /\ stores.radio = NoClients

RosterIsMirrored == RosterIsGo /\ NothingAfterLogout
=============================================================================

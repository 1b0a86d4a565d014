------------------------------ MODULE Session ------------------------------
(***************************************************************************)
(* The control session of the client: internal/session/session.go.         *)
(*                                                                         *)
(* Threads are the goroutines that run the Session's methods: callers run  *)
(* Connect, Reconnect and Disconnect; every update stream has a goroutine  *)
(* that consumes it and reports its end; the prober pings the server and   *)
(* declares the control link lost.  A step is one critical section of      *)
(* Session.mu, one RPC, or one publication; what a goroutine does between  *)
(* two of them touches only its own variables.                             *)
(*                                                                         *)
(* A connection is named by the first stream opened on it, so conn is the  *)
(* model of the fields conn, control and cancel, which are set and cleared *)
(* together, and lastToken that of lastToken and lastDialer.               *)
(***************************************************************************)
EXTENDS Naturals, FiniteSets

CONSTANTS Callers,    \* goroutines that call Connect, Reconnect, Disconnect
          Streams,    \* update streams, each with its goroutine
          Tokens,     \* tokens GuestLogin may issue
          Prober,     \* the goroutine that runs PingOnce and MarkControlLost
          None,       \* nil, "", nobody
          MaxCalls,   \* bound: calls made by all callers together
          MaxCancels  \* bound: the cancelSeq from which the user cancels no more

Threads == Callers \cup Streams \cup {Prober}

ASSUME SessionAssumption ==
  /\ None \notin Threads \cup Tokens
  /\ Callers \cap Streams = {}
  /\ Prober \notin Callers \cup Streams
  /\ MaxCalls \in Nat
  /\ MaxCancels \in Nat

VARIABLES
  lifeMu,     \* the caller that holds Session.lifeMu
  attempt,    \* the caller whose cancel func attemptCancel is
  cancelSeq,  \* Session.cancelSeq
  conn,       \* the installed connection
  lastToken,  \* the remembered session
  streamGen,  \* Session.streamGen
  dead,       \* connections whose stream context is cancelled
  pc,         \* where each thread is
  op,         \* the call each caller is in
  ticket,     \* its ticket for beginAttempt
  cancelled,  \* whether its attempt context is cancelled
  tok,        \* the token each thread works with
  link,       \* the connection each stream was opened on
  gen,        \* the generation each stream goroutine and the prober captured
  verdict,    \* what the end of a stream means for the session
  opened,     \* the pendingStream of an attempt or of a resync
  issued,     \* tokens the server has issued
  revoked,    \* tokens the server no longer knows
  secret,     \* whose voice secret the store holds
  ui,         \* the connection state published last
  calls,      \* calls made so far
  forgotten,  \* history: tokens that were remembered and are no longer
  ended,      \* history: per token, how often the session was ended
  lost        \* history: per connection, how often its loss was reported

attemptVars == <<lifeMu, attempt, cancelSeq, op, ticket, cancelled, calls>>
linkVars    == <<conn, streamGen, dead, lost>>
tokenVars   == <<lastToken, forgotten, ended>>
localVars   == <<tok, link, gen, verdict, opened>>
serverVars  == <<issued, revoked>>
vars == <<attemptVars, linkVars, tokenVars, pc, localVars, serverVars, secret, ui>>

Ops      == {"none", "Connect", "Reconnect", "Disconnect"}
Verdicts == {"none", "lost", "ended", "resync"}
States   == {"connected", "reconnecting", "disconnected"}
Labels   == {"idle", "queued", "begun", "login", "subscribe", "sync", "self",
             "install", "publish", "fail", "farewell", "logout",
             "off", "held", "heldEnded", "live", "endedStream", "done",
             "resync", "reSubscribe", "reCheck", "reSync", "reInstall", "rePublish",
             "ping", "end", "endReset", "endPublish", "lose", "losePublish"}

Init ==
  /\ lifeMu = None /\ attempt = None /\ cancelSeq = 0
  /\ conn = None /\ lastToken = None /\ streamGen = 0 /\ dead = {}
  /\ pc = [t \in Threads |-> IF t \in Streams THEN "off" ELSE "idle"]
  /\ op = [c \in Callers |-> "none"]
  /\ ticket = [c \in Callers |-> 0]
  /\ cancelled = [c \in Callers |-> FALSE]
  /\ tok = [t \in Threads |-> None]
  /\ link = [s \in Streams |-> None]
  /\ gen = [t \in Streams \cup {Prober} |-> 0]
  /\ verdict = [s \in Streams |-> "none"]
  /\ opened = [t \in Callers \cup Streams |-> None]
  /\ issued = {} /\ revoked = {} /\ secret = None /\ ui = "disconnected"
  /\ calls = 0 /\ forgotten = {}
  /\ ended = [t \in Tokens |-> 0]
  /\ lost = [s \in Streams |-> 0]

Goto(t, l) == pc' = [pc EXCEPT ![t] = l]

Just(x) == {x} \ {None}

----------------------------------------------------------------------------
(* What the critical sections have in common.                              *)

\* Retire the generation, cancel the stream and close the connection.
DropLink ==
  /\ streamGen' = streamGen + 1
  /\ conn' = None
  /\ dead' = dead \cup Just(conn)

Forget ==
  /\ lastToken' = None
  /\ forgotten' = forgotten \cup Just(lastToken)

\* The stream of a generation still owns the installed connection.
IsCurrent(t) == gen[t] = streamGen /\ conn # None

\* installLocked and Release: stream s gets the next generation, its end, if
\* it has come already, is reported from now on; thread t goes on at l.
InstallStream(t, s, l) ==
  /\ streamGen' = streamGen + 1
  /\ gen' = [gen EXCEPT ![s] = streamGen + 1]
  /\ pc' = [pc EXCEPT ![t] = l,
                      ![s] = IF pc[s] = "heldEnded" THEN "endedStream" ELSE "live"]

\* openHeldStream: thread t subscribes on connection l with token k.
OpenStream(t, s, l, k, next) ==
  /\ pc[s] = "off"
  /\ pc' = [pc EXCEPT ![t] = next, ![s] = "held"]
  /\ link' = [link EXCEPT ![s] = l]
  /\ tok' = [tok EXCEPT ![s] = k]
  /\ opened' = [opened EXCEPT ![t] = s]

\* t gives up and goes to l; the stream it opened ahead exits unreported.
Abandon(t, l) ==
  /\ pc' = [x \in Threads |-> IF x = t THEN l
                              ELSE IF x = opened[t] THEN "done" ELSE pc[x]]
  /\ opened' = [opened EXCEPT ![t] = None]

\* A call returns: its context is released and its locals are gone.
Return(c) ==
  /\ lifeMu' = None
  /\ attempt' = None
  /\ op' = [op EXCEPT ![c] = "none"]
  /\ ticket' = [ticket EXCEPT ![c] = 0]
  /\ cancelled' = [cancelled EXCEPT ![c] = FALSE]
  /\ tok' = [tok EXCEPT ![c] = None]
  /\ opened' = [opened EXCEPT ![c] = None]
  /\ Goto(c, "idle")

----------------------------------------------------------------------------
(* CancelConnect, and the start of a call.                                 *)

CancelAttempt ==
  /\ cancelSeq' = cancelSeq + 1
  /\ cancelled' = [c \in Callers |-> cancelled[c] \/ c = attempt]

CancelConnect ==
  /\ cancelSeq < MaxCancels
  /\ CancelAttempt
  /\ UNCHANGED <<lifeMu, attempt, op, ticket, calls, linkVars, tokenVars, pc,
                 localVars, serverVars, secret, ui>>

QueueAttempt(c) ==
  /\ pc[c] = "idle" /\ calls < MaxCalls
  /\ calls' = calls + 1
  /\ \E o \in {"Connect", "Reconnect"} : op' = [op EXCEPT ![c] = o]
  /\ ticket' = [ticket EXCEPT ![c] = cancelSeq]
  /\ Goto(c, "queued")
  /\ UNCHANGED <<lifeMu, attempt, cancelSeq, cancelled, linkVars, tokenVars,
                 localVars, serverVars, secret, ui>>

\* Mutant: the ticket is not compared.
BeginAttemptUnticketed(c) ==
  /\ pc[c] = "queued" /\ op[c] # "Disconnect" /\ lifeMu = None
  /\ lifeMu' = c /\ attempt' = c
  /\ cancelled' = [cancelled EXCEPT ![c] = FALSE]
  /\ ui' = "reconnecting"
  /\ Goto(c, "begun")
  /\ UNCHANGED <<cancelSeq, op, ticket, calls, linkVars, tokenVars, localVars,
                 serverVars, secret>>

BeginAttempt(c) ==
  /\ pc[c] = "queued" /\ op[c] # "Disconnect" /\ lifeMu = None
  /\ lifeMu' = c /\ attempt' = c
  /\ cancelled' = [cancelled EXCEPT ![c] = cancelSeq # ticket[c]]
  /\ ui' = "reconnecting"
  /\ Goto(c, "begun")
  /\ UNCHANGED <<cancelSeq, op, ticket, calls, linkVars, tokenVars, localVars,
                 serverVars, secret>>

----------------------------------------------------------------------------
(* Connect.                                                                *)

\* Mutant: the replaced session is forgotten only by a successful Connect.
TeardownKeepsToken(c) ==
  /\ pc[c] = "begun" /\ op[c] = "Connect"
  /\ IF conn # None THEN DropLink ELSE UNCHANGED <<streamGen, conn, dead>>
  /\ Goto(c, "login")
  /\ UNCHANGED <<attemptVars, lost, tokenVars, localVars, serverVars, secret, ui>>

\* teardownLive, then the replaced session is forgotten.
Teardown(c) ==
  /\ pc[c] = "begun" /\ op[c] = "Connect"
  /\ IF conn # None THEN DropLink ELSE UNCHANGED <<streamGen, conn, dead>>
  /\ Forget
  /\ Goto(c, "login")
  /\ UNCHANGED <<attemptVars, lost, ended, localVars, serverVars, secret, ui>>

\* The dial, InitAuth and GuestLogin.
Login(c) ==
  /\ pc[c] = "login" /\ ~cancelled[c]
  /\ \E k \in Tokens \ issued :
       /\ tok' = [tok EXCEPT ![c] = k]
       /\ issued' = issued \cup {k}
  /\ Goto(c, "subscribe")
  /\ UNCHANGED <<attemptVars, linkVars, tokenVars, link, gen, verdict, opened,
                 revoked, secret, ui>>

\* Connect's last look at its context, and SetSelf.
SetSelf(c) ==
  /\ pc[c] = "self" /\ ~cancelled[c]
  /\ Goto(c, "install")
  /\ UNCHANGED <<attemptVars, linkVars, tokenVars, localVars, serverVars, secret, ui>>

InstallConnect(c) ==
  /\ pc[c] = "install" /\ op[c] = "Connect"
  /\ conn' = opened[c]
  /\ lastToken' = tok[c]
  /\ InstallStream(c, opened[c], "publish")
  /\ UNCHANGED <<attemptVars, dead, lost, forgotten, ended, tok, link, verdict,
                 opened, serverVars, secret, ui>>

----------------------------------------------------------------------------
(* Reconnect.                                                              *)

\* The token is captured and the server dialled.
CaptureToken(c) ==
  /\ pc[c] = "begun" /\ op[c] = "Reconnect"
  /\ IF lastToken = None
     THEN /\ Goto(c, "fail")
          /\ UNCHANGED tok
     ELSE /\ tok' = [tok EXCEPT ![c] = lastToken]
          /\ Goto(c, "subscribe")
  /\ UNCHANGED <<attemptVars, linkVars, tokenVars, link, gen, verdict, opened,
                 serverVars, secret, ui>>

\* Mutant: the session is not looked at again before the install.
InstallUnchecked(c) ==
  /\ pc[c] = "install" /\ op[c] = "Reconnect"
  /\ dead' = dead \cup Just(conn)
  /\ conn' = opened[c]
  /\ InstallStream(c, opened[c], "publish")
  /\ UNCHANGED <<attemptVars, lost, tokenVars, tok, link, verdict, opened,
                 serverVars, secret, ui>>

InstallReconnect(c) ==
  /\ pc[c] = "install" /\ op[c] = "Reconnect" /\ lastToken = tok[c]
  /\ dead' = dead \cup Just(conn)
  /\ conn' = opened[c]
  /\ InstallStream(c, opened[c], "publish")
  /\ UNCHANGED <<attemptVars, lost, tokenVars, tok, link, verdict, opened,
                 serverVars, secret, ui>>

\* The session ended while this Reconnect was syncing.
RefuseInstall(c) ==
  /\ pc[c] = "install" /\ op[c] = "Reconnect" /\ lastToken # tok[c]
  /\ Abandon(c, "fail")
  /\ UNCHANGED <<attemptVars, linkVars, tokenVars, tok, link, gen, verdict,
                 serverVars, secret, ui>>

----------------------------------------------------------------------------
(* What Connect and Reconnect share.  An RPC does not succeed on a          *)
(* cancelled context.                                                      *)

Subscribe(c) ==
  /\ pc[c] = "subscribe" /\ ~cancelled[c] /\ tok[c] \notin revoked
  /\ \E s \in Streams : OpenStream(c, s, s, tok[c], "sync")
  /\ UNCHANGED <<attemptVars, linkVars, tokenVars, gen, verdict, serverVars, secret, ui>>

\* SyncClient answers with the snapshot, which hydrates the store.
Sync(c) ==
  /\ pc[c] = "sync" /\ ~cancelled[c] /\ tok[c] \notin revoked
  /\ secret' = tok[c]
  /\ Goto(c, IF op[c] = "Connect" THEN "self" ELSE "install")
  /\ UNCHANGED <<attemptVars, linkVars, tokenVars, localVars, serverVars, ui>>

\* The session was removed while SyncClient was in flight: the answer carries
\* no secret and the stored one stays.  Only Reconnect looks at that.
SyncWithoutSecret(c) ==
  /\ pc[c] = "sync" /\ ~cancelled[c] /\ tok[c] \in revoked
  /\ \/ op[c] = "Connect" /\ Goto(c, "self") /\ UNCHANGED opened
     \/ op[c] = "Reconnect" /\ Abandon(c, "end")
  /\ UNCHANGED <<attemptVars, linkVars, tokenVars, tok, link, gen, verdict,
                 serverVars, secret, ui>>

\* Mutant: no timeout, only a cancel ends an RPC the server does not answer.
FailCancelledOnly(c) ==
  /\ pc[c] \in {"login", "subscribe", "sync", "self"} /\ cancelled[c]
  /\ Abandon(c, "fail")
  /\ IF op[c] = "Connect"
     THEN revoked' \in {revoked, revoked \cup Just(tok[c])}
     ELSE UNCHANGED revoked
  /\ UNCHANGED <<attemptVars, linkVars, tokenVars, tok, link, gen, verdict,
                 issued, secret, ui>>

\* The dial or an RPC fails, is cancelled or times out; abort.  The server may
\* hear of an abort after GuestLogin and drop the session.
FailAttempt(c) ==
  /\ pc[c] \in {"login", "subscribe", "sync", "self"}
  /\ Abandon(c, "fail")
  /\ IF op[c] = "Connect"
     THEN revoked' \in {revoked, revoked \cup Just(tok[c])}
     ELSE UNCHANGED revoked
  /\ UNCHANGED <<attemptVars, linkVars, tokenVars, tok, link, gen, verdict,
                 issued, secret, ui>>

\* An RPC of a Reconnect gets the session-ended verdict.
RejectReconnect(c) ==
  /\ pc[c] \in {"subscribe", "sync"} /\ op[c] = "Reconnect"
  /\ tok[c] \in revoked /\ ~cancelled[c]
  /\ Abandon(c, "end")
  /\ UNCHANGED <<attemptVars, linkVars, tokenVars, tok, link, gen, verdict,
                 serverVars, secret, ui>>

PublishConnected(c) ==
  /\ pc[c] = "publish"
  /\ ui' = "connected"
  /\ Return(c)
  /\ UNCHANGED <<cancelSeq, calls, linkVars, tokenVars, link, gen, verdict,
                 serverVars, secret>>

PublishFailure(c) ==
  /\ pc[c] = "fail"
  /\ ui' = "disconnected"
  /\ Return(c)
  /\ UNCHANGED <<cancelSeq, calls, linkVars, tokenVars, link, gen, verdict,
                 serverVars, secret>>

----------------------------------------------------------------------------
(* Disconnect.                                                             *)

StartDisconnect(c) ==
  /\ pc[c] = "idle" /\ calls < MaxCalls
  /\ calls' = calls + 1
  /\ op' = [op EXCEPT ![c] = "Disconnect"]
  /\ CancelAttempt
  /\ Goto(c, "queued")
  /\ UNCHANGED <<lifeMu, attempt, ticket, linkVars, tokenVars, localVars,
                 serverVars, secret, ui>>

Disconnect(c) ==
  /\ pc[c] = "queued" /\ op[c] = "Disconnect" /\ lifeMu = None
  /\ lifeMu' = c
  /\ DropLink
  /\ Forget
  /\ tok' = [tok EXCEPT ![c] = IF conn = None THEN None ELSE tok[conn]]
  /\ Goto(c, "farewell")
  /\ UNCHANGED <<attempt, cancelSeq, op, ticket, cancelled, calls, lost, ended,
                 link, gen, verdict, opened, serverVars, secret, ui>>

\* The Disconnect RPC, which may be lost, then ResetSession and ClearSelf.
Farewell(c) ==
  /\ pc[c] = "farewell"
  /\ revoked' \in {revoked, revoked \cup Just(tok[c])}
  /\ secret' = None
  /\ Goto(c, "logout")
  /\ UNCHANGED <<attemptVars, linkVars, tokenVars, localVars, issued, ui>>

PublishLogout(c) ==
  /\ pc[c] = "logout"
  /\ ui' = "disconnected"
  /\ Return(c)
  /\ UNCHANGED <<cancelSeq, calls, linkVars, tokenVars, link, gen, verdict,
                 serverVars, secret>>

----------------------------------------------------------------------------
(* endSession and markControlLost, run by any thread.                      *)

\* t has nothing more to report.
Finish(t) ==
  /\ Goto(t, IF t \in Callers THEN "fail" ELSE IF t = Prober THEN "idle" ELSE "done")
  /\ tok' = IF t = Prober THEN [tok EXCEPT ![t] = None] ELSE tok
  /\ gen' = IF t = Prober THEN [gen EXCEPT ![t] = 0] ELSE gen

\* Mutant: a ping's verdict ends whatever session is current.
MayEndAny(t) == lastToken # None \/ conn # None

\* endSessionIf's guard: the prober's call comes from checkSessionEnded.
MayEnd(t) ==
  /\ lastToken # None \/ conn # None
  /\ t = Prober => lastToken = tok[t]

\* Mutant: the token of the ended session is kept.
EndSessionKeepsToken(t) ==
  /\ pc[t] = "end" /\ MayEnd(t)
  /\ DropLink
  /\ ended' = [k \in Tokens |-> IF k = lastToken THEN ended[k] + 1 ELSE ended[k]]
  /\ Goto(t, "endReset")
  /\ UNCHANGED <<attemptVars, lost, lastToken, forgotten, localVars, serverVars, secret, ui>>

EndSession(t) ==
  /\ pc[t] = "end" /\ MayEnd(t)
  /\ DropLink
  /\ Forget
  /\ ended' = [k \in Tokens |-> IF k = lastToken THEN ended[k] + 1 ELSE ended[k]]
  /\ Goto(t, "endReset")
  /\ UNCHANGED <<attemptVars, lost, localVars, serverVars, secret, ui>>

EndSessionNoop(t) ==
  /\ pc[t] = "end" /\ ~MayEnd(t)
  /\ Finish(t)
  /\ UNCHANGED <<attemptVars, linkVars, tokenVars, link, verdict, opened,
                 serverVars, secret, ui>>

\* The session-ended hook, ResetSession and ClearSelf.
ResetStore(t) ==
  /\ pc[t] = "endReset"
  /\ secret' = None
  /\ Goto(t, "endPublish")
  /\ UNCHANGED <<attemptVars, linkVars, tokenVars, localVars, serverVars, ui>>

\* disconnected, then SessionEnded and logged_out.  A Reconnect that ended the
\* session publishes nothing more and returns.
PublishEnded(t) ==
  /\ pc[t] = "endPublish" /\ t \notin Callers
  /\ ui' = "disconnected"
  /\ Finish(t)
  /\ UNCHANGED <<attemptVars, linkVars, tokenVars, link, verdict, opened,
                 serverVars, secret>>

ReturnEnded(c) ==
  /\ pc[c] = "endPublish"
  /\ ui' = "disconnected"
  /\ Return(c)
  /\ UNCHANGED <<cancelSeq, calls, linkVars, tokenVars, link, gen, verdict,
                 serverVars, secret>>

\* Mutant: the dead connection stays installed.
MarkLostKeepsLink(t) ==
  /\ pc[t] = "lose" /\ IsCurrent(t)
  /\ streamGen' = streamGen + 1
  /\ dead' = dead \cup {conn}
  /\ lost' = [lost EXCEPT ![conn] = @ + 1]
  /\ Goto(t, "losePublish")
  /\ UNCHANGED <<attemptVars, conn, tokenVars, localVars, serverVars, secret, ui>>

MarkControlLost(t) ==
  /\ pc[t] = "lose" /\ IsCurrent(t)
  /\ DropLink
  /\ lost' = [lost EXCEPT ![conn] = @ + 1]
  /\ Goto(t, "losePublish")
  /\ UNCHANGED <<attemptVars, tokenVars, localVars, serverVars, secret, ui>>

MarkControlLostNoop(t) ==
  /\ pc[t] = "lose" /\ ~IsCurrent(t)
  /\ Finish(t)
  /\ UNCHANGED <<attemptVars, linkVars, tokenVars, link, verdict, opened,
                 serverVars, secret, ui>>

PublishLost(t) ==
  /\ pc[t] = "losePublish"
  /\ ui' = "disconnected"
  /\ Finish(t)
  /\ UNCHANGED <<attemptVars, linkVars, tokenVars, link, verdict, opened,
                 serverVars, secret>>

----------------------------------------------------------------------------
(* The goroutine of an update stream.                                      *)

\* The stream ends, or its hold overflows; the status code is the verdict.
EndStream(s) ==
  /\ pc[s] \in {"held", "live"}
  /\ \E v \in Verdicts \ {"none"} :
       /\ v = "ended" => tok[s] \in revoked
       /\ v = "resync" => \E x \in Streams : pc[x] = "off"
       /\ verdict' = [verdict EXCEPT ![s] = v]
  /\ Goto(s, IF pc[s] = "held" THEN "heldEnded" ELSE "endedStream")
  /\ UNCHANGED <<attemptVars, linkVars, tokenVars, tok, link, gen, opened,
                 serverVars, secret, ui>>

\* Mutant: the end of a stream goes unreported.
IgnoreStreamEnd(s) ==
  /\ pc[s] = "endedStream"
  /\ Goto(s, "done")
  /\ verdict' = [verdict EXCEPT ![s] = "none"]
  /\ UNCHANGED <<attemptVars, linkVars, tokenVars, tok, link, gen, opened,
                 serverVars, secret, ui>>

\* handleStreamEnd up to its switch on the verdict.
HandleStreamEnd(s) ==
  /\ pc[s] = "endedStream"
  /\ Goto(s, IF link[s] \in dead \/ gen[s] # streamGen THEN "done"
             ELSE IF verdict[s] = "ended" THEN "end"
             ELSE IF verdict[s] = "resync" THEN "resync" ELSE "lose")
  /\ verdict' = [verdict EXCEPT ![s] = "none"]
  /\ UNCHANGED <<attemptVars, linkVars, tokenVars, tok, link, gen, opened,
                 serverVars, secret, ui>>

StartResync(s) ==
  /\ pc[s] = "resync"
  /\ Goto(s, IF IsCurrent(s) THEN "reSubscribe" ELSE "done")
  /\ UNCHANGED <<attemptVars, linkVars, tokenVars, localVars, serverVars, secret, ui>>

Resubscribe(s) ==
  /\ pc[s] = "reSubscribe" /\ link[s] \notin dead /\ tok[s] \notin revoked
  /\ \E x \in Streams : OpenStream(s, x, link[s], tok[s], "reCheck")
  /\ UNCHANGED <<attemptVars, linkVars, tokenVars, gen, verdict, serverVars, secret, ui>>

\* stillCurrent, and later the re-check before the install.
CheckResync(s) ==
  /\ pc[s] = "reCheck"
  /\ IF IsCurrent(s)
     THEN Goto(s, "reSync") /\ UNCHANGED opened
     ELSE Abandon(s, "done")
  /\ UNCHANGED <<attemptVars, linkVars, tokenVars, tok, link, gen, verdict,
                 serverVars, secret, ui>>

\* The snapshot hydrates the store, also when the answer came just before the
\* connection was dropped.
ResyncSnapshot(s) ==
  /\ pc[s] = "reSync" /\ tok[s] \notin revoked
  /\ secret' = tok[s]
  /\ Goto(s, "reInstall")
  /\ UNCHANGED <<attemptVars, linkVars, tokenVars, localVars, serverVars, ui>>

\* Mutant: a resync that fails leaves the connection as it is.
FailResyncQuietly(s) ==
  /\ pc[s] \in {"reSubscribe", "reSync"}
  /\ \/ Abandon(s, "done")
     \/ link[s] \notin dead /\ tok[s] \in revoked /\ Abandon(s, "end")
  /\ UNCHANGED <<attemptVars, linkVars, tokenVars, tok, link, gen, verdict,
                 serverVars, secret, ui>>

FailResync(s) ==
  /\ pc[s] \in {"reSubscribe", "reSync"}
  /\ \/ link[s] \in dead /\ Abandon(s, "done")
     \/ link[s] \notin dead /\ Abandon(s, "lose")
     \/ link[s] \notin dead /\ tok[s] \in revoked /\ Abandon(s, "end")
  /\ UNCHANGED <<attemptVars, linkVars, tokenVars, tok, link, gen, verdict,
                 serverVars, secret, ui>>

InstallResync(s) ==
  /\ pc[s] = "reInstall" /\ IsCurrent(s)
  /\ InstallStream(s, opened[s], "rePublish")
  /\ UNCHANGED <<attemptVars, conn, dead, lost, tokenVars, tok, link, verdict,
                 opened, serverVars, secret, ui>>

DropResync(s) ==
  /\ pc[s] = "reInstall" /\ ~IsCurrent(s)
  /\ Abandon(s, "done")
  /\ UNCHANGED <<attemptVars, linkVars, tokenVars, tok, link, gen, verdict,
                 serverVars, secret, ui>>

PublishResync(s) ==
  /\ pc[s] = "rePublish"
  /\ ui' = "connected"
  /\ Goto(s, "done")
  /\ UNCHANGED <<attemptVars, linkVars, tokenVars, localVars, serverVars, secret>>

----------------------------------------------------------------------------
(* The prober, and the server.                                             *)

\* PingOnce captures the control client and its token.
StartPing ==
  /\ pc[Prober] = "idle" /\ conn # None
  /\ tok' = [tok EXCEPT ![Prober] = lastToken]
  /\ Goto(Prober, "ping")
  /\ UNCHANGED <<attemptVars, linkVars, tokenVars, link, gen, verdict, opened,
                 serverVars, secret, ui>>

\* The ping is answered, fails, fails with the session-ended verdict, or fails
\* as the last of a row: MarkControlLost then reads the generation.
FinishPing ==
  /\ pc[Prober] = "ping"
  /\ \/ Finish(Prober)
     \/ tok[Prober] \in revoked /\ Goto(Prober, "end") /\ UNCHANGED <<tok, gen>>
     \/ /\ gen' = [gen EXCEPT ![Prober] = streamGen]
        /\ tok' = [tok EXCEPT ![Prober] = None]
        /\ Goto(Prober, "lose")
  /\ UNCHANGED <<attemptVars, linkVars, tokenVars, link, verdict, opened,
                 serverVars, secret, ui>>

\* A kick, a ban, a restart or the reaper.
ServerEndsSession ==
  /\ \E k \in issued \ revoked : revoked' = revoked \cup {k}
  /\ UNCHANGED <<attemptVars, linkVars, tokenVars, pc, localVars, issued, secret, ui>>

----------------------------------------------------------------------------
CallerStep(c) ==
  \/ BeginAttempt(c) \/ Teardown(c) \/ Login(c) \/ SetSelf(c) \/ InstallConnect(c)
  \/ CaptureToken(c) \/ InstallReconnect(c) \/ RefuseInstall(c)
  \/ Subscribe(c) \/ Sync(c) \/ SyncWithoutSecret(c) \/ FailAttempt(c)
  \/ RejectReconnect(c) \/ PublishConnected(c) \/ PublishFailure(c)
  \/ Disconnect(c) \/ Farewell(c) \/ PublishLogout(c) \/ ReturnEnded(c)

ReportStep(t) ==
  \/ EndSession(t) \/ EndSessionNoop(t) \/ ResetStore(t) \/ PublishEnded(t)
  \/ MarkControlLost(t) \/ MarkControlLostNoop(t) \/ PublishLost(t)

StreamStep(s) ==
  \/ HandleStreamEnd(s) \/ StartResync(s) \/ Resubscribe(s) \/ CheckResync(s)
  \/ ResyncSnapshot(s) \/ FailResync(s) \/ InstallResync(s) \/ DropResync(s)
  \/ PublishResync(s)

Next ==
  \/ CancelConnect
  \/ \E c \in Callers : QueueAttempt(c) \/ StartDisconnect(c) \/ CallerStep(c)
  \/ \E t \in Threads : ReportStep(t)
  \/ \E s \in Streams : EndStream(s) \/ StreamStep(s)
  \/ StartPing \/ FinishPing
  \/ ServerEndsSession

Spec == Init /\ [][Next]_vars

----------------------------------------------------------------------------
(* Properties.                                                             *)

\* The fields of Session and the locals of its goroutines hold what the code
\* may store in them.
TypeOK ==
  /\ lifeMu \in Callers \cup {None} /\ attempt \in Callers \cup {None}
  /\ cancelSeq \in Nat /\ streamGen \in Nat /\ calls \in Nat
  /\ conn \in Streams \cup {None} /\ lastToken \in Tokens \cup {None}
  /\ dead \subseteq Streams
  /\ pc \in [Threads -> Labels]
  /\ op \in [Callers -> Ops]
  /\ ticket \in [Callers -> Nat]
  /\ cancelled \in [Callers -> BOOLEAN]
  /\ tok \in [Threads -> Tokens \cup {None}]
  /\ link \in [Streams -> Streams \cup {None}]
  /\ gen \in [Streams \cup {Prober} -> Nat]
  /\ verdict \in [Streams -> Verdicts]
  /\ opened \in [Callers \cup Streams -> Streams \cup {None}]
  /\ issued \subseteq Tokens /\ revoked \subseteq Tokens
  /\ secret \in Tokens \cup {None} /\ ui \in States
  /\ forgotten \subseteq Tokens
  /\ ended \in [Tokens -> Nat]
  /\ lost \in [Streams -> Nat]

\* A connection is never installed without the session it belongs to: whoever
\* clears the token clears the connection with it, and a Reconnect whose
\* session ended meanwhile does not install (Reconnect, "do not resurrect it").
ConnHasToken == conn # None => lastToken = tok[conn]

\* An installed connection always has a goroutine that will report its end: the
\* consumer of its current stream, or the resync that replaces that stream.
\* Otherwise the client would show connected for ever (handleStreamEnd).
ConnWatched ==
  conn # None =>
    \E s \in Streams :
      /\ link[s] = conn /\ gen[s] = streamGen
      /\ pc[s] \in {"live", "endedStream", "end", "lose", "resync",
                    "reSubscribe", "reCheck", "reSync", "reInstall"}

\* The loss of a connection is reported at most once, whichever of its stream,
\* a resync and the prober notice it (markControlLost, "exactly once").
LostOnce == \A l \in Streams : lost[l] <= 1

\* A session is ended at most once, whoever gets the verdict (endSession, "at
\* most once per session").
EndedOnce == \A k \in Tokens : ended[k] <= 1

\* A session that was logged out, replaced or ended is not remembered again by
\* a Reconnect that was under way (Disconnect, GO-10).
ForgottenForGood == lastToken \notin forgotten

\* A cancel reaches the attempt that was in flight or queued when it came: an
\* attempt never runs on a live context with a ticket older than cancelSeq.
CancelReachesAttempt ==
  \A c \in Callers : attempt = c /\ ticket[c] # cancelSeq => cancelled[c]

\* A verdict brought by a ping ends only a session the server has ended
\* (checkSessionEnded: a verdict about an old session leaves the current alone).
PingEndsOnlyRevoked ==
  [][pc[Prober] = "end" /\ pc'[Prober] = "endReset" => lastToken \in revoked]_vars

\* The session keeps its contract: one session at a time, linked only while it
\* is remembered, never back once it is over (Connect, Reconnect, Disconnect).
Contract == INSTANCE SessionContract
              WITH session <- lastToken, linked <- (conn # None), past <- forgotten
KeepsContract == Contract!Spec

\* Every call returns, whether or not the server answers (the dial's and the
\* post-dial timeouts, and CancelConnect).
CallsReturn == \A c \in Callers : pc[c] = "queued" ~> pc[c] = "idle"

\* A session the server has ended does not stay connected (handleStreamEnd).
RevokedIsDropped ==
  \A k \in Tokens : (k \in revoked /\ conn # None /\ lastToken = k)
                       ~> ~(conn # None /\ lastToken = k)

\* Goroutines run on; an RPC that gets no answer fails at its timeout; the
\* server ends the streams of a session it has ended.
Fairness ==
  /\ \A c \in Callers : WF_vars(CallerStep(c))
  /\ \A t \in Threads : WF_vars(ReportStep(t))
  /\ \A s \in Streams : WF_vars(StreamStep(s))
  /\ \A s \in Streams : WF_vars(tok[s] \in revoked /\ EndStream(s))

FairSpec == Spec /\ Fairness
=============================================================================

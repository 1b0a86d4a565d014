---------------------------- MODULE SessionProofs ----------------------------
(***************************************************************************)
(* The inductive invariant of the control session, and the proofs of its   *)
(* safety properties for any callers, streams and tokens; and of the four  *)
(* things that a window mirrors of Go, for any of their constants.         *)
(***************************************************************************)
EXTENDS MCSession, SequenceTheorems, TLAPS

\* An attempt or a resync that holds a stream it has not installed yet.
Pending(t) == pc[t] \in {"sync", "self", "install", "reCheck", "reSync", "reInstall"}

Busy(c) == pc[c] \notin {"idle", "queued"}

Fresh(s) == pc[s] \in {"off", "held", "heldEnded"}

Watching(s) ==
  pc[s] \in {"live", "endedStream", "end", "lose", "resync",
             "reSubscribe", "reCheck", "reSync", "reInstall"}

\* lifeMu is held by whoever is past it, and attemptCancel is that caller's.
LifeInv ==
  /\ \A c \in Callers : Busy(c) => lifeMu = c
  /\ attempt # None => Busy(attempt)

\* A pending stream is opened by one thread, on its connection and token.
PendingInv ==
  /\ \A t \in Callers \cup Streams : Pending(t) =>
       /\ opened[t] \in Streams
       /\ pc[opened[t]] \in {"held", "heldEnded"}
       /\ tok[opened[t]] = tok[t]
       /\ link[opened[t]] = IF t \in Callers THEN opened[t] ELSE link[t]
  /\ \A t, u \in Callers \cup Streams :
       Pending(t) /\ Pending(u) /\ opened[t] = opened[u] => t = u
  /\ \A t \in Callers \cup Streams :
       pc[t] \in {"idle", "queued", "begun", "login", "subscribe", "off", "held",
                 "heldEnded", "live", "endedStream", "resync", "reSubscribe"}
         => opened[t] = None

\* At most one goroutine has the current generation, on the connection.
LinkInv ==
  /\ conn # None => streamGen > 0 /\ conn \notin dead
  /\ \A s \in Streams : s \in dead \/ s = conn => ~Fresh(s)
  /\ \A s \in Streams : gen[s] <= streamGen
  /\ \A s \in Streams : gen[s] > 0 => ~Fresh(s)
  /\ \A r, s \in Streams : gen[r] = gen[s] /\ gen[r] > 0 => r = s
  /\ conn # None =>
       \E s \in Streams : link[s] = conn /\ gen[s] = streamGen /\ Watching(s)
  /\ \A l \in Streams : lost[l] <= 1 /\ (lost[l] = 1 => l \in dead)

\* A token under way to be remembered is new.
TokenInv ==
  /\ conn # None => lastToken = tok[conn] /\ lastToken # None
  /\ lastToken \in issued \cup {None}
  /\ forgotten \subseteq issued
  /\ lastToken \notin forgotten
  /\ \A c \in Callers :
       pc[c] \in {"subscribe", "sync", "self", "install"} =>
         tok[c] \in issued /\ (op[c] = "Connect" => tok[c] \notin forgotten)
  /\ \A c \in Callers :
       op[c] = "Connect" /\ pc[c] \in {"login", "subscribe", "sync", "self", "install"} =>
         lastToken = None
  /\ \A k \in Tokens : ended[k] <= 1 /\ (ended[k] = 1 => k \in forgotten)
  /\ pc[Prober] = "end" => tok[Prober] \in revoked

IInv == TypeOK /\ LifeInv /\ PendingInv /\ LinkInv /\ TokenInv /\ CancelReachesAttempt

\* The fields and locals keep their types; an attempt installs the stream it opened.
LEMMA TypeNext == TypeOK /\ PendingInv /\ [Next]_vars => TypeOK'
  <1> SUFFICES ASSUME TypeOK, PendingInv, [Next]_vars PROVE TypeOK'
    OBVIOUS
  <1> USE SessionAssumption DEF Threads, attemptVars, linkVars, tokenVars, localVars, serverVars
  <1>1. CASE CancelConnect
    BY <1>1 DEF CancelConnect, CancelAttempt, TypeOK, Labels, Ops, Verdicts, States
  <1>2. ASSUME NEW c \in Callers, QueueAttempt(c) PROVE TypeOK'
    BY <1>2 DEF QueueAttempt, Goto, TypeOK, Labels, Ops, Verdicts, States
  <1>3. ASSUME NEW c \in Callers, StartDisconnect(c) PROVE TypeOK'
    BY <1>3 DEF StartDisconnect, CancelAttempt, Goto, TypeOK, Labels, Ops, Verdicts, States
  <1>4. ASSUME NEW c \in Callers, BeginAttempt(c) PROVE TypeOK'
    BY <1>4 DEF BeginAttempt, Goto, TypeOK, Labels, Ops, Verdicts, States
  <1>5. ASSUME NEW c \in Callers, Teardown(c) PROVE TypeOK'
    BY <1>5 DEF Teardown, DropLink, Forget, Just, Goto, TypeOK, Labels, Ops, Verdicts, States
  <1>6. ASSUME NEW c \in Callers, Login(c) PROVE TypeOK'
    BY <1>6 DEF Login, Goto, TypeOK, Labels, Ops, Verdicts, States
  <1>7. ASSUME NEW c \in Callers, SetSelf(c) PROVE TypeOK'
    BY <1>7 DEF SetSelf, Goto, TypeOK, Labels, Ops, Verdicts, States
  <1>8. ASSUME NEW c \in Callers, InstallConnect(c) PROVE TypeOK'
    <2>1. opened[c] \in Streams
      BY <1>8 DEF InstallConnect, TypeOK, PendingInv, Pending
    <2> QED
      BY <1>8, <2>1 DEF InstallConnect, InstallStream, TypeOK, Labels, Ops, Verdicts, States
  <1>9. ASSUME NEW c \in Callers, CaptureToken(c) PROVE TypeOK'
    BY <1>9 DEF CaptureToken, Goto, TypeOK, Labels, Ops, Verdicts, States
  <1>10. ASSUME NEW c \in Callers, InstallReconnect(c) PROVE TypeOK'
    <2>1. opened[c] \in Streams
      BY <1>10 DEF InstallReconnect, TypeOK, PendingInv, Pending
    <2> QED
      BY <1>10, <2>1 DEF InstallReconnect, InstallStream, Just, TypeOK, Labels, Ops, Verdicts, States
  <1>11. ASSUME NEW c \in Callers, RefuseInstall(c) PROVE TypeOK'
    <2>1. opened[c] \in Streams
      BY <1>11 DEF RefuseInstall, TypeOK, PendingInv, Pending
    <2> QED
      BY <1>11, <2>1 DEF RefuseInstall, Abandon, TypeOK, Labels, Ops, Verdicts, States
  <1>12. ASSUME NEW c \in Callers, Subscribe(c) PROVE TypeOK'
    BY <1>12 DEF Subscribe, OpenStream, TypeOK, Labels, Ops, Verdicts, States
  <1>13. ASSUME NEW c \in Callers, Sync(c) PROVE TypeOK'
    BY <1>13 DEF Sync, Goto, TypeOK, Labels, Ops, Verdicts, States
  <1>14. ASSUME NEW c \in Callers, SyncWithoutSecret(c) PROVE TypeOK'
    BY <1>14 DEF SyncWithoutSecret, Goto, Abandon, TypeOK, Labels, Ops, Verdicts, States
  <1>15. ASSUME NEW c \in Callers, FailAttempt(c) PROVE TypeOK'
    BY <1>15 DEF FailAttempt, Abandon, Just, TypeOK, Labels, Ops, Verdicts, States
  <1>16. ASSUME NEW c \in Callers, RejectReconnect(c) PROVE TypeOK'
    BY <1>16 DEF RejectReconnect, Abandon, TypeOK, Labels, Ops, Verdicts, States
  <1>17. ASSUME NEW c \in Callers, PublishConnected(c) PROVE TypeOK'
    BY <1>17 DEF PublishConnected, Return, Goto, TypeOK, Labels, Ops, Verdicts, States
  <1>18. ASSUME NEW c \in Callers, PublishFailure(c) PROVE TypeOK'
    BY <1>18 DEF PublishFailure, Return, Goto, TypeOK, Labels, Ops, Verdicts, States
  <1>19. ASSUME NEW c \in Callers, Disconnect(c) PROVE TypeOK'
    BY <1>19 DEF Disconnect, DropLink, Forget, Just, Goto, TypeOK, Labels, Ops, Verdicts, States
  <1>20. ASSUME NEW c \in Callers, Farewell(c) PROVE TypeOK'
    BY <1>20 DEF Farewell, Just, Goto, TypeOK, Labels, Ops, Verdicts, States
  <1>21. ASSUME NEW c \in Callers, PublishLogout(c) PROVE TypeOK'
    BY <1>21 DEF PublishLogout, Return, Goto, TypeOK, Labels, Ops, Verdicts, States
  <1>22. ASSUME NEW t \in Threads, EndSession(t) PROVE TypeOK'
    BY <1>22 DEF EndSession, MayEnd, DropLink, Forget, Just, Goto, TypeOK, Labels, Ops, Verdicts, States
  <1>23. ASSUME NEW t \in Threads, EndSessionNoop(t) PROVE TypeOK'
    BY <1>23 DEF EndSessionNoop, MayEnd, Finish, Goto, TypeOK, Labels, Ops, Verdicts, States
  <1>24. ASSUME NEW t \in Threads, ResetStore(t) PROVE TypeOK'
    BY <1>24 DEF ResetStore, Goto, TypeOK, Labels, Ops, Verdicts, States
  <1>25. ASSUME NEW t \in Threads, PublishEnded(t) PROVE TypeOK'
    BY <1>25 DEF PublishEnded, Finish, Goto, TypeOK, Labels, Ops, Verdicts, States
  <1>26. ASSUME NEW c \in Callers, ReturnEnded(c) PROVE TypeOK'
    BY <1>26 DEF ReturnEnded, Return, Goto, TypeOK, Labels, Ops, Verdicts, States
  <1>27. ASSUME NEW t \in Threads, MarkControlLost(t) PROVE TypeOK'
    BY <1>27 DEF MarkControlLost, IsCurrent, DropLink, Just, Goto, TypeOK, Labels, Ops, Verdicts, States
  <1>28. ASSUME NEW t \in Threads, MarkControlLostNoop(t) PROVE TypeOK'
    BY <1>28 DEF MarkControlLostNoop, IsCurrent, Finish, Goto, TypeOK, Labels, Ops, Verdicts, States
  <1>29. ASSUME NEW t \in Threads, PublishLost(t) PROVE TypeOK'
    BY <1>29 DEF PublishLost, Finish, Goto, TypeOK, Labels, Ops, Verdicts, States
  <1>30. ASSUME NEW s \in Streams, EndStream(s) PROVE TypeOK'
    BY <1>30 DEF EndStream, Goto, TypeOK, Labels, Ops, Verdicts, States
  <1>31. ASSUME NEW s \in Streams, HandleStreamEnd(s) PROVE TypeOK'
    BY <1>31 DEF HandleStreamEnd, Goto, TypeOK, Labels, Ops, Verdicts, States
  <1>32. ASSUME NEW s \in Streams, StartResync(s) PROVE TypeOK'
    BY <1>32 DEF StartResync, IsCurrent, Goto, TypeOK, Labels, Ops, Verdicts, States
  <1>33. ASSUME NEW s \in Streams, Resubscribe(s) PROVE TypeOK'
    BY <1>33 DEF Resubscribe, OpenStream, TypeOK, Labels, Ops, Verdicts, States
  <1>34. ASSUME NEW s \in Streams, CheckResync(s) PROVE TypeOK'
    BY <1>34 DEF CheckResync, IsCurrent, Goto, Abandon, TypeOK, Labels, Ops, Verdicts, States
  <1>35. ASSUME NEW s \in Streams, ResyncSnapshot(s) PROVE TypeOK'
    BY <1>35 DEF ResyncSnapshot, Goto, TypeOK, Labels, Ops, Verdicts, States
  <1>36. ASSUME NEW s \in Streams, FailResync(s) PROVE TypeOK'
    BY <1>36 DEF FailResync, Abandon, TypeOK, Labels, Ops, Verdicts, States
  <1>37. ASSUME NEW s \in Streams, InstallResync(s) PROVE TypeOK'
    <2>1. opened[s] \in Streams
      BY <1>37 DEF InstallResync, TypeOK, PendingInv, Pending
    <2> QED
      BY <1>37, <2>1 DEF InstallResync, IsCurrent, InstallStream, TypeOK, Labels, Ops, Verdicts, States
  <1>38. ASSUME NEW s \in Streams, DropResync(s) PROVE TypeOK'
    BY <1>38 DEF DropResync, IsCurrent, Abandon, TypeOK, Labels, Ops, Verdicts, States
  <1>39. ASSUME NEW s \in Streams, PublishResync(s) PROVE TypeOK'
    BY <1>39 DEF PublishResync, Goto, TypeOK, Labels, Ops, Verdicts, States
  <1>40. CASE StartPing
    BY <1>40 DEF StartPing, Goto, TypeOK, Labels, Ops, Verdicts, States
  <1>41. CASE FinishPing
    BY <1>41 DEF FinishPing, Finish, Goto, TypeOK, Labels, Ops, Verdicts, States
  <1>42. CASE ServerEndsSession
    BY <1>42 DEF ServerEndsSession, TypeOK, Labels, Ops, Verdicts, States
  <1>43. CASE UNCHANGED vars
    BY <1>43 DEF vars, TypeOK, Labels, Ops, Verdicts, States
  <1> QED
    BY <1>1, <1>2, <1>3, <1>4, <1>5, <1>6, <1>7, <1>8, <1>9, <1>10, <1>11, <1>12, <1>13, <1>14, <1>15, <1>16, <1>17, <1>18, <1>19, <1>20, <1>21, <1>22, <1>23, <1>24, <1>25, <1>26, <1>27, <1>28, <1>29, <1>30, <1>31, <1>32, <1>33, <1>34, <1>35, <1>36, <1>37, <1>38, <1>39, <1>40, <1>41, <1>42, <1>43
    DEF Next, CallerStep, ReportStep, StreamStep

\* lifeMu is mutual exclusion, and attemptCancel belongs to its holder.
LEMMA LifeNext == TypeOK /\ LifeInv /\ [Next]_vars => LifeInv'
  <1> SUFFICES ASSUME TypeOK, LifeInv, [Next]_vars PROVE LifeInv'
    OBVIOUS
  <1> USE SessionAssumption DEF Threads, attemptVars, linkVars, tokenVars, localVars, serverVars
  <1>1. CASE CancelConnect
    BY <1>1 DEF CancelConnect, CancelAttempt, TypeOK, LifeInv, Busy
  <1>2. ASSUME NEW c \in Callers, QueueAttempt(c) PROVE LifeInv'
    BY <1>2 DEF QueueAttempt, Goto, TypeOK, LifeInv, Busy
  <1>3. ASSUME NEW c \in Callers, StartDisconnect(c) PROVE LifeInv'
    BY <1>3 DEF StartDisconnect, CancelAttempt, Goto, TypeOK, LifeInv, Busy
  <1>4. ASSUME NEW c \in Callers, BeginAttempt(c) PROVE LifeInv'
    BY <1>4 DEF BeginAttempt, Goto, TypeOK, LifeInv, Busy
  <1>5. ASSUME NEW c \in Callers, Teardown(c) PROVE LifeInv'
    BY <1>5 DEF Teardown, DropLink, Forget, Just, Goto, TypeOK, LifeInv, Busy
  <1>6. ASSUME NEW c \in Callers, Login(c) PROVE LifeInv'
    BY <1>6 DEF Login, Goto, TypeOK, LifeInv, Busy
  <1>7. ASSUME NEW c \in Callers, SetSelf(c) PROVE LifeInv'
    BY <1>7 DEF SetSelf, Goto, TypeOK, LifeInv, Busy
  <1>8. ASSUME NEW c \in Callers, InstallConnect(c) PROVE LifeInv'
    BY <1>8 DEF InstallConnect, InstallStream, TypeOK, LifeInv, Busy
  <1>9. ASSUME NEW c \in Callers, CaptureToken(c) PROVE LifeInv'
    BY <1>9 DEF CaptureToken, Goto, TypeOK, LifeInv, Busy
  <1>10. ASSUME NEW c \in Callers, InstallReconnect(c) PROVE LifeInv'
    BY <1>10 DEF InstallReconnect, InstallStream, Just, TypeOK, LifeInv, Busy
  <1>11. ASSUME NEW c \in Callers, RefuseInstall(c) PROVE LifeInv'
    BY <1>11 DEF RefuseInstall, Abandon, TypeOK, LifeInv, Busy
  <1>12. ASSUME NEW c \in Callers, Subscribe(c) PROVE LifeInv'
    BY <1>12 DEF Subscribe, OpenStream, TypeOK, LifeInv, Busy
  <1>13. ASSUME NEW c \in Callers, Sync(c) PROVE LifeInv'
    BY <1>13 DEF Sync, Goto, TypeOK, LifeInv, Busy
  <1>14. ASSUME NEW c \in Callers, SyncWithoutSecret(c) PROVE LifeInv'
    BY <1>14 DEF SyncWithoutSecret, Goto, Abandon, TypeOK, LifeInv, Busy
  <1>15. ASSUME NEW c \in Callers, FailAttempt(c) PROVE LifeInv'
    BY <1>15 DEF FailAttempt, Abandon, Just, TypeOK, LifeInv, Busy
  <1>16. ASSUME NEW c \in Callers, RejectReconnect(c) PROVE LifeInv'
    BY <1>16 DEF RejectReconnect, Abandon, TypeOK, LifeInv, Busy
  <1>17. ASSUME NEW c \in Callers, PublishConnected(c) PROVE LifeInv'
    BY <1>17 DEF PublishConnected, Return, Goto, TypeOK, LifeInv, Busy
  <1>18. ASSUME NEW c \in Callers, PublishFailure(c) PROVE LifeInv'
    BY <1>18 DEF PublishFailure, Return, Goto, TypeOK, LifeInv, Busy
  <1>19. ASSUME NEW c \in Callers, Disconnect(c) PROVE LifeInv'
    BY <1>19 DEF Disconnect, DropLink, Forget, Just, Goto, TypeOK, LifeInv, Busy
  <1>20. ASSUME NEW c \in Callers, Farewell(c) PROVE LifeInv'
    BY <1>20 DEF Farewell, Just, Goto, TypeOK, LifeInv, Busy
  <1>21. ASSUME NEW c \in Callers, PublishLogout(c) PROVE LifeInv'
    BY <1>21 DEF PublishLogout, Return, Goto, TypeOK, LifeInv, Busy
  <1>22. ASSUME NEW t \in Threads, EndSession(t) PROVE LifeInv'
    BY <1>22 DEF EndSession, MayEnd, DropLink, Forget, Just, Goto, TypeOK, LifeInv, Busy
  <1>23. ASSUME NEW t \in Threads, EndSessionNoop(t) PROVE LifeInv'
    BY <1>23 DEF EndSessionNoop, MayEnd, Finish, Goto, TypeOK, LifeInv, Busy
  <1>24. ASSUME NEW t \in Threads, ResetStore(t) PROVE LifeInv'
    BY <1>24 DEF ResetStore, Goto, TypeOK, LifeInv, Busy
  <1>25. ASSUME NEW t \in Threads, PublishEnded(t) PROVE LifeInv'
    BY <1>25 DEF PublishEnded, Finish, Goto, TypeOK, LifeInv, Busy
  <1>26. ASSUME NEW c \in Callers, ReturnEnded(c) PROVE LifeInv'
    BY <1>26 DEF ReturnEnded, Return, Goto, TypeOK, LifeInv, Busy
  <1>27. ASSUME NEW t \in Threads, MarkControlLost(t) PROVE LifeInv'
    BY <1>27 DEF MarkControlLost, IsCurrent, DropLink, Just, Goto, TypeOK, LifeInv, Busy
  <1>28. ASSUME NEW t \in Threads, MarkControlLostNoop(t) PROVE LifeInv'
    BY <1>28 DEF MarkControlLostNoop, IsCurrent, Finish, Goto, TypeOK, LifeInv, Busy
  <1>29. ASSUME NEW t \in Threads, PublishLost(t) PROVE LifeInv'
    BY <1>29 DEF PublishLost, Finish, Goto, TypeOK, LifeInv, Busy
  <1>30. ASSUME NEW s \in Streams, EndStream(s) PROVE LifeInv'
    BY <1>30 DEF EndStream, Goto, TypeOK, LifeInv, Busy
  <1>31. ASSUME NEW s \in Streams, HandleStreamEnd(s) PROVE LifeInv'
    BY <1>31 DEF HandleStreamEnd, Goto, TypeOK, LifeInv, Busy
  <1>32. ASSUME NEW s \in Streams, StartResync(s) PROVE LifeInv'
    BY <1>32 DEF StartResync, IsCurrent, Goto, TypeOK, LifeInv, Busy
  <1>33. ASSUME NEW s \in Streams, Resubscribe(s) PROVE LifeInv'
    BY <1>33 DEF Resubscribe, OpenStream, TypeOK, LifeInv, Busy
  <1>34. ASSUME NEW s \in Streams, CheckResync(s) PROVE LifeInv'
    BY <1>34 DEF CheckResync, IsCurrent, Goto, Abandon, TypeOK, LifeInv, Busy
  <1>35. ASSUME NEW s \in Streams, ResyncSnapshot(s) PROVE LifeInv'
    BY <1>35 DEF ResyncSnapshot, Goto, TypeOK, LifeInv, Busy
  <1>36. ASSUME NEW s \in Streams, FailResync(s) PROVE LifeInv'
    BY <1>36 DEF FailResync, Abandon, TypeOK, LifeInv, Busy
  <1>37. ASSUME NEW s \in Streams, InstallResync(s) PROVE LifeInv'
    BY <1>37 DEF InstallResync, IsCurrent, InstallStream, TypeOK, LifeInv, Busy
  <1>38. ASSUME NEW s \in Streams, DropResync(s) PROVE LifeInv'
    BY <1>38 DEF DropResync, IsCurrent, Abandon, TypeOK, LifeInv, Busy
  <1>39. ASSUME NEW s \in Streams, PublishResync(s) PROVE LifeInv'
    BY <1>39 DEF PublishResync, Goto, TypeOK, LifeInv, Busy
  <1>40. CASE StartPing
    BY <1>40 DEF StartPing, Goto, TypeOK, LifeInv, Busy
  <1>41. CASE FinishPing
    BY <1>41 DEF FinishPing, Finish, Goto, TypeOK, LifeInv, Busy
  <1>42. CASE ServerEndsSession
    BY <1>42 DEF ServerEndsSession, TypeOK, LifeInv, Busy
  <1>43. CASE UNCHANGED vars
    BY <1>43 DEF vars, TypeOK, LifeInv, Busy
  <1> QED
    BY <1>1, <1>2, <1>3, <1>4, <1>5, <1>6, <1>7, <1>8, <1>9, <1>10, <1>11, <1>12, <1>13, <1>14, <1>15, <1>16, <1>17, <1>18, <1>19, <1>20, <1>21, <1>22, <1>23, <1>24, <1>25, <1>26, <1>27, <1>28, <1>29, <1>30, <1>31, <1>32, <1>33, <1>34, <1>35, <1>36, <1>37, <1>38, <1>39, <1>40, <1>41, <1>42, <1>43
    DEF Next, CallerStep, ReportStep, StreamStep

\* A cancel reaches the attempt in flight (CancelConnect) or queued (beginAttempt).
LEMMA CancelNext == TypeOK /\ LifeInv /\ CancelReachesAttempt /\ [Next]_vars => CancelReachesAttempt'
  <1> SUFFICES ASSUME TypeOK, LifeInv, CancelReachesAttempt, [Next]_vars PROVE CancelReachesAttempt'
    OBVIOUS
  <1> USE SessionAssumption DEF Threads, attemptVars, linkVars, tokenVars, localVars, serverVars
  <1>1. CASE CancelConnect
    BY <1>1 DEF CancelConnect, CancelAttempt, TypeOK, LifeInv, Busy, CancelReachesAttempt
  <1>2. ASSUME NEW c \in Callers, QueueAttempt(c) PROVE CancelReachesAttempt'
    BY <1>2 DEF QueueAttempt, Goto, TypeOK, LifeInv, Busy, CancelReachesAttempt
  <1>3. ASSUME NEW c \in Callers, StartDisconnect(c) PROVE CancelReachesAttempt'
    BY <1>3 DEF StartDisconnect, CancelAttempt, Goto, TypeOK, LifeInv, Busy, CancelReachesAttempt
  <1>4. ASSUME NEW c \in Callers, BeginAttempt(c) PROVE CancelReachesAttempt'
    BY <1>4 DEF BeginAttempt, Goto, TypeOK, LifeInv, Busy, CancelReachesAttempt
  <1>5. ASSUME NEW c \in Callers, Teardown(c) PROVE CancelReachesAttempt'
    BY <1>5 DEF Teardown, DropLink, Forget, Just, Goto, TypeOK, LifeInv, Busy, CancelReachesAttempt
  <1>6. ASSUME NEW c \in Callers, Login(c) PROVE CancelReachesAttempt'
    BY <1>6 DEF Login, Goto, TypeOK, LifeInv, Busy, CancelReachesAttempt
  <1>7. ASSUME NEW c \in Callers, SetSelf(c) PROVE CancelReachesAttempt'
    BY <1>7 DEF SetSelf, Goto, TypeOK, LifeInv, Busy, CancelReachesAttempt
  <1>8. ASSUME NEW c \in Callers, InstallConnect(c) PROVE CancelReachesAttempt'
    BY <1>8 DEF InstallConnect, InstallStream, TypeOK, LifeInv, Busy, CancelReachesAttempt
  <1>9. ASSUME NEW c \in Callers, CaptureToken(c) PROVE CancelReachesAttempt'
    BY <1>9 DEF CaptureToken, Goto, TypeOK, LifeInv, Busy, CancelReachesAttempt
  <1>10. ASSUME NEW c \in Callers, InstallReconnect(c) PROVE CancelReachesAttempt'
    BY <1>10 DEF InstallReconnect, InstallStream, Just, TypeOK, LifeInv, Busy, CancelReachesAttempt
  <1>11. ASSUME NEW c \in Callers, RefuseInstall(c) PROVE CancelReachesAttempt'
    BY <1>11 DEF RefuseInstall, Abandon, TypeOK, LifeInv, Busy, CancelReachesAttempt
  <1>12. ASSUME NEW c \in Callers, Subscribe(c) PROVE CancelReachesAttempt'
    BY <1>12 DEF Subscribe, OpenStream, TypeOK, LifeInv, Busy, CancelReachesAttempt
  <1>13. ASSUME NEW c \in Callers, Sync(c) PROVE CancelReachesAttempt'
    BY <1>13 DEF Sync, Goto, TypeOK, LifeInv, Busy, CancelReachesAttempt
  <1>14. ASSUME NEW c \in Callers, SyncWithoutSecret(c) PROVE CancelReachesAttempt'
    BY <1>14 DEF SyncWithoutSecret, Goto, Abandon, TypeOK, LifeInv, Busy, CancelReachesAttempt
  <1>15. ASSUME NEW c \in Callers, FailAttempt(c) PROVE CancelReachesAttempt'
    BY <1>15 DEF FailAttempt, Abandon, Just, TypeOK, LifeInv, Busy, CancelReachesAttempt
  <1>16. ASSUME NEW c \in Callers, RejectReconnect(c) PROVE CancelReachesAttempt'
    BY <1>16 DEF RejectReconnect, Abandon, TypeOK, LifeInv, Busy, CancelReachesAttempt
  <1>17. ASSUME NEW c \in Callers, PublishConnected(c) PROVE CancelReachesAttempt'
    BY <1>17 DEF PublishConnected, Return, Goto, TypeOK, LifeInv, Busy, CancelReachesAttempt
  <1>18. ASSUME NEW c \in Callers, PublishFailure(c) PROVE CancelReachesAttempt'
    BY <1>18 DEF PublishFailure, Return, Goto, TypeOK, LifeInv, Busy, CancelReachesAttempt
  <1>19. ASSUME NEW c \in Callers, Disconnect(c) PROVE CancelReachesAttempt'
    BY <1>19 DEF Disconnect, DropLink, Forget, Just, Goto, TypeOK, LifeInv, Busy, CancelReachesAttempt
  <1>20. ASSUME NEW c \in Callers, Farewell(c) PROVE CancelReachesAttempt'
    BY <1>20 DEF Farewell, Just, Goto, TypeOK, LifeInv, Busy, CancelReachesAttempt
  <1>21. ASSUME NEW c \in Callers, PublishLogout(c) PROVE CancelReachesAttempt'
    BY <1>21 DEF PublishLogout, Return, Goto, TypeOK, LifeInv, Busy, CancelReachesAttempt
  <1>22. ASSUME NEW t \in Threads, EndSession(t) PROVE CancelReachesAttempt'
    BY <1>22 DEF EndSession, MayEnd, DropLink, Forget, Just, Goto, TypeOK, LifeInv, Busy, CancelReachesAttempt
  <1>23. ASSUME NEW t \in Threads, EndSessionNoop(t) PROVE CancelReachesAttempt'
    BY <1>23 DEF EndSessionNoop, MayEnd, Finish, Goto, TypeOK, LifeInv, Busy, CancelReachesAttempt
  <1>24. ASSUME NEW t \in Threads, ResetStore(t) PROVE CancelReachesAttempt'
    BY <1>24 DEF ResetStore, Goto, TypeOK, LifeInv, Busy, CancelReachesAttempt
  <1>25. ASSUME NEW t \in Threads, PublishEnded(t) PROVE CancelReachesAttempt'
    BY <1>25 DEF PublishEnded, Finish, Goto, TypeOK, LifeInv, Busy, CancelReachesAttempt
  <1>26. ASSUME NEW c \in Callers, ReturnEnded(c) PROVE CancelReachesAttempt'
    BY <1>26 DEF ReturnEnded, Return, Goto, TypeOK, LifeInv, Busy, CancelReachesAttempt
  <1>27. ASSUME NEW t \in Threads, MarkControlLost(t) PROVE CancelReachesAttempt'
    BY <1>27 DEF MarkControlLost, IsCurrent, DropLink, Just, Goto, TypeOK, LifeInv, Busy, CancelReachesAttempt
  <1>28. ASSUME NEW t \in Threads, MarkControlLostNoop(t) PROVE CancelReachesAttempt'
    BY <1>28 DEF MarkControlLostNoop, IsCurrent, Finish, Goto, TypeOK, LifeInv, Busy, CancelReachesAttempt
  <1>29. ASSUME NEW t \in Threads, PublishLost(t) PROVE CancelReachesAttempt'
    BY <1>29 DEF PublishLost, Finish, Goto, TypeOK, LifeInv, Busy, CancelReachesAttempt
  <1>30. ASSUME NEW s \in Streams, EndStream(s) PROVE CancelReachesAttempt'
    BY <1>30 DEF EndStream, Goto, TypeOK, LifeInv, Busy, CancelReachesAttempt
  <1>31. ASSUME NEW s \in Streams, HandleStreamEnd(s) PROVE CancelReachesAttempt'
    BY <1>31 DEF HandleStreamEnd, Goto, TypeOK, LifeInv, Busy, CancelReachesAttempt
  <1>32. ASSUME NEW s \in Streams, StartResync(s) PROVE CancelReachesAttempt'
    BY <1>32 DEF StartResync, IsCurrent, Goto, TypeOK, LifeInv, Busy, CancelReachesAttempt
  <1>33. ASSUME NEW s \in Streams, Resubscribe(s) PROVE CancelReachesAttempt'
    BY <1>33 DEF Resubscribe, OpenStream, TypeOK, LifeInv, Busy, CancelReachesAttempt
  <1>34. ASSUME NEW s \in Streams, CheckResync(s) PROVE CancelReachesAttempt'
    BY <1>34 DEF CheckResync, IsCurrent, Goto, Abandon, TypeOK, LifeInv, Busy, CancelReachesAttempt
  <1>35. ASSUME NEW s \in Streams, ResyncSnapshot(s) PROVE CancelReachesAttempt'
    BY <1>35 DEF ResyncSnapshot, Goto, TypeOK, LifeInv, Busy, CancelReachesAttempt
  <1>36. ASSUME NEW s \in Streams, FailResync(s) PROVE CancelReachesAttempt'
    BY <1>36 DEF FailResync, Abandon, TypeOK, LifeInv, Busy, CancelReachesAttempt
  <1>37. ASSUME NEW s \in Streams, InstallResync(s) PROVE CancelReachesAttempt'
    BY <1>37 DEF InstallResync, IsCurrent, InstallStream, TypeOK, LifeInv, Busy, CancelReachesAttempt
  <1>38. ASSUME NEW s \in Streams, DropResync(s) PROVE CancelReachesAttempt'
    BY <1>38 DEF DropResync, IsCurrent, Abandon, TypeOK, LifeInv, Busy, CancelReachesAttempt
  <1>39. ASSUME NEW s \in Streams, PublishResync(s) PROVE CancelReachesAttempt'
    BY <1>39 DEF PublishResync, Goto, TypeOK, LifeInv, Busy, CancelReachesAttempt
  <1>40. CASE StartPing
    BY <1>40 DEF StartPing, Goto, TypeOK, LifeInv, Busy, CancelReachesAttempt
  <1>41. CASE FinishPing
    BY <1>41 DEF FinishPing, Finish, Goto, TypeOK, LifeInv, Busy, CancelReachesAttempt
  <1>42. CASE ServerEndsSession
    BY <1>42 DEF ServerEndsSession, TypeOK, LifeInv, Busy, CancelReachesAttempt
  <1>43. CASE UNCHANGED vars
    BY <1>43 DEF vars, TypeOK, LifeInv, Busy, CancelReachesAttempt
  <1> QED
    BY <1>1, <1>2, <1>3, <1>4, <1>5, <1>6, <1>7, <1>8, <1>9, <1>10, <1>11, <1>12, <1>13, <1>14, <1>15, <1>16, <1>17, <1>18, <1>19, <1>20, <1>21, <1>22, <1>23, <1>24, <1>25, <1>26, <1>27, <1>28, <1>29, <1>30, <1>31, <1>32, <1>33, <1>34, <1>35, <1>36, <1>37, <1>38, <1>39, <1>40, <1>41, <1>42, <1>43
    DEF Next, CallerStep, ReportStep, StreamStep

\* installLocked: the stream that is installed is nobody's pending stream any more.
LEMMA InstallKeepsPending ==
  ASSUME TypeOK, PendingInv, NEW t \in Callers \cup Streams, NEW l \in {"publish", "rePublish"},
         Pending(t), InstallStream(t, opened[t], l), UNCHANGED <<tok, link, opened>>
  PROVE  PendingInv'
  <1> USE SessionAssumption DEF Threads
  <1> DEFINE s == opened[t]
  <1>1. /\ s \in Streams /\ pc[s] \in {"held", "heldEnded"} /\ s # t
        /\ pc \in [Threads -> Labels] /\ opened[s] = None
    BY DEF TypeOK, PendingInv, Pending
  <1>2. pc' = [pc EXCEPT ![t] = l, ![s] = pc'[s]] /\ pc'[s] \in {"live", "endedStream"} /\ pc'[t] = l
    BY <1>1 DEF InstallStream
  <1>3. ASSUME NEW u \in Callers \cup Streams, Pending(u)'
        PROVE  Pending(u) /\ u # t /\ u # s /\ opened[u] # s /\ opened[u] # t
    <2>1. u # t /\ u # s
      BY <1>2, <1>3 DEF Pending
    <2>2. Pending(u)
      BY <1>1, <1>2, <1>3, <2>1 DEF Pending
    <2> QED
      BY <2>1, <2>2 DEF PendingInv, Pending
  <1>4. ASSUME NEW u \in Callers \cup Streams, Pending(u)'
        PROVE  /\ opened'[u] \in Streams
               /\ pc'[opened'[u]] \in {"held", "heldEnded"}
               /\ tok'[opened'[u]] = tok'[u]
               /\ link'[opened'[u]] = IF u \in Callers THEN opened'[u] ELSE link'[u]
    <2>1. pc'[opened[u]] = pc[opened[u]]
      BY <1>1, <1>2, <1>3, <1>4 DEF PendingInv
    <2> QED
      BY <1>3, <1>4, <2>1 DEF PendingInv
  <1>5. \A u, v \in Callers \cup Streams :
          Pending(u)' /\ Pending(v)' /\ opened'[u] = opened'[v] => u = v
    BY <1>3 DEF PendingInv
  <1>6. ASSUME NEW u \in Callers \cup Streams,
               pc'[u] \in {"idle", "queued", "begun", "login", "subscribe", "off", "held",
                          "heldEnded", "live", "endedStream", "resync", "reSubscribe"}
        PROVE  opened'[u] = None
    <2>1. CASE u = s
      BY <1>1, <2>1
    <2>2. CASE u # s
      BY <1>1, <1>2, <1>6, <2>2 DEF PendingInv
    <2> QED
      BY <2>1, <2>2
  <1> QED
    BY <1>4, <1>5, <1>6 DEF PendingInv

\* release and the early returns of resync: whoever gives up has nothing pending.
LEMMA AbandonKeepsPending ==
  ASSUME TypeOK, PendingInv, NEW t \in Callers \cup Streams,
         NEW l \in {"fail", "done", "lose", "end"}, Pending(t) \/ pc[t] \in {"login", "subscribe", "reSubscribe"},
         Abandon(t, l), UNCHANGED <<tok, link>>
  PROVE  PendingInv'
  <1> USE SessionAssumption DEF Threads
  <1> DEFINE s == opened[t]
  <1>1. /\ pc \in [Threads -> Labels] /\ opened \in [Callers \cup Streams -> Streams \cup {None}]
        /\ pc[t] \notin {"held", "heldEnded"}
    BY DEF TypeOK, Pending
  <1>2. /\ pc' = [x \in Threads |-> IF x = t THEN l ELSE IF x = s THEN "done" ELSE pc[x]]
        /\ opened' = [opened EXCEPT ![t] = None]
    BY DEF Abandon
  <1>3. ASSUME NEW u \in Callers \cup Streams, Pending(u)'
        PROVE  Pending(u) /\ u # t /\ opened'[u] = opened[u] /\ opened[u] # s /\ opened[u] # t
    <2>1. u # t /\ u # s /\ Pending(u)
      BY <1>2, <1>3 DEF Pending
    <2>2. opened'[u] = opened[u]
      BY <1>1, <1>2, <2>1
    <2>3. opened[u] \in Streams /\ pc[opened[u]] \in {"held", "heldEnded"}
      BY <2>1 DEF PendingInv
    <2>4. opened[u] # s
      <3>1. CASE Pending(t)
        BY <2>1, <3>1 DEF PendingInv
      <3>2. CASE pc[t] \in {"login", "subscribe", "reSubscribe"}
        BY <2>3, <3>2 DEF PendingInv
      <3> QED
        BY <3>1, <3>2
    <2> QED
      BY <1>1, <2>1, <2>2, <2>3, <2>4
  <1>4. ASSUME NEW u \in Callers \cup Streams, Pending(u)'
        PROVE  /\ opened'[u] \in Streams
               /\ pc'[opened'[u]] \in {"held", "heldEnded"}
               /\ tok'[opened'[u]] = tok'[u]
               /\ link'[opened'[u]] = IF u \in Callers THEN opened'[u] ELSE link'[u]
    <2>1. opened[u] \in Streams
      BY <1>3, <1>4 DEF PendingInv
    <2>2. pc'[opened[u]] = pc[opened[u]]
      BY <1>2, <1>3, <1>4, <2>1
    <2> QED
      BY <1>3, <1>4, <2>2 DEF PendingInv
  <1>5. \A u, v \in Callers \cup Streams :
          Pending(u)' /\ Pending(v)' /\ opened'[u] = opened'[v] => u = v
    BY <1>3 DEF PendingInv
  <1>6. ASSUME NEW u \in Callers \cup Streams,
               pc'[u] \in {"idle", "queued", "begun", "login", "subscribe", "off", "held",
                          "heldEnded", "live", "endedStream", "resync", "reSubscribe"}
        PROVE  opened'[u] = None
    <2>1. u # t /\ u # s /\ pc'[u] = pc[u] /\ opened'[u] = opened[u]
      BY <1>1, <1>2, <1>6
    <2> QED
      BY <1>6, <2>1 DEF PendingInv
  <1> QED
    BY <1>4, <1>5, <1>6 DEF PendingInv

\* Subscribing a stream ahead: it is fresh, and its opener alone waits for it.
LEMMA OpenKeepsPending ==
  ASSUME TypeOK, PendingInv, NEW o \in Callers \cup Streams, NEW x \in Streams,
         NEW l, NEW k, NEW n,
         \/ pc[o] = "subscribe" /\ o \in Callers /\ l = x /\ n = "sync"
         \/ pc[o] = "reSubscribe" /\ o \in Streams /\ l = link[o] /\ n = "reCheck",
         k = tok[o], OpenStream(o, x, l, k, n)
  PROVE  PendingInv'
  <1> USE SessionAssumption DEF Threads
  <1>1. /\ pc[x] = "off" /\ x # o
        /\ pc' = [pc EXCEPT ![o] = n, ![x] = "held"]
        /\ link' = [link EXCEPT ![x] = l]
        /\ tok' = [tok EXCEPT ![x] = k]
        /\ opened' = [opened EXCEPT ![o] = x]
    BY DEF OpenStream
  <1>2. /\ pc \in [Threads -> Labels] /\ opened \in [Callers \cup Streams -> Streams \cup {None}]
        /\ DOMAIN link = Streams /\ Callers \cup Streams \subseteq DOMAIN tok
        /\ tok = [t \in DOMAIN tok |-> tok[t]]
    BY DEF TypeOK
  <1>3. \A t \in Callers \cup Streams : Pending(t) => opened[t] # x
    BY <1>1 DEF PendingInv
  <1>4. \A t \in Callers \cup Streams : t # o /\ Pending(t)' => t # x /\ Pending(t)
    BY <1>1, <1>2 DEF Pending
  <1>5. /\ \A t \in Callers \cup Streams : t # o => opened'[t] = opened[t]
        /\ opened'[o] = x
    BY <1>1, <1>2
  <1>6. ASSUME NEW t \in Callers \cup Streams, Pending(t)'
        PROVE  /\ opened'[t] \in Streams
               /\ pc'[opened'[t]] \in {"held", "heldEnded"}
               /\ tok'[opened'[t]] = tok'[t]
               /\ link'[opened'[t]] = IF t \in Callers THEN opened'[t] ELSE link'[t]
    <2>1. CASE t = o
      BY <1>1, <1>2, <1>5, <2>1
    <2>2. CASE t # o
      <3>1. Pending(t) /\ t # x /\ opened'[t] = opened[t] /\ opened[t] # x
        BY <1>3, <1>4, <1>5, <1>6, <2>2
      <3>2. opened[t] \in Streams /\ opened[t] # o
        BY <3>1 DEF PendingInv
      <3>3. /\ pc'[opened[t]] = pc[opened[t]]
            /\ tok'[opened[t]] = tok[opened[t]] /\ tok'[t] = tok[t]
            /\ link'[opened[t]] = link[opened[t]]
            /\ t \in Streams => link'[t] = link[t]
        BY <1>1, <1>2, <2>2, <3>1, <3>2
      <3> QED
        BY <3>1, <3>3 DEF PendingInv
    <2> QED
      BY <2>1, <2>2
  <1>7. \A t, u \in Callers \cup Streams :
          Pending(t)' /\ Pending(u)' /\ opened'[t] = opened'[u] => t = u
    BY <1>3, <1>4, <1>5 DEF PendingInv
  <1>8. \A t \in Callers \cup Streams :
          pc'[t] \in {"idle", "queued", "begun", "login", "subscribe", "off", "held",
                     "heldEnded", "live", "endedStream", "resync", "reSubscribe"}
            => opened'[t] = None
    BY <1>1, <1>2, <1>5 DEF PendingInv
  <1> QED
    BY <1>6, <1>7, <1>8 DEF PendingInv

\* A stream opened ahead stays its opener's until it is installed or abandoned.
LEMMA PendingNext == TypeOK /\ LifeInv /\ PendingInv /\ [Next]_vars => PendingInv'
  <1> SUFFICES ASSUME TypeOK, LifeInv, PendingInv, [Next]_vars PROVE PendingInv'
    OBVIOUS
  <1> USE SessionAssumption DEF Threads, attemptVars, linkVars, tokenVars, localVars, serverVars
  <1>1. CASE CancelConnect
    BY <1>1 DEF CancelConnect, CancelAttempt, TypeOK, LifeInv, PendingInv, Pending, Busy
  <1>2. ASSUME NEW c \in Callers, QueueAttempt(c) PROVE PendingInv'
    BY <1>2 DEF QueueAttempt, Goto, TypeOK, LifeInv, PendingInv, Pending, Busy
  <1>3. ASSUME NEW c \in Callers, StartDisconnect(c) PROVE PendingInv'
    BY <1>3 DEF StartDisconnect, CancelAttempt, Goto, TypeOK, LifeInv, PendingInv, Pending, Busy
  <1>4. ASSUME NEW c \in Callers, BeginAttempt(c) PROVE PendingInv'
    BY <1>4 DEF BeginAttempt, Goto, TypeOK, LifeInv, PendingInv, Pending, Busy
  <1>5. ASSUME NEW c \in Callers, Teardown(c) PROVE PendingInv'
    BY <1>5 DEF Teardown, DropLink, Forget, Just, Goto, TypeOK, LifeInv, PendingInv, Pending, Busy
  <1>6. ASSUME NEW c \in Callers, Login(c) PROVE PendingInv'
    BY <1>6 DEF Login, Goto, TypeOK, LifeInv, PendingInv, Pending, Busy
  <1>7. ASSUME NEW c \in Callers, SetSelf(c) PROVE PendingInv'
    BY <1>7 DEF SetSelf, Goto, TypeOK, LifeInv, PendingInv, Pending, Busy
  <1>8. ASSUME NEW c \in Callers, InstallConnect(c) PROVE PendingInv'
    BY <1>8, InstallKeepsPending DEF InstallConnect, Pending
  <1>9. ASSUME NEW c \in Callers, CaptureToken(c) PROVE PendingInv'
    BY <1>9 DEF CaptureToken, Goto, TypeOK, LifeInv, PendingInv, Pending, Busy
  <1>10. ASSUME NEW c \in Callers, InstallReconnect(c) PROVE PendingInv'
    BY <1>10, InstallKeepsPending DEF InstallReconnect, Pending
  <1>11. ASSUME NEW c \in Callers, RefuseInstall(c) PROVE PendingInv'
    BY <1>11, AbandonKeepsPending DEF RefuseInstall, Pending
  <1>12. ASSUME NEW c \in Callers, Subscribe(c) PROVE PendingInv'
    <2>1. PICK x \in Streams : OpenStream(c, x, x, tok[c], "sync")
      BY <1>12 DEF Subscribe
    <2>2. pc[c] = "subscribe"
      BY <1>12 DEF Subscribe
    <2> QED
      BY <2>1, <2>2, OpenKeepsPending
  <1>13. ASSUME NEW c \in Callers, Sync(c) PROVE PendingInv'
    BY <1>13 DEF Sync, Goto, TypeOK, LifeInv, PendingInv, Pending, Busy
  <1>14. ASSUME NEW c \in Callers, SyncWithoutSecret(c) PROVE PendingInv'
    <2>1. CASE op[c] = "Connect" /\ Goto(c, "self") /\ UNCHANGED opened
      BY <1>14, <2>1 DEF SyncWithoutSecret, Goto, TypeOK, PendingInv, Pending
    <2>2. CASE Abandon(c, "end")
      BY <1>14, <2>2, AbandonKeepsPending DEF SyncWithoutSecret, Pending
    <2> QED
      BY <1>14, <2>1, <2>2 DEF SyncWithoutSecret
  <1>15. ASSUME NEW c \in Callers, FailAttempt(c) PROVE PendingInv'
    BY <1>15, AbandonKeepsPending DEF FailAttempt, Pending
  <1>16. ASSUME NEW c \in Callers, RejectReconnect(c) PROVE PendingInv'
    BY <1>16, AbandonKeepsPending DEF RejectReconnect, Pending
  <1>17. ASSUME NEW c \in Callers, PublishConnected(c) PROVE PendingInv'
    BY <1>17 DEF PublishConnected, Return, Goto, TypeOK, LifeInv, PendingInv, Pending, Busy
  <1>18. ASSUME NEW c \in Callers, PublishFailure(c) PROVE PendingInv'
    BY <1>18 DEF PublishFailure, Return, Goto, TypeOK, LifeInv, PendingInv, Pending, Busy
  <1>19. ASSUME NEW c \in Callers, Disconnect(c) PROVE PendingInv'
    BY <1>19 DEF Disconnect, DropLink, Forget, Just, Goto, TypeOK, LifeInv, PendingInv, Pending, Busy
  <1>20. ASSUME NEW c \in Callers, Farewell(c) PROVE PendingInv'
    BY <1>20 DEF Farewell, Just, Goto, TypeOK, LifeInv, PendingInv, Pending, Busy
  <1>21. ASSUME NEW c \in Callers, PublishLogout(c) PROVE PendingInv'
    BY <1>21 DEF PublishLogout, Return, Goto, TypeOK, LifeInv, PendingInv, Pending, Busy
  <1>22. ASSUME NEW t \in Threads, EndSession(t) PROVE PendingInv'
    BY <1>22 DEF EndSession, MayEnd, DropLink, Forget, Just, Goto, TypeOK, LifeInv, PendingInv, Pending, Busy
  <1>23. ASSUME NEW t \in Threads, EndSessionNoop(t) PROVE PendingInv'
    BY <1>23 DEF EndSessionNoop, MayEnd, Finish, Goto, TypeOK, LifeInv, PendingInv, Pending, Busy
  <1>24. ASSUME NEW t \in Threads, ResetStore(t) PROVE PendingInv'
    BY <1>24 DEF ResetStore, Goto, TypeOK, LifeInv, PendingInv, Pending, Busy
  <1>25. ASSUME NEW t \in Threads, PublishEnded(t) PROVE PendingInv'
    BY <1>25 DEF PublishEnded, Finish, Goto, TypeOK, LifeInv, PendingInv, Pending, Busy
  <1>26. ASSUME NEW c \in Callers, ReturnEnded(c) PROVE PendingInv'
    BY <1>26 DEF ReturnEnded, Return, Goto, TypeOK, LifeInv, PendingInv, Pending, Busy
  <1>27. ASSUME NEW t \in Threads, MarkControlLost(t) PROVE PendingInv'
    BY <1>27 DEF MarkControlLost, IsCurrent, DropLink, Just, Goto, TypeOK, LifeInv, PendingInv, Pending, Busy
  <1>28. ASSUME NEW t \in Threads, MarkControlLostNoop(t) PROVE PendingInv'
    BY <1>28 DEF MarkControlLostNoop, IsCurrent, Finish, Goto, TypeOK, LifeInv, PendingInv, Pending, Busy
  <1>29. ASSUME NEW t \in Threads, PublishLost(t) PROVE PendingInv'
    BY <1>29 DEF PublishLost, Finish, Goto, TypeOK, LifeInv, PendingInv, Pending, Busy
  <1>30. ASSUME NEW s \in Streams, EndStream(s) PROVE PendingInv'
    BY <1>30 DEF EndStream, Goto, TypeOK, LifeInv, PendingInv, Pending, Busy
  <1>31. ASSUME NEW s \in Streams, HandleStreamEnd(s) PROVE PendingInv'
    BY <1>31 DEF HandleStreamEnd, Goto, TypeOK, LifeInv, PendingInv, Pending, Busy
  <1>32. ASSUME NEW s \in Streams, StartResync(s) PROVE PendingInv'
    BY <1>32 DEF StartResync, IsCurrent, Goto, TypeOK, LifeInv, PendingInv, Pending, Busy
  <1>33. ASSUME NEW s \in Streams, Resubscribe(s) PROVE PendingInv'
    <2>1. PICK x \in Streams : OpenStream(s, x, link[s], tok[s], "reCheck")
      BY <1>33 DEF Resubscribe
    <2>2. pc[s] = "reSubscribe"
      BY <1>33 DEF Resubscribe
    <2> QED
      BY <2>1, <2>2, OpenKeepsPending
  <1>34. ASSUME NEW s \in Streams, CheckResync(s) PROVE PendingInv'
    <2>1. CASE IsCurrent(s)
      <3>1. /\ UNCHANGED <<opened, tok, link>> /\ pc[s] = "reCheck" /\ pc' = [pc EXCEPT ![s] = "reSync"]
        BY <1>34, <2>1 DEF CheckResync, Goto
      <3>2. \A t \in Callers \cup Streams : pc'[t] = pc[t] \/ (t = s /\ pc'[t] = "reSync")
        BY <3>1 DEF TypeOK
      <3>3. \A t \in Callers \cup Streams : Pending(t)' <=> Pending(t)
        BY <3>1, <3>2 DEF Pending
      <3> QED
        BY <3>1, <3>2, <3>3 DEF PendingInv
    <2>2. CASE ~IsCurrent(s)
      BY <1>34, <2>2, AbandonKeepsPending DEF CheckResync, Pending
    <2> QED
      BY <2>1, <2>2
  <1>35. ASSUME NEW s \in Streams, ResyncSnapshot(s) PROVE PendingInv'
    BY <1>35 DEF ResyncSnapshot, Goto, TypeOK, LifeInv, PendingInv, Pending, Busy
  <1>36. ASSUME NEW s \in Streams, FailResync(s) PROVE PendingInv'
    BY <1>36, AbandonKeepsPending DEF FailResync, Pending
  <1>37. ASSUME NEW s \in Streams, InstallResync(s) PROVE PendingInv'
    BY <1>37, InstallKeepsPending DEF InstallResync, Pending
  <1>38. ASSUME NEW s \in Streams, DropResync(s) PROVE PendingInv'
    BY <1>38, AbandonKeepsPending DEF DropResync, Pending
  <1>39. ASSUME NEW s \in Streams, PublishResync(s) PROVE PendingInv'
    BY <1>39 DEF PublishResync, Goto, TypeOK, LifeInv, PendingInv, Pending, Busy
  <1>40. CASE StartPing
    BY <1>40 DEF StartPing, Goto, TypeOK, LifeInv, PendingInv, Pending, Busy
  <1>41. CASE FinishPing
    BY <1>41 DEF FinishPing, Finish, Goto, TypeOK, LifeInv, PendingInv, Pending, Busy
  <1>42. CASE ServerEndsSession
    BY <1>42 DEF ServerEndsSession, TypeOK, LifeInv, PendingInv, Pending, Busy
  <1>43. CASE UNCHANGED vars
    BY <1>43 DEF vars, TypeOK, LifeInv, PendingInv, Pending, Busy
  <1> QED
    BY <1>1, <1>2, <1>3, <1>4, <1>5, <1>6, <1>7, <1>8, <1>9, <1>10, <1>11, <1>12, <1>13, <1>14, <1>15, <1>16, <1>17, <1>18, <1>19, <1>20, <1>21, <1>22, <1>23, <1>24, <1>25, <1>26, <1>27, <1>28, <1>29, <1>30, <1>31, <1>32, <1>33, <1>34, <1>35, <1>36, <1>37, <1>38, <1>39, <1>40, <1>41, <1>42, <1>43
    DEF Next, CallerStep, ReportStep, StreamStep

\* Generations stay unique, and the current one stays watched.
LEMMA LinkNext == TypeOK /\ PendingInv /\ LinkInv /\ [Next]_vars => LinkInv'
  <1> SUFFICES ASSUME TypeOK, PendingInv, LinkInv, [Next]_vars PROVE LinkInv'
    OBVIOUS
  <1> USE SessionAssumption DEF Threads, attemptVars, linkVars, tokenVars, localVars, serverVars
  <1>1. CASE CancelConnect
    BY <1>1 DEF CancelConnect, CancelAttempt, TypeOK, PendingInv, LinkInv, Pending, Fresh, Watching
  <1>2. ASSUME NEW c \in Callers, QueueAttempt(c) PROVE LinkInv'
    BY <1>2 DEF QueueAttempt, Goto, TypeOK, PendingInv, LinkInv, Pending, Fresh, Watching
  <1>3. ASSUME NEW c \in Callers, StartDisconnect(c) PROVE LinkInv'
    BY <1>3 DEF StartDisconnect, CancelAttempt, Goto, TypeOK, PendingInv, LinkInv, Pending, Fresh, Watching
  <1>4. ASSUME NEW c \in Callers, BeginAttempt(c) PROVE LinkInv'
    BY <1>4 DEF BeginAttempt, Goto, TypeOK, PendingInv, LinkInv, Pending, Fresh, Watching
  <1>5. ASSUME NEW c \in Callers, Teardown(c) PROVE LinkInv'
    BY <1>5 DEF Teardown, DropLink, Forget, Just, Goto, TypeOK, PendingInv, LinkInv, Pending, Fresh, Watching
  <1>6. ASSUME NEW c \in Callers, Login(c) PROVE LinkInv'
    BY <1>6 DEF Login, Goto, TypeOK, PendingInv, LinkInv, Pending, Fresh, Watching
  <1>7. ASSUME NEW c \in Callers, SetSelf(c) PROVE LinkInv'
    BY <1>7 DEF SetSelf, Goto, TypeOK, PendingInv, LinkInv, Pending, Fresh, Watching
  <1>8. ASSUME NEW c \in Callers, InstallConnect(c) PROVE LinkInv'
    BY <1>8 DEF InstallConnect, InstallStream, TypeOK, PendingInv, LinkInv, Pending, Fresh, Watching
  <1>9. ASSUME NEW c \in Callers, CaptureToken(c) PROVE LinkInv'
    BY <1>9 DEF CaptureToken, Goto, TypeOK, PendingInv, LinkInv, Pending, Fresh, Watching
  <1>10. ASSUME NEW c \in Callers, InstallReconnect(c) PROVE LinkInv'
    BY <1>10 DEF InstallReconnect, InstallStream, Just, TypeOK, PendingInv, LinkInv, Pending, Fresh, Watching
  <1>11. ASSUME NEW c \in Callers, RefuseInstall(c) PROVE LinkInv'
    BY <1>11 DEF RefuseInstall, Abandon, TypeOK, PendingInv, LinkInv, Pending, Fresh, Watching
  <1>12. ASSUME NEW c \in Callers, Subscribe(c) PROVE LinkInv'
    BY <1>12 DEF Subscribe, OpenStream, TypeOK, PendingInv, LinkInv, Pending, Fresh, Watching
  <1>13. ASSUME NEW c \in Callers, Sync(c) PROVE LinkInv'
    BY <1>13 DEF Sync, Goto, TypeOK, PendingInv, LinkInv, Pending, Fresh, Watching
  <1>14. ASSUME NEW c \in Callers, SyncWithoutSecret(c) PROVE LinkInv'
    BY <1>14 DEF SyncWithoutSecret, Goto, Abandon, TypeOK, PendingInv, LinkInv, Pending, Fresh, Watching
  <1>15. ASSUME NEW c \in Callers, FailAttempt(c) PROVE LinkInv'
    BY <1>15 DEF FailAttempt, Abandon, Just, TypeOK, PendingInv, LinkInv, Pending, Fresh, Watching
  <1>16. ASSUME NEW c \in Callers, RejectReconnect(c) PROVE LinkInv'
    BY <1>16 DEF RejectReconnect, Abandon, TypeOK, PendingInv, LinkInv, Pending, Fresh, Watching
  <1>17. ASSUME NEW c \in Callers, PublishConnected(c) PROVE LinkInv'
    BY <1>17 DEF PublishConnected, Return, Goto, TypeOK, PendingInv, LinkInv, Pending, Fresh, Watching
  <1>18. ASSUME NEW c \in Callers, PublishFailure(c) PROVE LinkInv'
    BY <1>18 DEF PublishFailure, Return, Goto, TypeOK, PendingInv, LinkInv, Pending, Fresh, Watching
  <1>19. ASSUME NEW c \in Callers, Disconnect(c) PROVE LinkInv'
    BY <1>19 DEF Disconnect, DropLink, Forget, Just, Goto, TypeOK, PendingInv, LinkInv, Pending, Fresh, Watching
  <1>20. ASSUME NEW c \in Callers, Farewell(c) PROVE LinkInv'
    BY <1>20 DEF Farewell, Just, Goto, TypeOK, PendingInv, LinkInv, Pending, Fresh, Watching
  <1>21. ASSUME NEW c \in Callers, PublishLogout(c) PROVE LinkInv'
    BY <1>21 DEF PublishLogout, Return, Goto, TypeOK, PendingInv, LinkInv, Pending, Fresh, Watching
  <1>22. ASSUME NEW t \in Threads, EndSession(t) PROVE LinkInv'
    BY <1>22 DEF EndSession, MayEnd, DropLink, Forget, Just, Goto, TypeOK, PendingInv, LinkInv, Pending, Fresh, Watching
  <1>23. ASSUME NEW t \in Threads, EndSessionNoop(t) PROVE LinkInv'
    BY <1>23 DEF EndSessionNoop, MayEnd, Finish, Goto, TypeOK, PendingInv, LinkInv, Pending, Fresh, Watching
  <1>24. ASSUME NEW t \in Threads, ResetStore(t) PROVE LinkInv'
    BY <1>24 DEF ResetStore, Goto, TypeOK, PendingInv, LinkInv, Pending, Fresh, Watching
  <1>25. ASSUME NEW t \in Threads, PublishEnded(t) PROVE LinkInv'
    <2>1. UNCHANGED <<conn, streamGen, dead, lost, link>>
      BY <1>25 DEF PublishEnded, Finish, Goto
    <2>2. /\ pc[t] = "endPublish"
          /\ \A s \in Streams : s # t => pc'[s] = pc[s]
          /\ \A s \in Streams : gen'[s] = gen[s]
          /\ pc'[t] \notin {"off", "held", "heldEnded"}
      BY <1>25 DEF PublishEnded, Finish, Goto, TypeOK
    <2>3. \A s \in Streams : (Fresh(s)' <=> Fresh(s)) /\ (Watching(s) => Watching(s)')
      BY <2>2 DEF Fresh, Watching
    <2> QED
      BY <2>1, <2>2, <2>3 DEF LinkInv
  <1>26. ASSUME NEW c \in Callers, ReturnEnded(c) PROVE LinkInv'
    BY <1>26 DEF ReturnEnded, Return, Goto, TypeOK, PendingInv, LinkInv, Pending, Fresh, Watching
  <1>27. ASSUME NEW t \in Threads, MarkControlLost(t) PROVE LinkInv'
    <2>1. conn \in Streams /\ conn' = None /\ dead' = dead \cup {conn}
      BY <1>27 DEF MarkControlLost, IsCurrent, DropLink, Just, TypeOK
    <2>2. \A l \in Streams : lost'[l] <= 1 /\ (lost'[l] = 1 => l \in dead')
      <3>1. lost \in [Streams -> Nat] /\ lost' = [lost EXCEPT ![conn] = lost[conn] + 1]
        BY <1>27 DEF MarkControlLost, TypeOK
      <3>2. lost[conn] = 0
        BY <2>1, <3>1, <1>27 DEF MarkControlLost, IsCurrent, LinkInv
      <3> QED
        BY <2>1, <3>1, <3>2 DEF LinkInv
    <2>3. \A s \in Streams : s \in dead' \/ s = conn' => ~Fresh(s)'
      BY <1>27, <2>1 DEF MarkControlLost, Goto, LinkInv, Fresh, TypeOK
    <2>4. \A s \in Streams : gen'[s] <= streamGen' /\ (gen'[s] > 0 => ~Fresh(s)')
      BY <1>27 DEF MarkControlLost, DropLink, Goto, LinkInv, Fresh, TypeOK
    <2>5. \A r, s \in Streams : gen'[r] = gen'[s] /\ gen'[r] > 0 => r = s
      BY <1>27 DEF MarkControlLost, LinkInv
    <2> QED
      BY <2>1, <2>2, <2>3, <2>4, <2>5 DEF LinkInv
  <1>28. ASSUME NEW t \in Threads, MarkControlLostNoop(t) PROVE LinkInv'
    BY <1>28 DEF MarkControlLostNoop, IsCurrent, Finish, Goto, TypeOK, PendingInv, LinkInv, Pending, Fresh, Watching
  <1>29. ASSUME NEW t \in Threads, PublishLost(t) PROVE LinkInv'
    BY <1>29 DEF PublishLost, Finish, Goto, TypeOK, PendingInv, LinkInv, Pending, Fresh, Watching
  <1>30. ASSUME NEW s \in Streams, EndStream(s) PROVE LinkInv'
    BY <1>30 DEF EndStream, Goto, TypeOK, PendingInv, LinkInv, Pending, Fresh, Watching
  <1>31. ASSUME NEW s \in Streams, HandleStreamEnd(s) PROVE LinkInv'
    BY <1>31 DEF HandleStreamEnd, Goto, TypeOK, PendingInv, LinkInv, Pending, Fresh, Watching
  <1>32. ASSUME NEW s \in Streams, StartResync(s) PROVE LinkInv'
    BY <1>32 DEF StartResync, IsCurrent, Goto, TypeOK, PendingInv, LinkInv, Pending, Fresh, Watching
  <1>33. ASSUME NEW s \in Streams, Resubscribe(s) PROVE LinkInv'
    BY <1>33 DEF Resubscribe, OpenStream, TypeOK, PendingInv, LinkInv, Pending, Fresh, Watching
  <1>34. ASSUME NEW s \in Streams, CheckResync(s) PROVE LinkInv'
    BY <1>34 DEF CheckResync, IsCurrent, Goto, Abandon, TypeOK, PendingInv, LinkInv, Pending, Fresh, Watching
  <1>35. ASSUME NEW s \in Streams, ResyncSnapshot(s) PROVE LinkInv'
    BY <1>35 DEF ResyncSnapshot, Goto, TypeOK, PendingInv, LinkInv, Pending, Fresh, Watching
  <1>36. ASSUME NEW s \in Streams, FailResync(s) PROVE LinkInv'
    <2>1. PICK l \in {"done", "lose", "end"} :
            Abandon(s, l) /\ pc[s] \in {"reSubscribe", "reSync"} /\ (l = "done" => link[s] \in dead)
      BY <1>36 DEF FailResync
    <2>2. UNCHANGED <<conn, streamGen, dead, lost, link, gen>>
      BY <1>36 DEF FailResync
    <2>3. pc' = [x \in Threads |-> IF x = s THEN l ELSE IF x = opened[s] THEN "done" ELSE pc[x]]
      BY <2>1 DEF Abandon
    <2>4. \A r \in Streams : Fresh(r)' => Fresh(r)
      BY <2>3 DEF Fresh
    <2>5. opened[s] \in Streams => pc[opened[s]] \in {"held", "heldEnded"}
      BY <2>1 DEF PendingInv, Pending
    <2>6. ASSUME NEW r \in Streams, conn # None, link[r] = conn, Watching(r)
          PROVE  Watching(r)'
      <3>1. CASE r = s
        BY <2>1, <2>3, <2>6, <3>1 DEF LinkInv, Watching
      <3>2. CASE r # s
        BY <2>3, <2>5, <2>6, <3>2 DEF Watching
      <3> QED
        BY <3>1, <3>2
    <2> QED
      BY <2>2, <2>4, <2>6 DEF LinkInv
  <1>37. ASSUME NEW s \in Streams, InstallResync(s) PROVE LinkInv'
    BY <1>37 DEF InstallResync, IsCurrent, InstallStream, TypeOK, PendingInv, LinkInv, Pending, Fresh, Watching
  <1>38. ASSUME NEW s \in Streams, DropResync(s) PROVE LinkInv'
    BY <1>38 DEF DropResync, IsCurrent, Abandon, TypeOK, PendingInv, LinkInv, Pending, Fresh, Watching
  <1>39. ASSUME NEW s \in Streams, PublishResync(s) PROVE LinkInv'
    BY <1>39 DEF PublishResync, Goto, TypeOK, PendingInv, LinkInv, Pending, Fresh, Watching
  <1>40. CASE StartPing
    BY <1>40 DEF StartPing, Goto, TypeOK, PendingInv, LinkInv, Pending, Fresh, Watching
  <1>41. CASE FinishPing
    <2>1. UNCHANGED <<conn, streamGen, dead, lost, link>>
      BY <1>41 DEF FinishPing, Finish, Goto
    <2>2. \A s \in Streams : pc'[s] = pc[s] /\ gen'[s] = gen[s]
      BY <1>41 DEF FinishPing, Finish, Goto, TypeOK
    <2>3. \A s \in Streams : (Fresh(s)' <=> Fresh(s)) /\ (Watching(s)' <=> Watching(s))
      BY <2>2 DEF Fresh, Watching
    <2> QED
      BY <2>1, <2>2, <2>3 DEF LinkInv
  <1>42. CASE ServerEndsSession
    BY <1>42 DEF ServerEndsSession, TypeOK, PendingInv, LinkInv, Pending, Fresh, Watching
  <1>43. CASE UNCHANGED vars
    BY <1>43 DEF vars, TypeOK, PendingInv, LinkInv, Pending, Fresh, Watching
  <1> QED
    BY <1>1, <1>2, <1>3, <1>4, <1>5, <1>6, <1>7, <1>8, <1>9, <1>10, <1>11, <1>12, <1>13, <1>14, <1>15, <1>16, <1>17, <1>18, <1>19, <1>20, <1>21, <1>22, <1>23, <1>24, <1>25, <1>26, <1>27, <1>28, <1>29, <1>30, <1>31, <1>32, <1>33, <1>34, <1>35, <1>36, <1>37, <1>38, <1>39, <1>40, <1>41, <1>42, <1>43
    DEF Next, CallerStep, ReportStep, StreamStep

\* Tokens are remembered once, and their connection goes with them.
LEMMA TokenNext == TypeOK /\ LifeInv /\ PendingInv /\ LinkInv /\ TokenInv /\ [Next]_vars => TokenInv'
  <1> SUFFICES ASSUME TypeOK, LifeInv, PendingInv, LinkInv, TokenInv, [Next]_vars PROVE TokenInv'
    OBVIOUS
  <1> USE SessionAssumption DEF Threads, attemptVars, linkVars, tokenVars, localVars, serverVars
  <1>1. CASE CancelConnect
    BY <1>1 DEF CancelConnect, CancelAttempt, TypeOK, LifeInv, PendingInv, LinkInv, TokenInv, Pending, Busy, Fresh
  <1>2. ASSUME NEW c \in Callers, QueueAttempt(c) PROVE TokenInv'
    BY <1>2 DEF QueueAttempt, Goto, TypeOK, LifeInv, PendingInv, LinkInv, TokenInv, Pending, Busy, Fresh
  <1>3. ASSUME NEW c \in Callers, StartDisconnect(c) PROVE TokenInv'
    BY <1>3 DEF StartDisconnect, CancelAttempt, Goto, TypeOK, LifeInv, PendingInv, LinkInv, TokenInv, Pending, Busy, Fresh
  <1>4. ASSUME NEW c \in Callers, BeginAttempt(c) PROVE TokenInv'
    BY <1>4 DEF BeginAttempt, Goto, TypeOK, LifeInv, PendingInv, LinkInv, TokenInv, Pending, Busy, Fresh
  <1>5. ASSUME NEW c \in Callers, Teardown(c) PROVE TokenInv'
    BY <1>5 DEF Teardown, DropLink, Forget, Just, Goto, TypeOK, LifeInv, PendingInv, LinkInv, TokenInv, Pending, Busy, Fresh
  <1>6. ASSUME NEW c \in Callers, Login(c) PROVE TokenInv'
    BY <1>6 DEF Login, Goto, TypeOK, LifeInv, PendingInv, LinkInv, TokenInv, Pending, Busy, Fresh
  <1>7. ASSUME NEW c \in Callers, SetSelf(c) PROVE TokenInv'
    BY <1>7 DEF SetSelf, Goto, TypeOK, LifeInv, PendingInv, LinkInv, TokenInv, Pending, Busy, Fresh
  <1>8. ASSUME NEW c \in Callers, InstallConnect(c) PROVE TokenInv'
    BY <1>8 DEF InstallConnect, InstallStream, TypeOK, LifeInv, PendingInv, LinkInv, TokenInv, Pending, Busy, Fresh
  <1>9. ASSUME NEW c \in Callers, CaptureToken(c) PROVE TokenInv'
    BY <1>9 DEF CaptureToken, Goto, TypeOK, LifeInv, PendingInv, LinkInv, TokenInv, Pending, Busy, Fresh
  <1>10. ASSUME NEW c \in Callers, InstallReconnect(c) PROVE TokenInv'
    BY <1>10 DEF InstallReconnect, InstallStream, Just, TypeOK, LifeInv, PendingInv, LinkInv, TokenInv, Pending, Busy, Fresh
  <1>11. ASSUME NEW c \in Callers, RefuseInstall(c) PROVE TokenInv'
    BY <1>11 DEF RefuseInstall, Abandon, TypeOK, LifeInv, PendingInv, LinkInv, TokenInv, Pending, Busy, Fresh
  <1>12. ASSUME NEW c \in Callers, Subscribe(c) PROVE TokenInv'
    BY <1>12 DEF Subscribe, OpenStream, TypeOK, LifeInv, PendingInv, LinkInv, TokenInv, Pending, Busy, Fresh
  <1>13. ASSUME NEW c \in Callers, Sync(c) PROVE TokenInv'
    BY <1>13 DEF Sync, Goto, TypeOK, LifeInv, PendingInv, LinkInv, TokenInv, Pending, Busy, Fresh
  <1>14. ASSUME NEW c \in Callers, SyncWithoutSecret(c) PROVE TokenInv'
    BY <1>14 DEF SyncWithoutSecret, Goto, Abandon, TypeOK, LifeInv, PendingInv, LinkInv, TokenInv, Pending, Busy, Fresh
  <1>15. ASSUME NEW c \in Callers, FailAttempt(c) PROVE TokenInv'
    BY <1>15 DEF FailAttempt, Abandon, Just, TypeOK, LifeInv, PendingInv, LinkInv, TokenInv, Pending, Busy, Fresh
  <1>16. ASSUME NEW c \in Callers, RejectReconnect(c) PROVE TokenInv'
    BY <1>16 DEF RejectReconnect, Abandon, TypeOK, LifeInv, PendingInv, LinkInv, TokenInv, Pending, Busy, Fresh
  <1>17. ASSUME NEW c \in Callers, PublishConnected(c) PROVE TokenInv'
    BY <1>17 DEF PublishConnected, Return, Goto, TypeOK, LifeInv, PendingInv, LinkInv, TokenInv, Pending, Busy, Fresh
  <1>18. ASSUME NEW c \in Callers, PublishFailure(c) PROVE TokenInv'
    BY <1>18 DEF PublishFailure, Return, Goto, TypeOK, LifeInv, PendingInv, LinkInv, TokenInv, Pending, Busy, Fresh
  <1>19. ASSUME NEW c \in Callers, Disconnect(c) PROVE TokenInv'
    BY <1>19 DEF Disconnect, DropLink, Forget, Just, Goto, TypeOK, LifeInv, PendingInv, LinkInv, TokenInv, Pending, Busy, Fresh
  <1>20. ASSUME NEW c \in Callers, Farewell(c) PROVE TokenInv'
    BY <1>20 DEF Farewell, Just, Goto, TypeOK, LifeInv, PendingInv, LinkInv, TokenInv, Pending, Busy, Fresh
  <1>21. ASSUME NEW c \in Callers, PublishLogout(c) PROVE TokenInv'
    BY <1>21 DEF PublishLogout, Return, Goto, TypeOK, LifeInv, PendingInv, LinkInv, TokenInv, Pending, Busy, Fresh
  <1>22. ASSUME NEW t \in Threads, EndSession(t) PROVE TokenInv'
    <2>1. conn' = None /\ lastToken' = None /\ UNCHANGED <<tok, op, issued, revoked>>
      BY <1>22 DEF EndSession, DropLink, Forget
    <2>2. forgotten' = forgotten \cup ({lastToken} \ {None})
      BY <1>22 DEF EndSession, Forget, Just
    <2>3. pc' = [pc EXCEPT ![t] = "endReset"]
      BY <1>22 DEF EndSession, Goto
    <2>4. \A k \in Tokens : ended'[k] <= 1 /\ (ended'[k] = 1 => k \in forgotten')
      <3> SUFFICES ASSUME NEW k \in Tokens
                   PROVE  ended'[k] <= 1 /\ (ended'[k] = 1 => k \in forgotten')
        OBVIOUS
      <3>1. ended'[k] = IF k = lastToken THEN ended[k] + 1 ELSE ended[k]
        BY <1>22 DEF EndSession
      <3>2. ended[k] \in Nat /\ ended[k] <= 1 /\ (ended[k] = 1 => k \in forgotten)
        BY DEF TypeOK, TokenInv
      <3>3. k = lastToken => ended[k] = 0 /\ k \in forgotten'
        BY <2>2, <3>2 DEF TokenInv
      <3> QED
        BY <2>2, <3>1, <3>2, <3>3
    <2>5. forgotten' \subseteq issued' /\ lastToken' \notin forgotten'
      BY <2>1, <2>2 DEF TokenInv, TypeOK
    <2>6. \A c \in Callers :
            pc'[c] \in {"subscribe", "sync", "self", "install"} =>
              tok'[c] \in issued' /\ (op'[c] = "Connect" => tok'[c] \notin forgotten')
      BY <2>1, <2>2, <2>3 DEF TypeOK, TokenInv
    <2>7. pc'[Prober] = "end" => tok'[Prober] \in revoked'
      BY <2>1, <2>3 DEF TypeOK, TokenInv
    <2> QED
      BY <2>1, <2>4, <2>5, <2>6, <2>7 DEF TokenInv
  <1>23. ASSUME NEW t \in Threads, EndSessionNoop(t) PROVE TokenInv'
    BY <1>23 DEF EndSessionNoop, MayEnd, Finish, Goto, TypeOK, LifeInv, PendingInv, LinkInv, TokenInv, Pending, Busy, Fresh
  <1>24. ASSUME NEW t \in Threads, ResetStore(t) PROVE TokenInv'
    BY <1>24 DEF ResetStore, Goto, TypeOK, LifeInv, PendingInv, LinkInv, TokenInv, Pending, Busy, Fresh
  <1>25. ASSUME NEW t \in Threads, PublishEnded(t) PROVE TokenInv'
    BY <1>25 DEF PublishEnded, Finish, Goto, TypeOK, LifeInv, PendingInv, LinkInv, TokenInv, Pending, Busy, Fresh
  <1>26. ASSUME NEW c \in Callers, ReturnEnded(c) PROVE TokenInv'
    BY <1>26 DEF ReturnEnded, Return, Goto, TypeOK, LifeInv, PendingInv, LinkInv, TokenInv, Pending, Busy, Fresh
  <1>27. ASSUME NEW t \in Threads, MarkControlLost(t) PROVE TokenInv'
    BY <1>27 DEF MarkControlLost, IsCurrent, DropLink, Just, Goto, TypeOK, LifeInv, PendingInv, LinkInv, TokenInv, Pending, Busy, Fresh
  <1>28. ASSUME NEW t \in Threads, MarkControlLostNoop(t) PROVE TokenInv'
    BY <1>28 DEF MarkControlLostNoop, IsCurrent, Finish, Goto, TypeOK, LifeInv, PendingInv, LinkInv, TokenInv, Pending, Busy, Fresh
  <1>29. ASSUME NEW t \in Threads, PublishLost(t) PROVE TokenInv'
    BY <1>29 DEF PublishLost, Finish, Goto, TypeOK, LifeInv, PendingInv, LinkInv, TokenInv, Pending, Busy, Fresh
  <1>30. ASSUME NEW s \in Streams, EndStream(s) PROVE TokenInv'
    BY <1>30 DEF EndStream, Goto, TypeOK, LifeInv, PendingInv, LinkInv, TokenInv, Pending, Busy, Fresh
  <1>31. ASSUME NEW s \in Streams, HandleStreamEnd(s) PROVE TokenInv'
    BY <1>31 DEF HandleStreamEnd, Goto, TypeOK, LifeInv, PendingInv, LinkInv, TokenInv, Pending, Busy, Fresh
  <1>32. ASSUME NEW s \in Streams, StartResync(s) PROVE TokenInv'
    BY <1>32 DEF StartResync, IsCurrent, Goto, TypeOK, LifeInv, PendingInv, LinkInv, TokenInv, Pending, Busy, Fresh
  <1>33. ASSUME NEW s \in Streams, Resubscribe(s) PROVE TokenInv'
    BY <1>33 DEF Resubscribe, OpenStream, TypeOK, LifeInv, PendingInv, LinkInv, TokenInv, Pending, Busy, Fresh
  <1>34. ASSUME NEW s \in Streams, CheckResync(s) PROVE TokenInv'
    BY <1>34 DEF CheckResync, IsCurrent, Goto, Abandon, TypeOK, LifeInv, PendingInv, LinkInv, TokenInv, Pending, Busy, Fresh
  <1>35. ASSUME NEW s \in Streams, ResyncSnapshot(s) PROVE TokenInv'
    BY <1>35 DEF ResyncSnapshot, Goto, TypeOK, LifeInv, PendingInv, LinkInv, TokenInv, Pending, Busy, Fresh
  <1>36. ASSUME NEW s \in Streams, FailResync(s) PROVE TokenInv'
    <2>1. PICK l \in {"done", "lose", "end"} :
            Abandon(s, l) /\ pc[s] \in {"reSubscribe", "reSync"}
      BY <1>36 DEF FailResync
    <2>2. UNCHANGED <<conn, linkVars, tokenVars, tok, op, serverVars>>
      BY <1>36 DEF FailResync, attemptVars
    <2>3. pc' = [x \in Threads |-> IF x = s THEN l ELSE IF x = opened[s] THEN "done" ELSE pc[x]]
      BY <2>1 DEF Abandon
    <2>4. opened[s] \in Streams \cup {None}
      BY DEF TypeOK
    <2>5. pc'[Prober] = pc[Prober] /\ \A c \in Callers : pc'[c] = pc[c]
      BY <2>3, <2>4
    <2> QED
      BY <2>2, <2>5 DEF TokenInv
  <1>37. ASSUME NEW s \in Streams, InstallResync(s) PROVE TokenInv'
    BY <1>37 DEF InstallResync, IsCurrent, InstallStream, TypeOK, LifeInv, PendingInv, LinkInv, TokenInv, Pending, Busy, Fresh
  <1>38. ASSUME NEW s \in Streams, DropResync(s) PROVE TokenInv'
    BY <1>38 DEF DropResync, IsCurrent, Abandon, TypeOK, LifeInv, PendingInv, LinkInv, TokenInv, Pending, Busy, Fresh
  <1>39. ASSUME NEW s \in Streams, PublishResync(s) PROVE TokenInv'
    BY <1>39 DEF PublishResync, Goto, TypeOK, LifeInv, PendingInv, LinkInv, TokenInv, Pending, Busy, Fresh
  <1>40. CASE StartPing
    BY <1>40 DEF StartPing, Goto, TypeOK, LifeInv, PendingInv, LinkInv, TokenInv, Pending, Busy, Fresh
  <1>41. CASE FinishPing
    BY <1>41 DEF FinishPing, Finish, Goto, TypeOK, LifeInv, PendingInv, LinkInv, TokenInv, Pending, Busy, Fresh
  <1>42. CASE ServerEndsSession
    BY <1>42 DEF ServerEndsSession, TypeOK, LifeInv, PendingInv, LinkInv, TokenInv, Pending, Busy, Fresh
  <1>43. CASE UNCHANGED vars
    BY <1>43 DEF vars, TypeOK, LifeInv, PendingInv, LinkInv, TokenInv, Pending, Busy, Fresh
  <1> QED
    BY <1>1, <1>2, <1>3, <1>4, <1>5, <1>6, <1>7, <1>8, <1>9, <1>10, <1>11, <1>12, <1>13, <1>14, <1>15, <1>16, <1>17, <1>18, <1>19, <1>20, <1>21, <1>22, <1>23, <1>24, <1>25, <1>26, <1>27, <1>28, <1>29, <1>30, <1>31, <1>32, <1>33, <1>34, <1>35, <1>36, <1>37, <1>38, <1>39, <1>40, <1>41, <1>42, <1>43
    DEF Next, CallerStep, ReportStep, StreamStep

\* The invariant holds initially.
LEMMA InitInv == Init => IInv
  <1> SUFFICES ASSUME Init PROVE IInv
    OBVIOUS
  <1> USE SessionAssumption DEF Init, Threads
  <1>1. TypeOK
    BY DEF TypeOK, Labels, Ops, Verdicts, States
  <1>2. LifeInv /\ CancelReachesAttempt
    BY DEF LifeInv, Busy, CancelReachesAttempt
  <1>3. PendingInv
    BY DEF PendingInv, Pending
  <1>4. LinkInv
    BY DEF LinkInv, Fresh
  <1>5. TokenInv
    BY DEF TokenInv
  <1> QED
    BY <1>1, <1>2, <1>3, <1>4, <1>5 DEF IInv

\* The invariant is inductive: it holds in every state the goroutines of
\* session.go can reach.
THEOREM Invariance == Spec => []IInv
  <1>1. IInv /\ [Next]_vars => IInv'
    BY TypeNext, LifeNext, CancelNext, PendingNext, LinkNext, TokenNext DEF IInv
  <1> QED
    BY InitInv, <1>1, PTL DEF Spec

\* The fields of Session keep their types.
THEOREM TypeCorrect == Spec => []TypeOK
  BY Invariance, PTL DEF IInv

\* A connection is installed only with the session it belongs to: endSession,
\* teardownLive and Disconnect clear both, and Reconnect checks the token.
THEOREM ConnectionHasSession == Spec => []ConnHasToken
  <1>1. IInv => ConnHasToken
    BY DEF IInv, TokenInv, ConnHasToken
  <1> QED
    BY Invariance, <1>1, PTL

\* An installed connection always has a goroutine that will report its end.
THEOREM ConnectionIsWatched == Spec => []ConnWatched
  <1>1. IInv => ConnWatched
    BY DEF IInv, LinkInv, ConnWatched, Watching
  <1> QED
    BY Invariance, <1>1, PTL

\* markControlLost reports the loss of a connection at most once.
THEOREM LossReportedOnce == Spec => []LostOnce
  <1>1. IInv => LostOnce
    BY DEF IInv, LinkInv, LostOnce
  <1> QED
    BY Invariance, <1>1, PTL

\* endSession ends a session at most once, and no session that is over is
\* remembered again.
THEOREM SessionEndsOnce == Spec => [](EndedOnce /\ ForgottenForGood)
  <1>1. IInv => EndedOnce /\ ForgottenForGood
    BY DEF IInv, TokenInv, EndedOnce, ForgottenForGood
  <1> QED
    BY Invariance, <1>1, PTL

\* CancelConnect reaches the attempt in flight or queued.
THEOREM CancelIsHeard == Spec => []CancelReachesAttempt
  BY Invariance, PTL DEF IInv

\* A session-ended verdict a ping brought ends only a session the server ended:
\* no step but the prober's own endSession takes it from end to endReset.
THEOREM PingEndsTheRightSession == Spec => PingEndsOnlyRevoked
  <1>1. IInv /\ [Next]_vars
          => [pc[Prober] = "end" /\ pc'[Prober] = "endReset" => lastToken \in revoked]_vars
    <2> SUFFICES ASSUME IInv, Next, pc[Prober] = "end", pc'[Prober] = "endReset"
                 PROVE  lastToken \in revoked
      OBVIOUS
    <2> USE SessionAssumption DEF IInv, TypeOK, Threads
    <2>1. CASE CancelConnect
      BY <2>1 DEF CancelConnect, CancelAttempt
    <2>2. ASSUME NEW c \in Callers, QueueAttempt(c) PROVE lastToken \in revoked
      BY <2>2 DEF QueueAttempt, Goto
    <2>3. ASSUME NEW c \in Callers, StartDisconnect(c) PROVE lastToken \in revoked
      BY <2>3 DEF StartDisconnect, CancelAttempt, Goto
    <2>4. ASSUME NEW c \in Callers, BeginAttempt(c) PROVE lastToken \in revoked
      BY <2>4 DEF BeginAttempt, Goto
    <2>5. ASSUME NEW c \in Callers, Teardown(c) PROVE lastToken \in revoked
      BY <2>5 DEF Teardown, DropLink, Forget, Just, Goto
    <2>6. ASSUME NEW c \in Callers, Login(c) PROVE lastToken \in revoked
      BY <2>6 DEF Login, Goto
    <2>7. ASSUME NEW c \in Callers, SetSelf(c) PROVE lastToken \in revoked
      BY <2>7 DEF SetSelf, Goto
    <2>8. ASSUME NEW c \in Callers, InstallConnect(c) PROVE lastToken \in revoked
      BY <2>8 DEF InstallConnect, InstallStream, PendingInv, Pending
    <2>9. ASSUME NEW c \in Callers, CaptureToken(c) PROVE lastToken \in revoked
      BY <2>9 DEF CaptureToken, Goto
    <2>10. ASSUME NEW c \in Callers, InstallReconnect(c) PROVE lastToken \in revoked
      BY <2>10 DEF InstallReconnect, InstallStream, Just, PendingInv, Pending
    <2>11. ASSUME NEW c \in Callers, RefuseInstall(c) PROVE lastToken \in revoked
      BY <2>11 DEF RefuseInstall, Abandon, PendingInv, Pending
    <2>12. ASSUME NEW c \in Callers, Subscribe(c) PROVE lastToken \in revoked
      BY <2>12 DEF Subscribe, OpenStream, PendingInv, Pending
    <2>13. ASSUME NEW c \in Callers, Sync(c) PROVE lastToken \in revoked
      BY <2>13 DEF Sync, Goto
    <2>14. ASSUME NEW c \in Callers, SyncWithoutSecret(c) PROVE lastToken \in revoked
      BY <2>14 DEF SyncWithoutSecret, Goto, Abandon, PendingInv, Pending
    <2>15. ASSUME NEW c \in Callers, FailAttempt(c) PROVE lastToken \in revoked
      BY <2>15 DEF FailAttempt, Abandon, Just, PendingInv, Pending
    <2>16. ASSUME NEW c \in Callers, RejectReconnect(c) PROVE lastToken \in revoked
      BY <2>16 DEF RejectReconnect, Abandon, PendingInv, Pending
    <2>17. ASSUME NEW c \in Callers, PublishConnected(c) PROVE lastToken \in revoked
      BY <2>17 DEF PublishConnected, Return, Goto
    <2>18. ASSUME NEW c \in Callers, PublishFailure(c) PROVE lastToken \in revoked
      BY <2>18 DEF PublishFailure, Return, Goto
    <2>19. ASSUME NEW c \in Callers, Disconnect(c) PROVE lastToken \in revoked
      BY <2>19 DEF Disconnect, DropLink, Forget, Just, Goto
    <2>20. ASSUME NEW c \in Callers, Farewell(c) PROVE lastToken \in revoked
      BY <2>20 DEF Farewell, Just, Goto
    <2>21. ASSUME NEW c \in Callers, PublishLogout(c) PROVE lastToken \in revoked
      BY <2>21 DEF PublishLogout, Return, Goto
    <2>22. ASSUME NEW t \in Threads, EndSession(t) PROVE lastToken \in revoked
      BY <2>22 DEF EndSession, MayEnd, DropLink, Forget, Just, Goto, TokenInv
    <2>23. ASSUME NEW t \in Threads, EndSessionNoop(t) PROVE lastToken \in revoked
      BY <2>23 DEF EndSessionNoop, MayEnd, Finish, Goto
    <2>24. ASSUME NEW t \in Threads, ResetStore(t) PROVE lastToken \in revoked
      BY <2>24 DEF ResetStore, Goto
    <2>25. ASSUME NEW t \in Threads, PublishEnded(t) PROVE lastToken \in revoked
      BY <2>25 DEF PublishEnded, Finish, Goto
    <2>26. ASSUME NEW c \in Callers, ReturnEnded(c) PROVE lastToken \in revoked
      BY <2>26 DEF ReturnEnded, Return, Goto
    <2>27. ASSUME NEW t \in Threads, MarkControlLost(t) PROVE lastToken \in revoked
      BY <2>27 DEF MarkControlLost, IsCurrent, DropLink, Just, Goto
    <2>28. ASSUME NEW t \in Threads, MarkControlLostNoop(t) PROVE lastToken \in revoked
      BY <2>28 DEF MarkControlLostNoop, IsCurrent, Finish, Goto
    <2>29. ASSUME NEW t \in Threads, PublishLost(t) PROVE lastToken \in revoked
      BY <2>29 DEF PublishLost, Finish, Goto
    <2>30. ASSUME NEW s \in Streams, EndStream(s) PROVE lastToken \in revoked
      BY <2>30 DEF EndStream, Goto
    <2>31. ASSUME NEW s \in Streams, HandleStreamEnd(s) PROVE lastToken \in revoked
      BY <2>31 DEF HandleStreamEnd, Goto
    <2>32. ASSUME NEW s \in Streams, StartResync(s) PROVE lastToken \in revoked
      BY <2>32 DEF StartResync, IsCurrent, Goto
    <2>33. ASSUME NEW s \in Streams, Resubscribe(s) PROVE lastToken \in revoked
      BY <2>33 DEF Resubscribe, OpenStream, PendingInv, Pending
    <2>34. ASSUME NEW s \in Streams, CheckResync(s) PROVE lastToken \in revoked
      BY <2>34 DEF CheckResync, IsCurrent, Goto, Abandon, PendingInv, Pending
    <2>35. ASSUME NEW s \in Streams, ResyncSnapshot(s) PROVE lastToken \in revoked
      BY <2>35 DEF ResyncSnapshot, Goto
    <2>36. ASSUME NEW s \in Streams, FailResync(s) PROVE lastToken \in revoked
      BY <2>36 DEF FailResync, Abandon, PendingInv, Pending
    <2>37. ASSUME NEW s \in Streams, InstallResync(s) PROVE lastToken \in revoked
      BY <2>37 DEF InstallResync, IsCurrent, InstallStream, PendingInv, Pending
    <2>38. ASSUME NEW s \in Streams, DropResync(s) PROVE lastToken \in revoked
      BY <2>38 DEF DropResync, IsCurrent, Abandon, PendingInv, Pending
    <2>39. ASSUME NEW s \in Streams, PublishResync(s) PROVE lastToken \in revoked
      BY <2>39 DEF PublishResync, Goto
    <2>40. CASE StartPing
      BY <2>40 DEF StartPing, Goto
    <2>41. CASE FinishPing
      BY <2>41 DEF FinishPing, Finish, Goto
    <2>42. CASE ServerEndsSession
      BY <2>42 DEF ServerEndsSession
    <2> QED
      BY <2>1, <2>2, <2>3, <2>4, <2>5, <2>6, <2>7, <2>8, <2>9, <2>10, <2>11, <2>12, <2>13, <2>14, <2>15, <2>16, <2>17, <2>18, <2>19, <2>20, <2>21, <2>22, <2>23, <2>24, <2>25, <2>26, <2>27, <2>28, <2>29, <2>30, <2>31, <2>32, <2>33, <2>34, <2>35, <2>36, <2>37, <2>38, <2>39, <2>40, <2>41, <2>42
      DEF Next, CallerStep, ReportStep, StreamStep
  <1> QED
    BY Invariance, <1>1, PTL DEF Spec, PingEndsOnlyRevoked

\* The session implements its contract: each step of a goroutine is a login, a
\* loss of the link, a relink or a leave of the contract, or changes nothing.
THEOREM SessionKeepsContract == Spec => KeepsContract
  <1>1. Init => Contract!Init
    BY DEF Init, Contract!Init
  <1>2. IInv /\ [Next]_vars => [Contract!Next]_Contract!vars
    <2> SUFFICES ASSUME IInv, [Next]_vars
                 PROVE  Contract!Next \/ UNCHANGED <<lastToken, conn # None, forgotten>>
      BY DEF Contract!vars
    <2> USE SessionAssumption DEF IInv, TypeOK, Threads, attemptVars, linkVars, tokenVars,
                                  Contract!Next
    <2>1. CASE CancelConnect
      BY <2>1 DEF CancelConnect
    <2>2. ASSUME NEW c \in Callers, QueueAttempt(c) PROVE Contract!Next \/ UNCHANGED <<lastToken, conn # None, forgotten>>
      BY <2>2 DEF QueueAttempt
    <2>3. ASSUME NEW c \in Callers, StartDisconnect(c) PROVE Contract!Next \/ UNCHANGED <<lastToken, conn # None, forgotten>>
      BY <2>3 DEF StartDisconnect
    <2>4. ASSUME NEW c \in Callers, BeginAttempt(c) PROVE Contract!Next \/ UNCHANGED <<lastToken, conn # None, forgotten>>
      BY <2>4 DEF BeginAttempt
    <2>5. ASSUME NEW c \in Callers, Teardown(c) PROVE Contract!Next \/ UNCHANGED <<lastToken, conn # None, forgotten>>
      <3>1. /\ lastToken' = None /\ conn' = None
            /\ forgotten' = IF lastToken = None THEN forgotten ELSE forgotten \cup {lastToken}
        BY <2>5 DEF Teardown, DropLink, Forget, Just
      <3>2. CASE lastToken = None
        BY <3>1, <3>2 DEF TokenInv, LinkInv
      <3>3. CASE lastToken # None
        BY <3>1, <3>3 DEF Contract!Leave
      <3> QED
        BY <3>2, <3>3
    <2>6. ASSUME NEW c \in Callers, Login(c) PROVE Contract!Next \/ UNCHANGED <<lastToken, conn # None, forgotten>>
      BY <2>6 DEF Login
    <2>7. ASSUME NEW c \in Callers, SetSelf(c) PROVE Contract!Next \/ UNCHANGED <<lastToken, conn # None, forgotten>>
      BY <2>7 DEF SetSelf
    <2>8. ASSUME NEW c \in Callers, InstallConnect(c) PROVE Contract!Next \/ UNCHANGED <<lastToken, conn # None, forgotten>>
      <3>1. opened[c] \in Streams /\ tok[c] \in Tokens
        BY <2>8 DEF InstallConnect, PendingInv, Pending, TokenInv
      <3>2. conn' # None /\ lastToken' = tok[c] /\ forgotten' = forgotten
        BY <2>8, <3>1 DEF InstallConnect
      <3>3. lastToken = None /\ tok[c] \notin forgotten
        BY <2>8 DEF InstallConnect, TokenInv
      <3>4. Contract!Login(tok[c])
        BY <3>2, <3>3 DEF Contract!Login
      <3> QED
        BY <3>1, <3>4
    <2>9. ASSUME NEW c \in Callers, CaptureToken(c) PROVE Contract!Next \/ UNCHANGED <<lastToken, conn # None, forgotten>>
      BY <2>9 DEF CaptureToken
    <2>10. ASSUME NEW c \in Callers, InstallReconnect(c) PROVE Contract!Next \/ UNCHANGED <<lastToken, conn # None, forgotten>>
      <3>1. opened[c] \in Streams /\ tok[c] \in Tokens
        BY <2>10 DEF InstallReconnect, PendingInv, Pending, TokenInv
      <3>2. conn' # None /\ lastToken' = lastToken /\ lastToken # None /\ forgotten' = forgotten
        BY <2>10, <3>1 DEF InstallReconnect
      <3> QED
        BY <3>2 DEF Contract!Relink
    <2>11. ASSUME NEW c \in Callers, RefuseInstall(c) PROVE Contract!Next \/ UNCHANGED <<lastToken, conn # None, forgotten>>
      BY <2>11 DEF RefuseInstall
    <2>12. ASSUME NEW c \in Callers, Subscribe(c) PROVE Contract!Next \/ UNCHANGED <<lastToken, conn # None, forgotten>>
      BY <2>12 DEF Subscribe
    <2>13. ASSUME NEW c \in Callers, Sync(c) PROVE Contract!Next \/ UNCHANGED <<lastToken, conn # None, forgotten>>
      BY <2>13 DEF Sync
    <2>14. ASSUME NEW c \in Callers, SyncWithoutSecret(c) PROVE Contract!Next \/ UNCHANGED <<lastToken, conn # None, forgotten>>
      BY <2>14 DEF SyncWithoutSecret
    <2>15. ASSUME NEW c \in Callers, FailAttempt(c) PROVE Contract!Next \/ UNCHANGED <<lastToken, conn # None, forgotten>>
      BY <2>15 DEF FailAttempt
    <2>16. ASSUME NEW c \in Callers, RejectReconnect(c) PROVE Contract!Next \/ UNCHANGED <<lastToken, conn # None, forgotten>>
      BY <2>16 DEF RejectReconnect
    <2>17. ASSUME NEW c \in Callers, PublishConnected(c) PROVE Contract!Next \/ UNCHANGED <<lastToken, conn # None, forgotten>>
      BY <2>17 DEF PublishConnected
    <2>18. ASSUME NEW c \in Callers, PublishFailure(c) PROVE Contract!Next \/ UNCHANGED <<lastToken, conn # None, forgotten>>
      BY <2>18 DEF PublishFailure
    <2>19. ASSUME NEW c \in Callers, Disconnect(c) PROVE Contract!Next \/ UNCHANGED <<lastToken, conn # None, forgotten>>
      <3>1. /\ lastToken' = None /\ conn' = None
            /\ forgotten' = IF lastToken = None THEN forgotten ELSE forgotten \cup {lastToken}
        BY <2>19 DEF Disconnect, DropLink, Forget, Just
      <3>2. CASE lastToken = None
        BY <3>1, <3>2 DEF TokenInv, LinkInv
      <3>3. CASE lastToken # None
        BY <3>1, <3>3 DEF Contract!Leave
      <3> QED
        BY <3>2, <3>3
    <2>20. ASSUME NEW c \in Callers, Farewell(c) PROVE Contract!Next \/ UNCHANGED <<lastToken, conn # None, forgotten>>
      BY <2>20 DEF Farewell
    <2>21. ASSUME NEW c \in Callers, PublishLogout(c) PROVE Contract!Next \/ UNCHANGED <<lastToken, conn # None, forgotten>>
      BY <2>21 DEF PublishLogout
    <2>22. ASSUME NEW t \in Threads, EndSession(t) PROVE Contract!Next \/ UNCHANGED <<lastToken, conn # None, forgotten>>
      <3>1. /\ lastToken' = None /\ conn' = None
            /\ forgotten' = IF lastToken = None THEN forgotten ELSE forgotten \cup {lastToken}
        BY <2>22 DEF EndSession, MayEnd, DropLink, Forget, Just
      <3>2. CASE lastToken = None
        BY <3>1, <3>2 DEF TokenInv, LinkInv
      <3>3. CASE lastToken # None
        BY <3>1, <3>3 DEF Contract!Leave
      <3> QED
        BY <3>2, <3>3
    <2>23. ASSUME NEW t \in Threads, EndSessionNoop(t) PROVE Contract!Next \/ UNCHANGED <<lastToken, conn # None, forgotten>>
      BY <2>23 DEF EndSessionNoop
    <2>24. ASSUME NEW t \in Threads, ResetStore(t) PROVE Contract!Next \/ UNCHANGED <<lastToken, conn # None, forgotten>>
      BY <2>24 DEF ResetStore
    <2>25. ASSUME NEW t \in Threads, PublishEnded(t) PROVE Contract!Next \/ UNCHANGED <<lastToken, conn # None, forgotten>>
      BY <2>25 DEF PublishEnded
    <2>26. ASSUME NEW c \in Callers, ReturnEnded(c) PROVE Contract!Next \/ UNCHANGED <<lastToken, conn # None, forgotten>>
      BY <2>26 DEF ReturnEnded
    <2>27. ASSUME NEW t \in Threads, MarkControlLost(t) PROVE Contract!Next \/ UNCHANGED <<lastToken, conn # None, forgotten>>
      BY <2>27 DEF MarkControlLost, IsCurrent, DropLink, Contract!LoseLink
    <2>28. ASSUME NEW t \in Threads, MarkControlLostNoop(t) PROVE Contract!Next \/ UNCHANGED <<lastToken, conn # None, forgotten>>
      BY <2>28 DEF MarkControlLostNoop
    <2>29. ASSUME NEW t \in Threads, PublishLost(t) PROVE Contract!Next \/ UNCHANGED <<lastToken, conn # None, forgotten>>
      BY <2>29 DEF PublishLost
    <2>30. ASSUME NEW s \in Streams, EndStream(s) PROVE Contract!Next \/ UNCHANGED <<lastToken, conn # None, forgotten>>
      BY <2>30 DEF EndStream
    <2>31. ASSUME NEW s \in Streams, HandleStreamEnd(s) PROVE Contract!Next \/ UNCHANGED <<lastToken, conn # None, forgotten>>
      BY <2>31 DEF HandleStreamEnd
    <2>32. ASSUME NEW s \in Streams, StartResync(s) PROVE Contract!Next \/ UNCHANGED <<lastToken, conn # None, forgotten>>
      BY <2>32 DEF StartResync
    <2>33. ASSUME NEW s \in Streams, Resubscribe(s) PROVE Contract!Next \/ UNCHANGED <<lastToken, conn # None, forgotten>>
      BY <2>33 DEF Resubscribe
    <2>34. ASSUME NEW s \in Streams, CheckResync(s) PROVE Contract!Next \/ UNCHANGED <<lastToken, conn # None, forgotten>>
      BY <2>34 DEF CheckResync
    <2>35. ASSUME NEW s \in Streams, ResyncSnapshot(s) PROVE Contract!Next \/ UNCHANGED <<lastToken, conn # None, forgotten>>
      BY <2>35 DEF ResyncSnapshot
    <2>36. ASSUME NEW s \in Streams, FailResync(s) PROVE Contract!Next \/ UNCHANGED <<lastToken, conn # None, forgotten>>
      BY <2>36 DEF FailResync
    <2>37. ASSUME NEW s \in Streams, InstallResync(s) PROVE Contract!Next \/ UNCHANGED <<lastToken, conn # None, forgotten>>
      BY <2>37 DEF InstallResync
    <2>38. ASSUME NEW s \in Streams, DropResync(s) PROVE Contract!Next \/ UNCHANGED <<lastToken, conn # None, forgotten>>
      BY <2>38 DEF DropResync
    <2>39. ASSUME NEW s \in Streams, PublishResync(s) PROVE Contract!Next \/ UNCHANGED <<lastToken, conn # None, forgotten>>
      BY <2>39 DEF PublishResync
    <2>40. CASE StartPing
      BY <2>40 DEF StartPing
    <2>41. CASE FinishPing
      BY <2>41 DEF FinishPing
    <2>42. CASE ServerEndsSession
      BY <2>42 DEF ServerEndsSession
    <2>43. CASE UNCHANGED vars
      BY <2>43 DEF vars
    <2> QED
      BY <2>1, <2>2, <2>3, <2>4, <2>5, <2>6, <2>7, <2>8, <2>9, <2>10, <2>11, <2>12, <2>13, <2>14, <2>15, <2>16, <2>17, <2>18, <2>19, <2>20, <2>21, <2>22, <2>23, <2>24, <2>25, <2>26, <2>27, <2>28, <2>29, <2>30, <2>31, <2>32, <2>33, <2>34, <2>35, <2>36, <2>37, <2>38, <2>39, <2>40, <2>41, <2>42, <2>43
      DEF Next, CallerStep, ReportStep, StreamStep
  <1> QED
    BY <1>1, <1>2, Invariance, PTL DEF Spec, KeepsContract, Contract!Spec

-----------------------------------------------------------------------------
(* The roster in a window.                                                 *)

RosState == [info : [Clients -> Nat], radio : [Clients -> Nat]]

RosHandle ==
  [at : {"asked", "settled"}, dirty : BOOLEAN, disposed : BOOLEAN, attempt : 0 .. maxAttempts]
  \cup [at : {"answered"}, answer : RosState, dirty : BOOLEAN, disposed : BOOLEAN,
        attempt : 0 .. maxAttempts]

RosChange ==
  [type : {"client_update", "radio_update"}, guid : Clients, v : Nat]
  \cup [type : {"client_left"}, guid : Clients]
RosEvent == RosChange \cup [type : {"connected", "logged_out"}]

RosType ==
  /\ session \in {"out", "filled", "in", "leaving", "gone"}
  /\ info \in [Clients -> Nat] /\ radio \in [Clients -> Nat]
  /\ routed \in RosChange \cup {Roster!Nothing} /\ clientWire \in Seq(RosEvent)
  /\ clientMounted \in BOOLEAN /\ client \in Seq(RosHandle) /\ stores \in RosState
  /\ changes \in Nat /\ syncs \in Nat /\ late \in BOOLEAN /\ clientForced \in BOOLEAN

\* Only the last hydrate can still reach the stores, and a window that is not
\* mounted has none.
RosHandles ==
  /\ \A i \in 1 .. Len(client) - 1 : client[i].at # "settled" => client[i].disposed
  /\ IF clientMounted THEN client # <<>>
     ELSE client = <<>> /\ clientWire = <<>> /\ stores = Roster!Empty

RosInfo(e, g) == e.type \in {"client_update", "client_left"} /\ e.guid = g
RosRadio(e, g) == e.type = "radio_update" /\ e.guid = g
RosValue(e) == IF e.type = "client_update" THEN e.v ELSE 0

\* An event that has still to be emitted tells what the store holds.
RosRouted ==
  ~late /\ routed # Roster!Nothing =>
    /\ session \in {"filled", "in", "out"}
    /\ \A g \in Clients : /\ RosInfo(routed, g) => RosValue(routed) = info[g]
                          /\ RosRadio(routed, g) => routed.v = radio[g]

RosLeft ==
  session \in {"leaving", "gone"} =>
    info = Roster!NoClients /\ radio = Roster!NoClients /\ (~late => routed = Roster!Nothing)

\* Behind event k no session begins, and there is news of the client or of its
\* radios; k = 0 is of the window itself.
RosRecent(k) == \A j \in k + 1 .. Len(clientWire) : clientWire[j].type # "connected"
RosInfoBehind(k, g) ==
  RosInfo(routed, g) \/ \E j \in k + 1 .. Len(clientWire) : RosInfo(clientWire[j], g)
RosRadioBehind(k, g) ==
  RosRadio(routed, g) \/ \E j \in k + 1 .. Len(clientWire) : RosRadio(clientWire[j], g)

RosStays == \A k \in 1 .. Len(clientWire) : RosRecent(k) => clientWire[k].type # "logged_out"

\* The last event about a client tells what the store holds.
RosInfoTold ==
  \A k \in 1 .. Len(clientWire), g \in Clients :
    RosRecent(k) /\ RosInfo(clientWire[k], g) /\ ~RosInfoBehind(k, g) =>
      RosValue(clientWire[k]) = info[g]
RosRadioTold ==
  \A k \in 1 .. Len(clientWire), g \in Clients :
    RosRecent(k) /\ RosRadio(clientWire[k], g) /\ ~RosRadioBehind(k, g) =>
      radio[g] \in {clientWire[k].v, 0}

RosLive(h) == h.at # "settled" /\ ~h.disposed
RosComes(h) == h.at = "asked" \/ h.dirty
RosMarked(h, m) == (RosLive(m) => RosLive(h) /\ m.dirty) /\ (RosLive(h) => RosLive(m))

\* What no event is under way about is in the stores, or in the answer.
RosInfoShown(h) ==
  RosRecent(0) => \A g \in Clients : ~RosInfoBehind(0, g) =>
    IF RosLive(h) THEN RosComes(h) \/ h.answer.info[g] = info[g]
    ELSE clientForced \/ stores.info[g] = info[g]
RosRadioShown(h) ==
  RosRecent(0) => \A g \in Clients : ~RosRadioBehind(0, g) /\ radio[g] # 0 =>
    IF RosLive(h) THEN RosComes(h) \/ h.answer.radio[g] = radio[g]
    ELSE clientForced \/ stores.radio[g] = radio[g]

RosIn ==
  /\ RosStays /\ RosInfoTold /\ RosRadioTold
  /\ RosInfoShown(client[Len(client)]) /\ RosRadioShown(client[Len(client)])

\* After the logout nothing comes but the logout.
RosGone ==
  IF clientWire # <<>> THEN clientWire[Len(clientWire)].type = "logged_out"
  ELSE /\ stores = Roster!Empty
       /\ RosLive(client[Len(client)]) /\ client[Len(client)].at = "answered"
            => client[Len(client)].answer = Roster!Empty

RosInv ==
  /\ RosType /\ RosHandles /\ RosRouted /\ RosLeft
  /\ clientMounted /\ ~late /\ session = "in" => RosIn
  /\ clientMounted /\ ~late /\ session = "gone" => RosGone

\* A hydrate has at least one attempt.
LEMMA RosBounds == maxAttempts \in Nat \ {0}
  BY RosterBounds DEF Roster!RosterAssumption, Roster!HydrateAssumption

\* What a hydrate is after each of its operations.
LEMMA RosOperations ==
  ASSUME NEW h \in RosHandle
  PROVE  /\ Roster!Pushed(h) \in RosHandle /\ RosMarked(h, Roster!Pushed(h))
         /\ Roster!Disposed(h) \in RosHandle /\ Roster!Disposed(h).disposed
         /\ Roster!Settled \in RosHandle /\ Roster!Settled.at = "settled"
         /\ \A v \in RosState : /\ Roster!Answered(h, v) \in RosHandle
                                /\ Roster!Answered(h, v).at = "answered"
                                /\ Roster!Answered(h, v).answer = v
                                /\ Roster!Answered(h, v).disposed = h.disposed
                                /\ Roster!Answered(h, v).dirty = h.dirty
         /\ h.attempt < maxAttempts => /\ Roster!NextAttempt(h) \in RosHandle
                                       /\ Roster!NextAttempt(h).at = "asked"
                                       /\ ~Roster!NextAttempt(h).disposed
         /\ h.at = "answered" => h.answer \in RosState
         /\ h.attempt \in 0 .. maxAttempts /\ h.dirty \in BOOLEAN /\ h.disposed \in BOOLEAN
         /\ h.at \in {"asked", "answered", "settled"}
<1>1. Roster!Settled \in RosHandle /\ Roster!Settled.at = "settled"
  BY RosBounds DEF RosHandle, Roster!Settled
<1>2. ASSUME h.attempt < maxAttempts
      PROVE  /\ Roster!NextAttempt(h) \in RosHandle /\ Roster!NextAttempt(h).at = "asked"
             /\ ~Roster!NextAttempt(h).disposed
  <2>1. h.attempt + 1 \in 0 .. maxAttempts
    <3>1. PICK a : a = h.attempt /\ a \in 0 .. maxAttempts
      BY DEF RosHandle
    <3>2. a \in Int /\ 0 <= a /\ a < maxAttempts /\ maxAttempts \in Int
      BY <1>2, <3>1, RosBounds
    <3>3. a + 1 \in 0 .. maxAttempts
      BY <3>2
    <3> QED  BY <3>1, <3>3
  <2>2. /\ Roster!NextAttempt(h) \in [at : {"asked", "settled"}, dirty : BOOLEAN, disposed : BOOLEAN,
                                     attempt : 0 .. maxAttempts]
        /\ Roster!NextAttempt(h).at = "asked" /\ ~Roster!NextAttempt(h).disposed
    BY <2>1 DEF Roster!NextAttempt, Roster!Asked
  <2> QED  BY <2>2 DEF RosHandle
<1>3. CASE h.at = "settled"
  BY <1>1, <1>2, <1>3 DEF RosHandle, RosLive, RosMarked, Roster!Pushed, Roster!InFlight,
     Roster!Disposed, Roster!Answered
<1>4. CASE h.at # "settled"
  BY <1>1, <1>2, <1>4 DEF RosHandle, RosLive, RosMarked, Roster!Pushed, Roster!InFlight,
     Roster!Disposed, Roster!Answered
<1> QED  BY <1>3, <1>4

\* What the hydrates are after each operation on the handle.
LEMMA RosHandleSteps ==
  ASSUME client \in Seq(RosHandle), \A i \in 1 .. Len(client) - 1 : client[i].at # "settled" => client[i].disposed
  PROVE  /\ Roster!Hydrated(client) \in Seq(RosHandle)
         /\ Roster!Hydrated(client) # <<>>
         /\ Roster!Hydrated(client)[Len(Roster!Hydrated(client))] = Roster!Asked
         /\ \A i \in 1 .. Len(Roster!Hydrated(client)) - 1 :
              Roster!Hydrated(client)[i].at # "settled" => Roster!Hydrated(client)[i].disposed
         /\ client # <<>> =>
              /\ Roster!Marked(client) \in Seq(RosHandle) /\ Roster!Marked(client) # <<>>
              /\ RosMarked(client[Len(client)], Roster!Marked(client)[Len(Roster!Marked(client))])
              /\ \A i \in 1 .. Len(Roster!Marked(client)) - 1 :
                   Roster!Marked(client)[i].at # "settled" => Roster!Marked(client)[i].disposed
         /\ client # <<>> =>
              /\ Roster!GivenUp(client) \in Seq(RosHandle) /\ Roster!GivenUp(client) # <<>>
              /\ ~RosLive(Roster!GivenUp(client)[Len(Roster!GivenUp(client))])
              /\ \A i \in 1 .. Len(Roster!GivenUp(client)) - 1 :
                   Roster!GivenUp(client)[i].at # "settled" => Roster!GivenUp(client)[i].disposed
<1>1. PICK n : n = Len(client) /\ n \in Nat
  BY LenProperties
<1>2. client # <<>> => n \in 1 .. n /\ client[n] \in RosHandle
  BY <1>1, LenProperties, ElementOfSeq, EmptySeq
<1>3. /\ Roster!GivenUp(client) \in Seq(RosHandle) /\ Len(Roster!GivenUp(client)) = n
      /\ \A i \in 1 .. n :
           Roster!GivenUp(client)[i].at # "settled" => Roster!GivenUp(client)[i].disposed
  <2>1. CASE client = <<>>
    BY <1>1, <2>1 DEF Roster!GivenUp
  <2>2. CASE client # <<>>
    <3>1. Roster!GivenUp(client) = [client EXCEPT ![n] = Roster!Disposed(client[n])]
      BY <1>1, <2>2 DEF Roster!GivenUp
    <3>2. Roster!Disposed(client[n]) \in RosHandle /\ Roster!Disposed(client[n]).disposed
      BY <1>2, <2>2, RosOperations
    <3> QED  BY <1>1, <1>2, <2>2, <3>1, <3>2, ExceptSeq
  <2> QED  BY <2>1, <2>2
<1>4. /\ Roster!Hydrated(client) \in Seq(RosHandle) /\ Len(Roster!Hydrated(client)) = n + 1
      /\ Roster!Hydrated(client)[n + 1] = Roster!Asked
      /\ \A i \in 1 .. n : Roster!Hydrated(client)[i] = Roster!GivenUp(client)[i]
  <2>1. Roster!Asked \in RosHandle
    BY RosBounds DEF RosHandle, Roster!Asked
  <2> QED  BY <1>3, <2>1, AppendProperties DEF Roster!Hydrated
<1>5. ASSUME client # <<>>
      PROVE  /\ Roster!Marked(client) \in Seq(RosHandle) /\ Len(Roster!Marked(client)) = n
             /\ RosMarked(client[n], Roster!Marked(client)[n])
             /\ \A i \in 1 .. n - 1 : Roster!Marked(client)[i] = client[i]
  <2>1. Roster!Marked(client) = [client EXCEPT ![n] = Roster!Pushed(client[n])]
    BY <1>1, <1>5 DEF Roster!Marked
  <2>2. Roster!Pushed(client[n]) \in RosHandle /\ RosMarked(client[n], Roster!Pushed(client[n]))
    BY <1>2, <1>5, RosOperations
  <2> QED  BY <1>1, <1>2, <1>5, <2>1, <2>2, ExceptSeq
<1>6. client # <<>> => n > 0
  BY <1>2
<1>7. Roster!Hydrated(client) # <<>>
  BY <1>1, <1>4
<1>8. client # <<>> => Roster!Marked(client) # <<>> /\ Roster!GivenUp(client) # <<>>
  BY <1>1, <1>3, <1>5, <1>6
<1>9. client # <<>> => ~RosLive(Roster!GivenUp(client)[Len(Roster!GivenUp(client))])
  <2>1. ASSUME client # <<>> PROVE ~RosLive(Roster!GivenUp(client)[n])
    BY <1>2, <1>3, <2>1 DEF RosLive
  <2> QED  BY <1>3, <2>1
<1> QED  BY <1>1, <1>3, <1>4, <1>5, <1>6, <1>7, <1>8, <1>9

\* A window that is not mounted holds nothing.
LEMMA RosInitial == Roster!Init => RosInv
<1> SUFFICES ASSUME Roster!Init PROVE RosInv
  OBVIOUS
<1>1. /\ session = "out" /\ info = Roster!NoClients /\ radio = Roster!NoClients
      /\ routed = Roster!Nothing /\ clientWire = <<>> /\ clientMounted = FALSE /\ client = <<>>
      /\ stores = Roster!Empty /\ changes = 0 /\ syncs = 0 /\ late = FALSE /\ clientForced = FALSE
  BY DEF Roster!Init
<1>2. /\ <<>> \in Seq(RosHandle) /\ <<>> \in Seq(RosEvent)
      /\ Roster!NoClients \in [Clients -> Nat] /\ Roster!Empty \in RosState
  BY EmptySeq DEF Roster!NoClients, Roster!Empty, RosState
<1>3. RosType
  BY <1>1, <1>2 DEF RosType
<1>4. RosHandles /\ RosRouted /\ RosLeft
  BY <1>1 DEF RosHandles, RosRouted, RosLeft
<1> QED  BY <1>1, <1>3, <1>4 DEF RosInv

\* An event is behind those on their way, and no longer owed.
LEMMA RosAppended ==
  ASSUME RosType, NEW e \in RosEvent, clientWire' = Append(clientWire, e), NEW n,
         n = Len(clientWire)
  PROVE  /\ clientWire' \in Seq(RosEvent) /\ clientWire' # <<>> /\ n \in Nat
         /\ Len(clientWire') = n + 1 /\ clientWire'[n + 1] = e
         /\ \A k \in 1 .. n : clientWire'[k] = clientWire[k]
         /\ \A k \in 0 .. n : RosRecent(k)' <=> RosRecent(k) /\ e.type # "connected"
         /\ RosRecent(n + 1)'
         /\ routed = e /\ routed' = Roster!Nothing =>
              /\ \A k \in 0 .. n, g \in Clients : /\ RosInfoBehind(k, g)' <=> RosInfoBehind(k, g)
                                                  /\ RosRadioBehind(k, g)' <=> RosRadioBehind(k, g)
              /\ \A g \in Clients : ~RosInfoBehind(n + 1, g)' /\ ~RosRadioBehind(n + 1, g)'
<1>1. /\ clientWire' \in Seq(RosEvent) /\ clientWire' # <<>> /\ n \in Nat
      /\ Len(clientWire') = n + 1 /\ clientWire'[n + 1] = e
      /\ \A k \in 1 .. n : clientWire'[k] = clientWire[k]
  BY AppendProperties, LenProperties DEF RosType
<1>2. /\ \A k \in 0 .. n : \A j \in k + 1 .. n + 1 : (j \in k + 1 .. n /\ j \in 1 .. n) \/ j = n + 1
      /\ \A k \in 0 .. n : \A j \in k + 1 .. n : j \in k + 1 .. n + 1 /\ j \in 1 .. n
      /\ \A k \in 0 .. n : n + 1 \in k + 1 .. n + 1
      /\ \A j \in (n + 1) + 1 .. n + 1 : FALSE
  BY <1>1
<1>3. ASSUME NEW k \in 0 .. n PROVE RosRecent(k)' <=> RosRecent(k) /\ e.type # "connected"
  BY <1>1, <1>2 DEF RosRecent
<1>4. RosRecent(n + 1)'
  BY <1>1, <1>2 DEF RosRecent
<1>5. ASSUME routed = e, routed' = Roster!Nothing, NEW g \in Clients
      PROVE  /\ \A k \in 0 .. n : /\ RosInfoBehind(k, g)' <=> RosInfoBehind(k, g)
                                  /\ RosRadioBehind(k, g)' <=> RosRadioBehind(k, g)
             /\ ~RosInfoBehind(n + 1, g)' /\ ~RosRadioBehind(n + 1, g)'
  <2>1. ~RosInfo(routed', g) /\ ~RosRadio(routed', g)
    BY <1>5 DEF RosInfo, RosRadio, Roster!Nothing
  <2>2. ~RosInfoBehind(n + 1, g)' /\ ~RosRadioBehind(n + 1, g)'
    BY <1>1, <1>2, <2>1 DEF RosInfoBehind, RosRadioBehind
  <2>3. ASSUME NEW k \in 0 .. n PROVE RosInfoBehind(k, g)' <=> RosInfoBehind(k, g)
    <3>1. RosInfoBehind(k, g)' <=> \E j \in k + 1 .. n + 1 : RosInfo(clientWire'[j], g)
      BY <1>1, <2>1 DEF RosInfoBehind
    <3>2. RosInfoBehind(k, g) <=> RosInfo(e, g) \/ \E j \in k + 1 .. n : RosInfo(clientWire[j], g)
      BY <1>5 DEF RosInfoBehind
    <3>3. RosInfo(clientWire'[n + 1], g) <=> RosInfo(e, g)
      BY <1>1
    <3>4. \A j \in k + 1 .. n : RosInfo(clientWire'[j], g) <=> RosInfo(clientWire[j], g)
      BY <1>1, <1>2
    <3> QED  BY <1>2, <3>1, <3>2, <3>3, <3>4
  <2>4. ASSUME NEW k \in 0 .. n PROVE RosRadioBehind(k, g)' <=> RosRadioBehind(k, g)
    <3>1. RosRadioBehind(k, g)' <=> \E j \in k + 1 .. n + 1 : RosRadio(clientWire'[j], g)
      BY <1>1, <2>1 DEF RosRadioBehind
    <3>2. RosRadioBehind(k, g) <=> RosRadio(e, g) \/ \E j \in k + 1 .. n : RosRadio(clientWire[j], g)
      BY <1>5 DEF RosRadioBehind
    <3>3. RosRadio(clientWire'[n + 1], g) <=> RosRadio(e, g)
      BY <1>1
    <3>4. \A j \in k + 1 .. n : RosRadio(clientWire'[j], g) <=> RosRadio(clientWire[j], g)
      BY <1>1, <1>2
    <3> QED  BY <1>2, <3>1, <3>2, <3>3, <3>4
  <2> QED  BY <2>2, <2>3, <2>4
<1> QED  BY <1>1, <1>3, <1>4, <1>5

\* The first event arrives: what was behind it is behind the window.
LEMMA RosDelivered ==
  ASSUME RosType, clientWire # <<>>, clientWire' = Tail(clientWire), routed' = routed,
         NEW n, n = Len(clientWire)
  PROVE  /\ clientWire' \in Seq(RosEvent) /\ n \in Nat \ {0} /\ Len(clientWire') = n - 1
         /\ Head(clientWire) = clientWire[1] /\ Head(clientWire) \in RosEvent
         /\ n = 1 <=> clientWire' = <<>>
         /\ \A k \in 1 .. n - 1 : clientWire'[k] = clientWire[k + 1] /\ k + 1 \in 1 .. n
         /\ \A k \in 0 .. n - 1 : RosRecent(k)' <=> RosRecent(k + 1)
         /\ RosRecent(0) <=> RosRecent(1) /\ clientWire[1].type # "connected"
         /\ \A k \in 0 .. n - 1, g \in Clients :
              /\ RosInfoBehind(k, g)' <=> RosInfoBehind(k + 1, g)
              /\ RosRadioBehind(k, g)' <=> RosRadioBehind(k + 1, g)
         /\ \A g \in Clients :
              /\ RosInfoBehind(0, g) <=> RosInfoBehind(1, g) \/ RosInfo(clientWire[1], g)
              /\ RosRadioBehind(0, g) <=> RosRadioBehind(1, g) \/ RosRadio(clientWire[1], g)
<1>1. n \in Nat \ {0} /\ 1 \in 1 .. n
  BY LenProperties, EmptySeq DEF RosType
<1>2. /\ clientWire' \in Seq(RosEvent) /\ Len(clientWire') = n - 1
      /\ \A k \in 1 .. n - 1 : clientWire'[k] = clientWire[k + 1]
      /\ Head(clientWire) = clientWire[1] /\ Head(clientWire) \in RosEvent
  BY <1>1, HeadTailProperties DEF RosType
<1>3. n = 1 <=> clientWire' = <<>>
  <2>1. clientWire' = <<>> <=> Len(clientWire') = 0
    BY <1>2, EmptySeq
  <2>2. n - 1 = 0 <=> n = 1
    BY <1>1
  <2> QED  BY <1>2, <2>1, <2>2
<1>4. /\ \A k \in 1 .. n - 1 : k + 1 \in 1 .. n
      /\ \A k \in 0 .. n - 1 : \A j \in k + 1 .. n - 1 :
           j + 1 \in (k + 1) + 1 .. n /\ j \in 1 .. n - 1
      /\ \A k \in 0 .. n - 1 : \A j \in (k + 1) + 1 .. n :
           j - 1 \in k + 1 .. n - 1 /\ (j - 1) + 1 = j /\ j - 1 \in 1 .. n - 1
      /\ \A j \in 0 + 1 .. n : j = 1 \/ j \in 1 + 1 .. n
      /\ \A j \in 1 + 1 .. n : j \in 0 + 1 .. n
      /\ 1 \in 0 + 1 .. n
  BY <1>1
<1>5. ASSUME NEW k \in 0 .. n - 1 PROVE RosRecent(k)' <=> RosRecent(k + 1)
  <2>1. RosRecent(k)' <=> \A j \in k + 1 .. n - 1 : clientWire[j + 1].type # "connected"
    BY <1>2, <1>4 DEF RosRecent
  <2> QED  BY <1>4, <2>1 DEF RosRecent
<1>6. RosRecent(0) <=> RosRecent(1) /\ clientWire[1].type # "connected"
  BY <1>4 DEF RosRecent
<1>7. ASSUME NEW k \in 0 .. n - 1, NEW g \in Clients
      PROVE  /\ RosInfoBehind(k, g)' <=> RosInfoBehind(k + 1, g)
             /\ RosRadioBehind(k, g)' <=> RosRadioBehind(k + 1, g)
  <2>1. RosInfoBehind(k, g)' <=>
          RosInfo(routed, g) \/ \E j \in k + 1 .. n - 1 : RosInfo(clientWire'[j], g)
    BY <1>2 DEF RosInfoBehind
  <2>2. \A j \in k + 1 .. n - 1 : clientWire'[j] = clientWire[j + 1]
    BY <1>2, <1>4
  <2>3. RosInfoBehind(k, g)' <=>
          RosInfo(routed, g) \/ \E j \in k + 1 .. n - 1 : RosInfo(clientWire[j + 1], g)
    BY <2>1, <2>2
  <2>4. RosInfoBehind(k, g)' <=> RosInfoBehind(k + 1, g)
    BY <1>4, <2>3 DEF RosInfoBehind
  <2>5. RosRadioBehind(k, g)' <=>
          RosRadio(routed, g) \/ \E j \in k + 1 .. n - 1 : RosRadio(clientWire'[j], g)
    BY <1>2 DEF RosRadioBehind
  <2>6. RosRadioBehind(k, g)' <=>
          RosRadio(routed, g) \/ \E j \in k + 1 .. n - 1 : RosRadio(clientWire[j + 1], g)
    BY <2>2, <2>5
  <2>7. RosRadioBehind(k, g)' <=> RosRadioBehind(k + 1, g)
    BY <1>4, <2>6 DEF RosRadioBehind
  <2> QED  BY <2>4, <2>7
<1>8. ASSUME NEW g \in Clients
      PROVE  /\ RosInfoBehind(0, g) <=> RosInfoBehind(1, g) \/ RosInfo(clientWire[1], g)
             /\ RosRadioBehind(0, g) <=> RosRadioBehind(1, g) \/ RosRadio(clientWire[1], g)
  BY <1>4 DEF RosInfoBehind, RosRadioBehind
<1> QED  BY <1>1, <1>2, <1>3, <1>4, <1>5, <1>6, <1>7, <1>8

\* Emit puts the event behind what is on its way to a window that is mounted.
LEMMA RosEmits ==
  ASSUME RosType, RosHandles, NEW e \in RosEvent, Roster!Emit(e),
         clientMounted' = clientMounted, client' = client, stores' = stores
  PROVE  /\ clientWire' \in Seq(RosEvent) /\ RosHandles'
         /\ clientMounted => clientWire' = Append(clientWire, e)
<1>1. CASE clientMounted
  <2>1. clientWire' = Append(clientWire, e)
    BY <1>1 DEF Roster!Emit
  <2>2. clientWire' \in Seq(RosEvent)
    BY <2>1, AppendProperties DEF RosType
  <2> QED  BY <1>1, <2>1, <2>2 DEF RosHandles
<1>2. CASE ~clientMounted
  BY <1>2 DEF Roster!Emit, RosType, RosHandles
<1> QED  BY <1>1, <1>2

\* The events that route does not owe.
LEMMA RosSigns == [type |-> "connected"] \in RosEvent /\ [type |-> "logged_out"] \in RosEvent
  BY DEF RosEvent

\* A snapshot is applied, an attempt fails, or a session begins to end.
LEMMA RosChangesKeeps ==
  ASSUME RosInv, Roster!Hydrates \/ Roster!GivesUp \/ Roster!Resets
  PROVE  RosInv'
<1>1. /\ routed' = routed /\ syncs' \in Nat /\ clientWire' = clientWire
      /\ clientMounted' = clientMounted /\ client' = client /\ stores' = stores
      /\ clientForced' = clientForced
  BY DEF Roster!Hydrates, Roster!GivesUp, Roster!Resets, Roster!window, RosInv, RosType
<1>2. RosType /\ RosHandles /\ RosRouted /\ RosLeft
  BY DEF RosInv
<1>3. RosHandles'
  BY <1>1, <1>2 DEF RosHandles
<1>4. CASE Roster!Hydrates
  <2>1. /\ session' = "filled" /\ changes' = changes + 1 /\ radio' = info'
        /\ info' \in [Clients -> {0, changes + 1}] /\ late' = (late \/ routed # Roster!Nothing)
    BY <1>4 DEF Roster!Hydrates
  <2>2. changes + 1 \in Nat /\ {0, changes + 1} \subseteq Nat
    BY <1>2 DEF RosType
  <2>3. info' \in [Clients -> Nat] /\ late' \in BOOLEAN
    BY <1>2, <2>1, <2>2 DEF RosType
  <2>4. RosType'
    BY <1>1, <1>2, <2>1, <2>2, <2>3 DEF RosType
  <2>5. RosRouted' /\ RosLeft'
    BY <1>1, <2>1 DEF RosRouted, RosLeft
  <2> QED  BY <1>3, <2>1, <2>4, <2>5 DEF RosInv
<1>5. CASE Roster!GivesUp
  <2>1. /\ session = "filled" /\ session' = "out" /\ info' = info /\ radio' = radio
        /\ late' = late /\ changes' = changes
    BY <1>5 DEF Roster!GivesUp
  <2>2. RosType'
    BY <1>1, <1>2, <2>1 DEF RosType
  <2>3. RosRouted' /\ RosLeft'
    BY <1>1, <1>2, <2>1 DEF RosRouted, RosLeft
  <2> QED  BY <1>3, <2>1, <2>2, <2>3 DEF RosInv
<1>6. CASE Roster!Resets
  <2>1. /\ session' = "leaving" /\ info' = Roster!NoClients /\ radio' = Roster!NoClients
        /\ late' = (late \/ routed # Roster!Nothing) /\ changes' = changes
    BY <1>6 DEF Roster!Resets
  <2>2. Roster!NoClients \in [Clients -> Nat] /\ late' \in BOOLEAN
    BY <1>2, <2>1 DEF RosType, Roster!NoClients
  <2>3. RosType'
    BY <1>1, <1>2, <2>1, <2>2 DEF RosType
  <2>4. RosRouted' /\ RosLeft'
    BY <1>1, <2>1 DEF RosRouted, RosLeft
  <2> QED  BY <1>3, <2>1, <2>3, <2>4 DEF RosInv
<1> QED  BY <1>4, <1>5, <1>6

\* A session begins: what is on its way is of an earlier one.
LEMMA RosConnectedKeeps == RosInv /\ Roster!Connected => RosInv'
<1> SUFFICES ASSUME RosInv, Roster!Connected PROVE RosInv'
  OBVIOUS
<1>1. /\ session = "filled" /\ session' = "in" /\ Roster!Emit([type |-> "connected"])
      /\ info' = info /\ radio' = radio /\ routed' = routed /\ changes' = changes
      /\ syncs' = syncs /\ late' = late /\ clientMounted' = clientMounted /\ client' = client
      /\ stores' = stores /\ clientForced' = clientForced
  BY DEF Roster!Connected, Roster!window
<1>2. RosType /\ RosHandles /\ RosRouted
  BY DEF RosInv
<1>3. PICK e \in RosEvent : e = [type |-> "connected"]
  BY RosSigns
<1>4. /\ clientWire' \in Seq(RosEvent) /\ RosHandles'
      /\ clientMounted => clientWire' = Append(clientWire, e)
  BY <1>1, <1>2, <1>3, RosEmits
<1>5. RosType'
  BY <1>1, <1>2, <1>4 DEF RosType
<1>6. RosRouted' /\ RosLeft'
  BY <1>1, <1>2 DEF RosRouted, RosLeft
<1>7. ASSUME clientMounted PROVE RosIn'
  <2>1. PICK n : n = Len(clientWire)
    OBVIOUS
  <2>2. /\ n \in Nat /\ Len(clientWire') = n + 1 /\ clientWire'[n + 1] = e
        /\ \A k \in 0 .. n : ~RosRecent(k)'
    BY <1>2, <1>3, <1>4, <1>7, <2>1, RosAppended
  <2>3. e.type = "connected"
    BY <1>3
  <2>4. \A k \in 1 .. n + 1 : k \in 0 .. n \/ k = n + 1
    BY <2>2
  <2>5. \A k \in 1 .. n + 1 : RosRecent(k)' => clientWire'[k].type = "connected"
    BY <2>2, <2>3, <2>4
  <2>6. RosStays'
    BY <2>2, <2>5 DEF RosStays
  <2>7. RosInfoTold' /\ RosRadioTold'
    BY <2>2, <2>5 DEF RosInfoTold, RosRadioTold, RosInfo, RosRadio
  <2>8. ~RosRecent(0)'
    BY <2>2
  <2>9. RosInfoShown(client[Len(client)])' /\ RosRadioShown(client[Len(client)])'
    BY <2>8 DEF RosInfoShown, RosRadioShown
  <2> QED  BY <2>6, <2>7, <2>9 DEF RosIn
<1> QED  BY <1>1, <1>4, <1>5, <1>6, <1>7 DEF RosInv

\* The logout is the last event of its session.
LEMMA RosLoggedOutKeeps == RosInv /\ Roster!LoggedOut => RosInv'
<1> SUFFICES ASSUME RosInv, Roster!LoggedOut PROVE RosInv'
  OBVIOUS
<1>1. /\ session = "leaving" /\ session' = "gone" /\ Roster!Emit([type |-> "logged_out"])
      /\ info' = info /\ radio' = radio /\ routed' = routed /\ changes' = changes
      /\ syncs' = syncs /\ late' = late /\ clientMounted' = clientMounted /\ client' = client
      /\ stores' = stores /\ clientForced' = clientForced
  BY DEF Roster!LoggedOut, Roster!window
<1>2. RosType /\ RosHandles /\ RosRouted /\ RosLeft
  BY DEF RosInv
<1>3. PICK e \in RosEvent : e = [type |-> "logged_out"]
  BY RosSigns
<1>4. /\ clientWire' \in Seq(RosEvent) /\ RosHandles'
      /\ clientMounted => clientWire' = Append(clientWire, e)
  BY <1>1, <1>2, <1>3, RosEmits
<1>5. RosType'
  BY <1>1, <1>2, <1>4 DEF RosType
<1>6. RosRouted' /\ RosLeft'
  BY <1>1, <1>2 DEF RosRouted, RosLeft
<1>7. clientMounted => RosGone'
  <2>1. PICK n : n = Len(clientWire)
    OBVIOUS
  <2>2. clientMounted => /\ clientWire' # <<>> /\ n \in Nat
                         /\ Len(clientWire') = n + 1 /\ clientWire'[n + 1] = e
    BY <1>2, <1>4, <2>1, RosAppended
  <2> QED  BY <1>3, <2>2 DEF RosGone
<1> QED  BY <1>1, <1>4, <1>5, <1>6, <1>7 DEF RosInv

\* A change that route stores: its event is owed.
LEMMA RosStored ==
  ASSUME RosInv, Roster!Routes, NEW g \in Clients, NEW e \in RosChange, e.guid = g, routed' = e,
         changes' \in Nat, info' \in [Clients -> Nat], radio' \in [Clients -> Nat],
         \A x \in Clients : x # g => info'[x] = info[x] /\ radio'[x] = radio[x],
         IF RosInfo(e, g) THEN RosValue(e) = info'[g] ELSE info'[g] = info[g],
         IF RosRadio(e, g) THEN e.v = radio'[g] ELSE radio'[g] \in {radio[g], 0},
         UNCHANGED <<session, syncs, late, clientWire, clientMounted, client, stores, clientForced>>
  PROVE  RosInv'
<1>1. /\ session' = session /\ syncs' = syncs /\ late' = late /\ clientWire' = clientWire
      /\ clientMounted' = clientMounted /\ client' = client /\ stores' = stores
      /\ clientForced' = clientForced
  OBVIOUS
<1>2. RosType /\ RosHandles /\ session \in {"filled", "in"} /\ routed = Roster!Nothing
  BY DEF RosInv, Roster!Routes
<1>3. RosType'
  BY <1>1, <1>2 DEF RosType
<1>4. RosHandles'
  BY <1>1, <1>2 DEF RosHandles
<1>5. RosRouted' /\ RosLeft'
  <2>1. \A x \in Clients : /\ RosInfo(e, x) => x = g /\ RosInfo(e, g)
                           /\ RosRadio(e, x) => x = g /\ RosRadio(e, g)
    BY DEF RosInfo, RosRadio
  <2> QED  BY <1>1, <1>2, <2>1 DEF RosRouted, RosLeft
<1>6. ASSUME clientMounted, ~late, session = "in" PROVE RosIn'
  <2>1. RosStays /\ RosInfoTold /\ RosRadioTold
    BY <1>6 DEF RosInv, RosIn
  <2>2. PICK h, n : h = client[Len(client)] /\ n = Len(clientWire)
    OBVIOUS
  <2>3. RosInfoShown(h) /\ RosRadioShown(h)
    BY <1>6, <2>2 DEF RosInv, RosIn
  <2>4. \A k : RosRecent(k)' <=> RosRecent(k)
    BY <1>1 DEF RosRecent
  <2>5. \A k, x : /\ RosInfoBehind(k, x) => RosInfoBehind(k, x)'
                  /\ RosRadioBehind(k, x) => RosRadioBehind(k, x)'
    BY <1>1, <1>2 DEF RosInfoBehind, RosRadioBehind, RosInfo, RosRadio, Roster!Nothing
  <2>6. \A k : \A x \in Clients : ~RosInfoBehind(k, x)' => info'[x] = info[x]
    BY DEF RosInfoBehind
  <2>7. \A x \in Clients : \A k : ~RosRadioBehind(k, x)' => radio'[x] \in {radio[x], 0}
    BY DEF RosRadioBehind
  <2>8. RosStays'
    BY <1>1, <2>1, <2>4 DEF RosStays
  <2>9. RosInfoTold'
    <3> SUFFICES ASSUME NEW k \in 1 .. n, NEW x \in Clients, RosRecent(k),
                        RosInfo(clientWire[k], x), ~RosInfoBehind(k, x)'
                 PROVE  RosValue(clientWire[k]) = info'[x]
      BY <1>1, <2>2, <2>4 DEF RosInfoTold
    <3> QED  BY <2>1, <2>2, <2>5, <2>6 DEF RosInfoTold
  <2>10. RosRadioTold'
    <3> SUFFICES ASSUME NEW k \in 1 .. n, NEW x \in Clients, RosRecent(k),
                        RosRadio(clientWire[k], x), ~RosRadioBehind(k, x)'
                 PROVE  radio'[x] \in {clientWire[k].v, 0}
      BY <1>1, <2>2, <2>4 DEF RosRadioTold
    <3>1. radio[x] \in {clientWire[k].v, 0}
      BY <2>1, <2>2, <2>5 DEF RosRadioTold
    <3>2. radio'[x] \in {radio[x], 0}
      BY <2>7
    <3> QED  BY <3>1, <3>2
  <2>11. RosInfoShown(h)'
    <3> SUFFICES ASSUME RosRecent(0), NEW x \in Clients, ~RosInfoBehind(0, x)'
                 PROVE  IF RosLive(h) THEN RosComes(h) \/ h.answer.info[x] = info'[x]
                        ELSE clientForced \/ stores.info[x] = info'[x]
      BY <1>1, <2>4 DEF RosInfoShown
    <3>1. ~RosInfoBehind(0, x) /\ info'[x] = info[x]
      BY <2>5, <2>6
    <3> QED  BY <2>3, <3>1 DEF RosInfoShown
  <2>12. RosRadioShown(h)'
    <3> SUFFICES ASSUME RosRecent(0), NEW x \in Clients, ~RosRadioBehind(0, x)', radio'[x] # 0
                 PROVE  IF RosLive(h) THEN RosComes(h) \/ h.answer.radio[x] = radio'[x]
                        ELSE clientForced \/ stores.radio[x] = radio'[x]
      BY <1>1, <2>4 DEF RosRadioShown
    <3>1. ~RosRadioBehind(0, x) /\ radio'[x] = radio[x] /\ radio[x] # 0
      BY <2>5, <2>7
    <3> QED  BY <2>3, <3>1 DEF RosRadioShown
  <2> QED  BY <1>1, <2>2, <2>8, <2>9, <2>10, <2>11, <2>12 DEF RosIn
<1> QED  BY <1>1, <1>2, <1>3, <1>4, <1>5, <1>6 DEF RosInv

\* An update of a client or of its radios, or a client that leaves.
LEMMA RosUpdatesKeeps ==
  ASSUME RosInv, NEW g \in Clients,
         Roster!ClientUpdate(g) \/ Roster!RadioUpdate(g) \/ Roster!ClientLeft(g)
  PROVE  RosInv'
<1>1. /\ Roster!Routes /\ changes' = changes + 1
      /\ UNCHANGED <<session, syncs, late, clientWire, clientMounted, client, stores, clientForced>>
  BY DEF Roster!ClientUpdate, Roster!RadioUpdate, Roster!ClientLeft, Roster!window
<1>2. info \in [Clients -> Nat] /\ radio \in [Clients -> Nat] /\ changes + 1 \in Nat /\ changes' \in Nat
  BY <1>1 DEF RosInv, RosType
<1>3. CASE Roster!ClientUpdate(g)
  <2>1. PICK e : e = [type |-> "client_update", guid |-> g, v |-> changes + 1]
    OBVIOUS
  <2>2. info' = [info EXCEPT ![g] = changes + 1] /\ radio' = radio /\ routed' = e
    BY <1>3, <2>1 DEF Roster!ClientUpdate
  <2>3. e \in RosChange /\ e.guid = g /\ e.type = "client_update" /\ e.v = changes + 1
    BY <1>2, <2>1 DEF RosChange
  <2>4. RosInfo(e, g) /\ ~RosRadio(e, g) /\ RosValue(e) = changes + 1
    BY <2>3 DEF RosInfo, RosRadio, RosValue
  <2>5. /\ info' \in [Clients -> Nat] /\ radio' \in [Clients -> Nat] /\ info'[g] = changes + 1
        /\ radio'[g] = radio[g]
        /\ \A x \in Clients : x # g => info'[x] = info[x] /\ radio'[x] = radio[x]
    BY <1>2, <2>2
  <2> QED  BY <1>1, <1>2, <2>2, <2>3, <2>4, <2>5, RosStored
<1>4. CASE Roster!RadioUpdate(g)
  <2>1. PICK e : e = [type |-> "radio_update", guid |-> g, v |-> changes + 1]
    OBVIOUS
  <2>2. radio' = [radio EXCEPT ![g] = changes + 1] /\ info' = info /\ routed' = e
    BY <1>4, <2>1 DEF Roster!RadioUpdate
  <2>3. e \in RosChange /\ e.guid = g /\ e.type = "radio_update" /\ e.v = changes + 1
    BY <1>2, <2>1 DEF RosChange
  <2>4. ~RosInfo(e, g) /\ RosRadio(e, g)
    BY <2>3 DEF RosInfo, RosRadio
  <2>5. /\ info' \in [Clients -> Nat] /\ radio' \in [Clients -> Nat] /\ radio'[g] = changes + 1
        /\ info'[g] = info[g]
        /\ \A x \in Clients : x # g => info'[x] = info[x] /\ radio'[x] = radio[x]
    BY <1>2, <2>2
  <2> QED  BY <1>1, <1>2, <2>2, <2>3, <2>4, <2>5, RosStored
<1>5. CASE Roster!ClientLeft(g)
  <2>1. PICK e : e = [type |-> "client_left", guid |-> g]
    OBVIOUS
  <2>2. info' = [info EXCEPT ![g] = 0] /\ radio' = [radio EXCEPT ![g] = 0] /\ routed' = e
    BY <1>5, <2>1 DEF Roster!ClientLeft
  <2>3. e \in RosChange /\ e.guid = g /\ e.type = "client_left"
    BY <2>1 DEF RosChange
  <2>4. RosInfo(e, g) /\ ~RosRadio(e, g) /\ RosValue(e) = 0
    BY <2>3 DEF RosInfo, RosRadio, RosValue
  <2>5. /\ info' \in [Clients -> Nat] /\ radio' \in [Clients -> Nat] /\ info'[g] = 0
        /\ radio'[g] = 0
        /\ \A x \in Clients : x # g => info'[x] = info[x] /\ radio'[x] = radio[x]
    BY <1>2, <2>2
  <2> QED  BY <1>1, <1>2, <2>2, <2>3, <2>4, <2>5, RosStored
<1> QED  BY <1>3, <1>4, <1>5

\* What is owed is on its way.
LEMMA RosEmitsKeeps == RosInv /\ Roster!Emits => RosInv'
<1> SUFFICES ASSUME RosInv, Roster!Emits PROVE RosInv'
  OBVIOUS
<1>1. /\ routed # Roster!Nothing /\ Roster!Emit(routed) /\ routed' = Roster!Nothing
      /\ session' = session /\ info' = info /\ radio' = radio /\ changes' = changes
      /\ syncs' = syncs /\ late' = late /\ clientMounted' = clientMounted /\ client' = client
      /\ stores' = stores /\ clientForced' = clientForced
  BY DEF Roster!Emits, Roster!window
<1>2. RosType /\ RosHandles /\ RosRouted /\ RosLeft
  BY DEF RosInv
<1>3. PICK e : e = routed /\ e \in RosEvent /\ e \in RosChange
  BY <1>1, <1>2 DEF RosType, RosEvent
<1>4. /\ clientWire' \in Seq(RosEvent) /\ RosHandles'
      /\ clientMounted => clientWire' = Append(clientWire, e)
  BY <1>1, <1>2, <1>3, RosEmits
<1>5. RosType'
  BY <1>1, <1>2, <1>4 DEF RosType
<1>6. RosRouted' /\ RosLeft'
  BY <1>1, <1>2 DEF RosRouted, RosLeft
<1>7. ASSUME ~late PROVE session # "gone"
  BY <1>1, <1>2, <1>7 DEF RosRouted
<1>8. ASSUME clientMounted, ~late, session = "in" PROVE RosIn'
  <2>1. RosStays /\ RosInfoTold /\ RosRadioTold
    BY <1>8 DEF RosInv, RosIn
  <2>2. PICK h, n : h = client[Len(client)] /\ n = Len(clientWire)
    OBVIOUS
  <2>3. RosInfoShown(h) /\ RosRadioShown(h)
    BY <1>8, <2>2 DEF RosInv, RosIn
  <2>4. e.type \notin {"connected", "logged_out"}
    BY <1>3 DEF RosChange
  <2>5. /\ n \in Nat /\ Len(clientWire') = n + 1 /\ clientWire'[n + 1] = e
        /\ \A k \in 1 .. n : clientWire'[k] = clientWire[k]
        /\ \A k \in 0 .. n : RosRecent(k)' <=> RosRecent(k)
        /\ \A k \in 0 .. n, x \in Clients : /\ RosInfoBehind(k, x)' <=> RosInfoBehind(k, x)
                                            /\ RosRadioBehind(k, x)' <=> RosRadioBehind(k, x)
    BY <1>1, <1>2, <1>3, <1>4, <1>8, <2>2, <2>4, RosAppended
  <2>6. \A k \in 1 .. n + 1 : (k \in 1 .. n /\ k \in 0 .. n) \/ k = n + 1
    BY <2>5
  <2>7. \A x \in Clients : /\ RosInfo(e, x) => RosValue(e) = info[x]
                           /\ RosRadio(e, x) => e.v = radio[x]
    BY <1>1, <1>2, <1>3, <1>8 DEF RosRouted
  <2>8. RosStays'
    BY <2>1, <2>2, <2>4, <2>5, <2>6 DEF RosStays
  <2>9. RosInfoTold'
    <3> SUFFICES ASSUME NEW k \in 1 .. n + 1, NEW x \in Clients, RosRecent(k)',
                        RosInfo(clientWire'[k], x), ~RosInfoBehind(k, x)'
                 PROVE  RosValue(clientWire'[k]) = info[x]
      BY <1>1, <2>5 DEF RosInfoTold
    <3>1. CASE k = n + 1
      BY <2>5, <2>7, <3>1
    <3>2. CASE k \in 1 .. n /\ k \in 0 .. n
      BY <2>1, <2>2, <2>5, <3>2 DEF RosInfoTold
    <3> QED  BY <2>6, <3>1, <3>2
  <2>10. RosRadioTold'
    <3> SUFFICES ASSUME NEW k \in 1 .. n + 1, NEW x \in Clients, RosRecent(k)',
                        RosRadio(clientWire'[k], x), ~RosRadioBehind(k, x)'
                 PROVE  radio[x] \in {clientWire'[k].v, 0}
      BY <1>1, <2>5 DEF RosRadioTold
    <3>1. CASE k = n + 1
      BY <2>5, <2>7, <3>1
    <3>2. CASE k \in 1 .. n /\ k \in 0 .. n
      BY <2>1, <2>2, <2>5, <3>2 DEF RosRadioTold
    <3> QED  BY <2>6, <3>1, <3>2
  <2>11. 0 \in 0 .. n
    BY <2>5
  <2>12. RosInfoShown(h)' /\ RosRadioShown(h)'
    BY <1>1, <2>3, <2>5, <2>11 DEF RosInfoShown, RosRadioShown
  <2> QED  BY <1>1, <2>2, <2>8, <2>9, <2>10, <2>12 DEF RosIn
<1> QED  BY <1>1, <1>4, <1>5, <1>6, <1>7, <1>8 DEF RosInv

\* A window that mounts asks.
LEMMA RosMountsKeeps == RosInv /\ Roster!Mounts => RosInv'
<1> SUFFICES ASSUME RosInv, Roster!Mounts PROVE RosInv'
  OBVIOUS
<1>1. /\ ~clientMounted /\ clientMounted' = TRUE /\ client' = Roster!Hydrated(client)
      /\ session' = session /\ info' = info /\ radio' = radio /\ routed' = routed
      /\ changes' = changes /\ syncs' = syncs /\ late' = late
      /\ clientWire' = clientWire /\ stores' = stores /\ clientForced' = clientForced
  BY DEF Roster!Mounts, Roster!roster
<1>2. /\ RosType /\ RosHandles /\ RosRouted /\ RosLeft
      /\ clientWire = <<>> /\ stores = Roster!Empty
  BY <1>1 DEF RosInv, RosHandles
<1>3. /\ client' \in Seq(RosHandle) /\ client' # <<>> /\ client'[Len(client')] = Roster!Asked
      /\ \A i \in 1 .. Len(client') - 1 : client'[i].at # "settled" => client'[i].disposed
  BY <1>1, <1>2, RosHandleSteps DEF RosType, RosHandles
<1>4. RosType'
  BY <1>1, <1>2, <1>3 DEF RosType
<1>5. RosHandles'
  BY <1>1, <1>3 DEF RosHandles
<1>6. RosRouted' /\ RosLeft'
  BY <1>1, <1>2 DEF RosRouted, RosLeft
<1>7. PICK h : h = client'[Len(client')] /\ RosLive(h) /\ RosComes(h) /\ h.at = "asked"
  BY <1>3 DEF RosLive, RosComes, Roster!Asked
<1>8. \A k \in 1 .. Len(clientWire) : FALSE
  BY <1>2
<1>9. RosIn'
  <2>1. RosStays' /\ RosInfoTold' /\ RosRadioTold'
    BY <1>1, <1>8 DEF RosStays, RosInfoTold, RosRadioTold
  <2>2. RosInfoShown(client[Len(client)])' /\ RosRadioShown(client[Len(client)])'
    BY <1>7 DEF RosInfoShown, RosRadioShown
  <2> QED  BY <2>1, <2>2 DEF RosIn
<1>10. RosGone'
  BY <1>1, <1>2, <1>7 DEF RosGone
<1> QED  BY <1>4, <1>5, <1>6, <1>9, <1>10 DEF RosInv

\* What becomes of a hydrate, and of the stores when it settles.
LEMMA RosFetches ==
  ASSUME RosInv, NEW i \in DOMAIN client, Roster!GetClientState(i) \/ Roster!ClientArrives(i),
         NEW n, n = Len(client)
  PROVE  \E h \in RosHandle :
           /\ n \in 1 .. n /\ i \in 1 .. n /\ client' \in Seq(RosHandle) /\ client' # <<>>
           /\ Len(client') = n /\ client # <<>>
           /\ \A j \in 1 .. n : client'[j] = IF j = i THEN h ELSE client[j]
           /\ stores' \in RosState /\ clientForced' \in BOOLEAN
           /\ client[i] \in RosHandle /\ client[i].at # "settled"
           /\ \/ /\ h.at = "answered" /\ h.answer = [info |-> info, radio |-> radio]
                 /\ h.disposed = client[i].disposed /\ client[i].at = "asked"
                 /\ stores' = stores /\ clientForced' = clientForced
              \/ /\ h.at = "asked" /\ ~h.disposed /\ ~client[i].disposed
                 /\ stores' = stores /\ clientForced' = clientForced
              \/ /\ h.at = "settled" /\ client[i].disposed
                 /\ stores' = stores /\ clientForced' = clientForced
              \/ /\ h.at = "settled" /\ ~client[i].disposed /\ client[i].at = "answered"
                 /\ client[i].answer \in RosState /\ stores' = client[i].answer
                 /\ ~clientForced' => ~client[i].dirty
<1>1. RosType /\ client \in Seq(RosHandle) /\ stores \in RosState /\ clientForced \in BOOLEAN
  BY DEF RosInv, RosType
<1>2. i \in 1 .. n /\ n \in 1 .. n /\ n \in Nat /\ client # <<>> /\ client[i] \in RosHandle
  BY <1>1, LenProperties, ElementOfSeq, EmptySeq
<1>3. PICK o \in RosHandle : o = client[i]
  BY <1>2
<1>4. [info |-> info, radio |-> radio] \in RosState
  BY <1>1 DEF RosType, RosState
<1>5. /\ o.attempt \in 0 .. maxAttempts /\ o.dirty \in BOOLEAN /\ o.disposed \in BOOLEAN
      /\ Roster!Settled \in RosHandle /\ Roster!Settled.at = "settled"
      /\ o.at = "answered" => o.answer \in RosState
  BY RosOperations
<1>6. PICK h \in RosHandle :
        /\ client' = [client EXCEPT ![i] = h]
        /\ stores' \in RosState /\ clientForced' \in BOOLEAN /\ o.at # "settled"
        /\ \/ /\ h.at = "answered" /\ h.answer = [info |-> info, radio |-> radio]
              /\ h.disposed = o.disposed /\ o.at = "asked"
              /\ stores' = stores /\ clientForced' = clientForced
           \/ /\ h.at = "asked" /\ ~h.disposed /\ ~o.disposed
              /\ stores' = stores /\ clientForced' = clientForced
           \/ /\ h.at = "settled" /\ o.disposed
              /\ stores' = stores /\ clientForced' = clientForced
           \/ /\ h.at = "settled" /\ ~o.disposed /\ o.at = "answered"
              /\ o.answer \in RosState /\ stores' = o.answer
              /\ ~clientForced' => ~o.dirty
  <2>1. CASE Roster!GetClientState(i)
    <3>1. PICK v \in RosState : v = [info |-> info, radio |-> radio]
      BY <1>4
    <3>2. /\ o.at = "asked" /\ client' = [client EXCEPT ![i] = Roster!Answered(o, v)]
          /\ stores' = stores /\ clientForced' = clientForced
      BY <1>3, <2>1, <3>1 DEF Roster!GetClientState
    <3>3. /\ Roster!Answered(o, v) \in RosHandle /\ Roster!Answered(o, v).at = "answered"
          /\ Roster!Answered(o, v).answer = v /\ Roster!Answered(o, v).disposed = o.disposed
      BY RosOperations
    <3> QED  BY <1>1, <3>1, <3>2, <3>3
  <2>2. CASE Roster!ClientArrives(i)
    <3>1. /\ o.at = "answered"
          /\ client' = [client EXCEPT ![i] = IF Roster!AsksAgain(o) THEN Roster!NextAttempt(o)
                                                                    ELSE Roster!Settled]
          /\ stores' = IF Roster!AppliesDelta(o)
                         THEN [stores EXCEPT !.info = o.answer.info, !.radio = o.answer.radio]
                         ELSE stores
          /\ clientForced' = IF Roster!AppliesDelta(o) THEN Roster!Forced(o) ELSE clientForced
      BY <1>3, <2>2 DEF Roster!ClientArrives
    <3>2. CASE Roster!AsksAgain(o)
      <4>1. o.attempt < maxAttempts /\ ~o.disposed /\ ~Roster!AppliesDelta(o)
        BY <3>2 DEF Roster!AsksAgain, Roster!AppliesDelta
      <4>2. /\ Roster!NextAttempt(o) \in RosHandle /\ Roster!NextAttempt(o).at = "asked"
            /\ ~Roster!NextAttempt(o).disposed
        BY <4>1, RosOperations
      <4> QED  BY <1>1, <3>1, <3>2, <4>1, <4>2
    <3>3. CASE ~Roster!AsksAgain(o) /\ o.disposed
      <4>1. ~Roster!AppliesDelta(o)
        BY <3>3 DEF Roster!AppliesDelta
      <4> QED  BY <1>1, <1>5, <3>1, <3>3, <4>1
    <3>4. CASE ~Roster!AsksAgain(o) /\ ~o.disposed
      <4>1. Roster!AppliesDelta(o) /\ (o.dirty => ~(o.attempt < maxAttempts))
        BY <3>4 DEF Roster!AppliesDelta, Roster!AsksAgain
      <4>2. PICK s : s = [stores EXCEPT !.info = o.answer.info, !.radio = o.answer.radio]
        OBVIOUS
      <4>3. o.answer \in RosState
        BY <1>5, <3>1
      <4>4. s = o.answer
        BY <1>1, <4>2, <4>3 DEF RosState
      <4>5. clientForced' = Roster!Forced(o) /\ stores' = s
        BY <3>1, <4>1, <4>2
      <4>6. o.dirty => o.attempt = maxAttempts
        BY <1>5, <4>1, RosBounds
      <4>7. clientForced' \in BOOLEAN /\ (~clientForced' => ~o.dirty)
        BY <4>1, <4>5, <4>6 DEF Roster!Forced
      <4> QED  BY <1>5, <3>1, <3>4, <4>3, <4>4, <4>5, <4>7
    <3> QED  BY <3>2, <3>3, <3>4
  <2> QED  BY <2>1, <2>2
<1>7. /\ client' \in Seq(RosHandle) /\ Len(client') = n
      /\ \A j \in 1 .. n : client'[j] = IF j = i THEN h ELSE client[j]
  BY <1>1, <1>2, <1>6, ExceptSeq
<1>8. client' # <<>>
  BY <1>2, <1>7
<1> QED  BY <1>2, <1>3, <1>6, <1>7, <1>8

\* An answer is what Go holds then, and the last handle puts it into the stores
\* unless it was overtaken.
LEMMA RosFetchKeeps ==
  ASSUME RosInv, NEW i \in DOMAIN client, Roster!GetClientState(i) \/ Roster!ClientArrives(i)
  PROVE  RosInv'
<1>1. /\ session' = session /\ info' = info /\ radio' = radio /\ routed' = routed
      /\ changes' = changes /\ syncs' = syncs /\ late' = late
      /\ clientWire' = clientWire /\ clientMounted' = clientMounted
  BY DEF Roster!GetClientState, Roster!ClientArrives, Roster!roster
<1>2. RosType /\ RosHandles /\ RosRouted /\ RosLeft
  BY DEF RosInv
<1>3. PICK n : n = Len(client)
  OBVIOUS
<1>4. PICK h \in RosHandle :
        /\ n \in 1 .. n /\ i \in 1 .. n /\ client' \in Seq(RosHandle) /\ client' # <<>>
        /\ Len(client') = n /\ client # <<>>
        /\ \A j \in 1 .. n : client'[j] = IF j = i THEN h ELSE client[j]
        /\ stores' \in RosState /\ clientForced' \in BOOLEAN
        /\ client[i] \in RosHandle /\ client[i].at # "settled"
        /\ \/ /\ h.at = "answered" /\ h.answer = [info |-> info, radio |-> radio]
              /\ h.disposed = client[i].disposed /\ client[i].at = "asked"
              /\ stores' = stores /\ clientForced' = clientForced
           \/ /\ h.at = "asked" /\ ~h.disposed /\ ~client[i].disposed
              /\ stores' = stores /\ clientForced' = clientForced
           \/ /\ h.at = "settled" /\ client[i].disposed
              /\ stores' = stores /\ clientForced' = clientForced
           \/ /\ h.at = "settled" /\ ~client[i].disposed /\ client[i].at = "answered"
              /\ client[i].answer \in RosState /\ stores' = client[i].answer
              /\ ~clientForced' => ~client[i].dirty
  BY <1>3, RosFetches
<1>5. PICK o, m : o = client[i] /\ m = client[n]
  OBVIOUS
<1>6. \/ /\ h.at = "answered" /\ h.answer = [info |-> info, radio |-> radio]
         /\ h.disposed = o.disposed /\ o.at = "asked"
         /\ stores' = stores /\ clientForced' = clientForced
      \/ /\ h.at = "asked" /\ ~h.disposed /\ ~o.disposed
         /\ stores' = stores /\ clientForced' = clientForced
      \/ /\ h.at = "settled" /\ o.disposed
         /\ stores' = stores /\ clientForced' = clientForced
      \/ /\ h.at = "settled" /\ ~o.disposed /\ o.at = "answered" /\ stores' = o.answer
         /\ ~clientForced' => ~o.dirty
  BY <1>4, <1>5
<1>7. o.at # "settled" /\ (i # n => o.disposed)
  <2>1. i # n => i \in 1 .. n - 1
    BY <1>4
  <2> QED  BY <1>2, <1>3, <1>4, <1>5, <2>1 DEF RosHandles
<1>8. /\ i = n => client'[Len(client')] = h /\ o = m
      /\ i # n => client'[Len(client')] = m /\ stores' = stores /\ clientForced' = clientForced
  <2>1. i = n => client'[n] = h
    BY <1>4
  <2>2. i # n => client'[n] = client[n]
    BY <1>4
  <2>3. i # n => stores' = stores /\ clientForced' = clientForced
    BY <1>6, <1>7
  <2> QED  BY <1>4, <1>5, <2>1, <2>2, <2>3
<1>9. RosType'
  BY <1>1, <1>2, <1>4 DEF RosType
<1>10. RosHandles'
  <2>1. clientMounted
    BY <1>2, <1>4 DEF RosHandles
  <2>2. ASSUME NEW j \in 1 .. n - 1, client'[j].at # "settled" PROVE client'[j].disposed
    <3>1. j \in 1 .. n /\ j # n
      BY <1>4
    <3>2. CASE j = i
      <4>1. client'[j] = h /\ o.disposed
        BY <1>4, <1>7, <3>1, <3>2
      <4> QED  BY <1>6, <2>2, <4>1
    <3>3. CASE j # i
      BY <1>2, <1>3, <1>4, <2>2, <3>1, <3>3 DEF RosHandles
    <3> QED  BY <3>2, <3>3
  <2> QED  BY <1>1, <1>4, <2>1, <2>2 DEF RosHandles
<1>11. RosRouted' /\ RosLeft'
  BY <1>1, <1>2 DEF RosRouted, RosLeft
<1>12. ASSUME clientMounted, ~late, session = "in" PROVE RosIn'
  <2>1. /\ RosStays /\ RosInfoTold /\ RosRadioTold
        /\ RosInfoShown(m) /\ RosRadioShown(m)
    BY <1>3, <1>5, <1>12 DEF RosInv, RosIn
  <2>2. \A k : RosRecent(k)' <=> RosRecent(k)
    BY <1>1 DEF RosRecent
  <2>3. \A k, x : /\ RosInfoBehind(k, x)' <=> RosInfoBehind(k, x)
                  /\ RosRadioBehind(k, x)' <=> RosRadioBehind(k, x)
    BY <1>1 DEF RosInfoBehind, RosRadioBehind
  <2>4. RosStays' /\ RosInfoTold' /\ RosRadioTold'
    BY <1>1, <2>1, <2>2, <2>3 DEF RosStays, RosInfoTold, RosRadioTold
  <2>5. ASSUME NEW x \in Clients,
               IF RosLive(m) THEN RosComes(m) \/ m.answer.info[x] = info[x]
               ELSE clientForced \/ stores.info[x] = info[x]
        PROVE  LET p == client'[Len(client')] IN
               IF RosLive(p) THEN RosComes(p) \/ p.answer.info[x] = info[x]
               ELSE clientForced' \/ stores'.info[x] = info[x]
    <3>1. CASE i # n
      BY <1>8, <2>5, <3>1
    <3>2. CASE i = n
      <4>1. client'[Len(client')] = h /\ o = m
        BY <1>8, <3>2
      <4>2. h.at = "answered" => h.answer = [info |-> info, radio |-> radio]
        BY <1>6
      <4> QED  BY <1>6, <1>7, <2>5, <4>1, <4>2 DEF RosLive, RosComes
    <3> QED  BY <3>1, <3>2
  <2>6. ASSUME NEW x \in Clients,
               IF RosLive(m) THEN RosComes(m) \/ m.answer.radio[x] = radio[x]
               ELSE clientForced \/ stores.radio[x] = radio[x]
        PROVE  LET p == client'[Len(client')] IN
               IF RosLive(p) THEN RosComes(p) \/ p.answer.radio[x] = radio[x]
               ELSE clientForced' \/ stores'.radio[x] = radio[x]
    <3>1. CASE i # n
      BY <1>8, <2>6, <3>1
    <3>2. CASE i = n
      <4>1. client'[Len(client')] = h /\ o = m
        BY <1>8, <3>2
      <4>2. h.at = "answered" => h.answer = [info |-> info, radio |-> radio]
        BY <1>6
      <4> QED  BY <1>6, <1>7, <2>6, <4>1, <4>2 DEF RosLive, RosComes
    <3> QED  BY <3>1, <3>2
  <2>7. RosInfoShown(client[Len(client)])' /\ RosRadioShown(client[Len(client)])'
    BY <1>1, <2>1, <2>2, <2>3, <2>5, <2>6 DEF RosInfoShown, RosRadioShown
  <2> QED  BY <2>4, <2>7 DEF RosIn
<1>13. ASSUME clientMounted, ~late, session = "gone" PROVE RosGone'
  <2>1. RosGone
    BY <1>13 DEF RosInv
  <2>2. CASE clientWire # <<>>
    BY <1>1, <2>1, <2>2 DEF RosGone
  <2>3. CASE clientWire = <<>>
    <3>1. stores = Roster!Empty /\ (RosLive(m) /\ m.at = "answered" => m.answer = Roster!Empty)
      BY <1>3, <1>5, <2>1, <2>3 DEF RosGone
    <3>2. [info |-> info, radio |-> radio] = Roster!Empty
      BY <1>2, <1>13 DEF RosLeft, Roster!Empty
    <3>3. CASE i # n
      BY <1>1, <1>8, <2>3, <3>1, <3>3 DEF RosGone
    <3>4. CASE i = n
      <4>1. client'[Len(client')] = h /\ o = m
        BY <1>8, <3>4
      <4>2. h.at = "answered" => h.answer = Roster!Empty
        BY <1>6, <3>2
      <4>3. stores' = Roster!Empty
        BY <1>6, <3>1, <4>1 DEF RosLive
      <4> QED  BY <1>1, <2>3, <4>1, <4>2, <4>3 DEF RosGone
    <3> QED  BY <3>3, <3>4
  <2> QED  BY <2>2, <2>3
<1> QED  BY <1>1, <1>9, <1>10, <1>11, <1>12, <1>13 DEF RosInv

\* What an event of route does to the stores.
LEMMA RosApplied ==
  ASSUME RosType, NEW e \in RosChange, Roster!OnUpdate(e)
  PROVE  /\ client' = Roster!Marked(client) /\ stores' \in RosState
         /\ \A x \in Clients :
              /\ stores'.info[x] = IF RosInfo(e, x) THEN RosValue(e) ELSE stores.info[x]
              /\ stores'.radio[x] = IF RosRadio(e, x) THEN e.v ELSE stores.radio[x]
<1>1. /\ client' = Roster!Marked(client) /\ e.guid \in Clients
      /\ stores.info \in [Clients -> Nat] /\ stores.radio \in [Clients -> Nat] /\ stores \in RosState
  BY DEF Roster!OnUpdate, RosType, RosState, RosChange
<1>2. CASE e.type = "client_update"
  <2>1. PICK f : f = [stores.info EXCEPT ![e.guid] = e.v]
    OBVIOUS
  <2>2. e.v \in Nat /\ stores' = [stores EXCEPT !.info = f]
    BY <1>2, <2>1 DEF Roster!OnUpdate, RosChange
  <2>3. /\ f \in [Clients -> Nat]
        /\ \A x \in Clients : f[x] = IF e.guid = x THEN e.v ELSE stores.info[x]
    BY <1>1, <2>1, <2>2
  <2>4. stores' \in RosState /\ stores'.info = f /\ stores'.radio = stores.radio
    BY <1>1, <2>2, <2>3 DEF RosState
  <2> QED  BY <1>1, <1>2, <2>3, <2>4 DEF RosInfo, RosRadio, RosValue
<1>3. CASE e.type = "radio_update"
  <2>1. PICK f : f = [stores.radio EXCEPT ![e.guid] = e.v]
    OBVIOUS
  <2>2. e.v \in Nat /\ stores' = [stores EXCEPT !.radio = f]
    BY <1>3, <2>1 DEF Roster!OnUpdate, RosChange
  <2>3. /\ f \in [Clients -> Nat]
        /\ \A x \in Clients : f[x] = IF e.guid = x THEN e.v ELSE stores.radio[x]
    BY <1>1, <2>1, <2>2
  <2>4. stores' \in RosState /\ stores'.radio = f /\ stores'.info = stores.info
    BY <1>1, <2>2, <2>3 DEF RosState
  <2> QED  BY <1>1, <1>3, <2>3, <2>4 DEF RosInfo, RosRadio
<1>4. CASE e.type = "client_left"
  <2>1. PICK f : f = [stores.info EXCEPT ![e.guid] = 0]
    OBVIOUS
  <2>2. stores' = [stores EXCEPT !.info = f]
    BY <1>4, <2>1 DEF Roster!OnUpdate
  <2>3. /\ f \in [Clients -> Nat]
        /\ \A x \in Clients : f[x] = IF e.guid = x THEN 0 ELSE stores.info[x]
    BY <1>1, <2>1, <2>2
  <2>4. stores' \in RosState /\ stores'.info = f /\ stores'.radio = stores.radio
    BY <1>1, <2>2, <2>3 DEF RosState
  <2> QED  BY <1>1, <1>4, <2>3, <2>4 DEF RosInfo, RosRadio, RosValue
<1> QED  BY <1>2, <1>3, <1>4 DEF RosChange

\* The next event arrives: the window is told, asks again, or forgets.
LEMMA RosDeliverKeeps == RosInv /\ Roster!Deliver => RosInv'
<1> SUFFICES ASSUME RosInv, Roster!Deliver PROVE RosInv'
  OBVIOUS
<1>1. PICK e : /\ clientWire # <<>> /\ clientWire' = Tail(clientWire) /\ e = Head(clientWire)
               /\ Roster!OnUpdate(e) \/ Roster!OnConnected(e) \/ Roster!OnLoggedOut(e)
               /\ session' = session /\ info' = info /\ radio' = radio /\ routed' = routed
               /\ changes' = changes /\ syncs' = syncs /\ late' = late
               /\ clientMounted' = clientMounted /\ clientForced' = clientForced
  BY DEF Roster!Deliver, Roster!roster
<1>2. RosType /\ RosHandles /\ RosRouted /\ RosLeft /\ clientMounted /\ client # <<>>
  BY <1>1 DEF RosInv, RosHandles
<1>3. PICK n : n = Len(clientWire)
  OBVIOUS
<1>4. /\ clientWire' \in Seq(RosEvent) /\ n \in Nat \ {0} /\ Len(clientWire') = n - 1
      /\ e = clientWire[1] /\ e \in RosEvent
      /\ n = 1 <=> clientWire' = <<>>
      /\ \A k \in 1 .. n - 1 : clientWire'[k] = clientWire[k + 1] /\ k + 1 \in 1 .. n
      /\ \A k \in 0 .. n - 1 : RosRecent(k)' <=> RosRecent(k + 1)
      /\ RosRecent(0) <=> RosRecent(1) /\ e.type # "connected"
      /\ \A k \in 0 .. n - 1, x \in Clients :
           /\ RosInfoBehind(k, x)' <=> RosInfoBehind(k + 1, x)
           /\ RosRadioBehind(k, x)' <=> RosRadioBehind(k + 1, x)
      /\ \A x \in Clients :
           /\ RosInfoBehind(0, x) <=> RosInfoBehind(1, x) \/ RosInfo(e, x)
           /\ RosRadioBehind(0, x) <=> RosRadioBehind(1, x) \/ RosRadio(e, x)
  BY <1>1, <1>2, <1>3, RosDelivered
<1>5. PICK m : m = client[Len(client)]
  OBVIOUS
<1>6. /\ client' \in Seq(RosHandle) /\ client' # <<>> /\ stores' \in RosState
      /\ \A i \in 1 .. Len(client') - 1 : client'[i].at # "settled" => client'[i].disposed
      /\ e.type = "connected" => client'[Len(client')] = Roster!Asked
      /\ e.type = "logged_out" => ~RosLive(client'[Len(client')]) /\ stores' = Roster!Empty
      /\ e.type \notin {"connected", "logged_out"} =>
           /\ RosMarked(m, client'[Len(client')])
           /\ \A x \in Clients :
                /\ stores'.info[x] = IF RosInfo(e, x) THEN RosValue(e) ELSE stores.info[x]
                /\ stores'.radio[x] = IF RosRadio(e, x) THEN e.v ELSE stores.radio[x]
  <2>1. /\ client \in Seq(RosHandle) /\ stores \in RosState
        /\ \A i \in 1 .. Len(client) - 1 : client[i].at # "settled" => client[i].disposed
    BY <1>2 DEF RosType, RosHandles
  <2>2. CASE Roster!OnConnected(e)
    <3>1. e.type = "connected" /\ client' = Roster!Hydrated(client) /\ stores' = stores
      BY <2>2 DEF Roster!OnConnected
    <3> QED  BY <2>1, <3>1, RosHandleSteps
  <2>3. CASE Roster!OnLoggedOut(e)
    <3>1. e.type = "logged_out" /\ client' = Roster!GivenUp(client) /\ stores' = Roster!Empty
      BY <2>3 DEF Roster!OnLoggedOut
    <3>2. Roster!Empty \in RosState
      BY DEF Roster!Empty, Roster!NoClients, RosState
    <3> QED  BY <1>2, <2>1, <3>1, <3>2, RosHandleSteps
  <2>4. CASE Roster!OnUpdate(e)
    <3>1. e \in RosChange /\ e.type \notin {"connected", "logged_out"}
      BY <1>4, <2>4 DEF Roster!OnUpdate, RosEvent
    <3>2. /\ client' = Roster!Marked(client) /\ stores' \in RosState
          /\ \A x \in Clients :
               /\ stores'.info[x] = IF RosInfo(e, x) THEN RosValue(e) ELSE stores.info[x]
               /\ stores'.radio[x] = IF RosRadio(e, x) THEN e.v ELSE stores.radio[x]
      BY <1>2, <2>4, <3>1, RosApplied
    <3>3. /\ client' \in Seq(RosHandle) /\ client' # <<>> /\ RosMarked(m, client'[Len(client')])
          /\ \A i \in 1 .. Len(client') - 1 : client'[i].at # "settled" => client'[i].disposed
      BY <1>2, <1>5, <2>1, <3>2, RosHandleSteps
    <3> QED  BY <3>1, <3>2, <3>3
  <2> QED  BY <1>1, <2>2, <2>3, <2>4
<1>7. RosType'
  BY <1>1, <1>2, <1>4, <1>6 DEF RosType
<1>8. RosHandles'
  BY <1>1, <1>2, <1>6 DEF RosHandles
<1>9. RosRouted' /\ RosLeft'
  BY <1>1, <1>2 DEF RosRouted, RosLeft
<1>10. ASSUME ~late, session = "in" PROVE RosIn'
  <2>1. /\ RosStays /\ RosInfoTold /\ RosRadioTold
        /\ RosInfoShown(m) /\ RosRadioShown(m)
    BY <1>2, <1>5, <1>10 DEF RosInv, RosIn
  <2>2. \A k \in 1 .. n - 1 : k \in 0 .. n - 1
    BY <1>4
  <2>3. RosStays'
    BY <1>3, <1>4, <2>1, <2>2 DEF RosStays
  <2>4. RosInfoTold'
    <3> SUFFICES ASSUME NEW k \in 1 .. n - 1, NEW x \in Clients, RosRecent(k)',
                        RosInfo(clientWire'[k], x), ~RosInfoBehind(k, x)'
                 PROVE  RosValue(clientWire'[k]) = info[x]
      BY <1>1, <1>4 DEF RosInfoTold
    <3> QED  BY <1>3, <1>4, <2>1, <2>2 DEF RosInfoTold
  <2>5. RosRadioTold'
    <3> SUFFICES ASSUME NEW k \in 1 .. n - 1, NEW x \in Clients, RosRecent(k)',
                        RosRadio(clientWire'[k], x), ~RosRadioBehind(k, x)'
                 PROVE  radio[x] \in {clientWire'[k].v, 0}
      BY <1>1, <1>4 DEF RosRadioTold
    <3> QED  BY <1>3, <1>4, <2>1, <2>2 DEF RosRadioTold
  <2>6. PICK p : p = client'[Len(client')]
    OBVIOUS
  <2>7. /\ RosRecent(0)' <=> RosRecent(1)
        /\ \A x \in Clients : (RosInfoBehind(0, x)' <=> RosInfoBehind(1, x))
                              /\ (RosRadioBehind(0, x)' <=> RosRadioBehind(1, x))
        /\ 1 \in 1 .. n
    <3>1. 0 \in 0 .. n - 1 /\ 0 + 1 = 1 /\ 1 \in 1 .. n
      BY <1>4
    <3>2. /\ RosRecent(0)' <=> RosRecent(0 + 1)
          /\ \A x \in Clients : (RosInfoBehind(0, x)' <=> RosInfoBehind(0 + 1, x))
                                /\ (RosRadioBehind(0, x)' <=> RosRadioBehind(0 + 1, x))
      BY <1>4, <3>1
    <3> QED  BY <3>1, <3>2
  <2>8. ASSUME RosRecent(1), RosLive(p) PROVE RosComes(p)
    <3>1. CASE e.type = "connected"
      BY <1>6, <2>6, <3>1 DEF RosComes, Roster!Asked
    <3>2. CASE e.type = "logged_out"
      BY <1>6, <2>6, <2>8, <3>2
    <3>3. CASE e.type \notin {"connected", "logged_out"}
      BY <1>6, <2>6, <2>8, <3>3 DEF RosComes, RosMarked
    <3> QED  BY <3>1, <3>2, <3>3
  <2>9. ASSUME RosRecent(1), ~RosLive(p)
        PROVE  ~RosLive(m) /\ e.type \notin {"connected", "logged_out"} /\ RosRecent(0)
    <3>1. e.type # "connected"
      BY <1>6, <2>6, <2>9 DEF RosLive, Roster!Asked
    <3>2. e.type # "logged_out"
      BY <1>3, <1>4, <2>1, <2>7, <2>9 DEF RosStays
    <3> QED  BY <1>4, <1>6, <2>6, <2>9, <3>1, <3>2 DEF RosMarked
  <2>10. RosInfoShown(client[Len(client)])'
    <3> SUFFICES ASSUME RosRecent(1), NEW x \in Clients, ~RosInfoBehind(1, x), ~RosLive(p)
                 PROVE  clientForced \/ stores'.info[x] = info[x]
      BY <1>1, <2>6, <2>7, <2>8 DEF RosInfoShown
    <3>1. stores'.info[x] = IF RosInfo(e, x) THEN RosValue(e) ELSE stores.info[x]
      BY <1>6, <2>9
    <3>2. CASE RosInfo(e, x)
      BY <1>3, <1>4, <2>1, <2>7, <3>1, <3>2 DEF RosInfoTold
    <3>3. CASE ~RosInfo(e, x)
      <4>1. ~RosInfoBehind(0, x) /\ RosRecent(0) /\ ~RosLive(m)
        BY <1>4, <2>9, <3>3
      <4> QED  BY <2>1, <3>1, <3>3, <4>1 DEF RosInfoShown
    <3> QED  BY <3>2, <3>3
  <2>11. RosRadioShown(client[Len(client)])'
    <3> SUFFICES ASSUME RosRecent(1), NEW x \in Clients, ~RosRadioBehind(1, x), radio[x] # 0,
                        ~RosLive(p)
                 PROVE  clientForced \/ stores'.radio[x] = radio[x]
      BY <1>1, <2>6, <2>7, <2>8 DEF RosRadioShown
    <3>1. stores'.radio[x] = IF RosRadio(e, x) THEN e.v ELSE stores.radio[x]
      BY <1>6, <2>9
    <3>2. CASE RosRadio(e, x)
      BY <1>3, <1>4, <2>1, <2>7, <3>1, <3>2 DEF RosRadioTold
    <3>3. CASE ~RosRadio(e, x)
      <4>1. ~RosRadioBehind(0, x) /\ RosRecent(0) /\ ~RosLive(m)
        BY <1>4, <2>9, <3>3
      <4> QED  BY <2>1, <3>1, <3>3, <4>1 DEF RosRadioShown
    <3> QED  BY <3>2, <3>3
  <2> QED  BY <2>3, <2>4, <2>5, <2>10, <2>11 DEF RosIn
<1>11. ASSUME ~late, session = "gone" PROVE RosGone'
  <2>1. clientWire[n].type = "logged_out"
    BY <1>1, <1>2, <1>3, <1>11 DEF RosInv, RosGone
  <2>2. CASE n = 1
    <3>1. clientWire' = <<>> /\ e.type = "logged_out"
      BY <1>4, <2>1, <2>2
    <3> QED  BY <1>6, <3>1 DEF RosGone
  <2>3. CASE n # 1
    <3>1. n - 1 \in 1 .. n - 1 /\ (n - 1) + 1 = n
      BY <1>4, <2>3
    <3>2. clientWire'[n - 1] = clientWire[n] /\ clientWire' # <<>>
      BY <1>4, <2>3, <3>1
    <3> QED  BY <1>4, <2>1, <3>2 DEF RosGone
  <2> QED  BY <2>2, <2>3
<1> QED  BY <1>1, <1>7, <1>8, <1>9, <1>10, <1>11 DEF RosInv

\* Every step of the session, of route and of the window keeps the invariant.
LEMMA RosStep == RosInv /\ [Roster!Next]_rosterVars => RosInv'
<1> SUFFICES ASSUME RosInv, [Roster!Next]_rosterVars PROVE RosInv'
  OBVIOUS
<1>1. CASE UNCHANGED rosterVars
  <2>1. /\ session' = session /\ info' = info /\ radio' = radio /\ routed' = routed
        /\ clientWire' = clientWire /\ clientMounted' = clientMounted /\ client' = client
        /\ stores' = stores /\ changes' = changes /\ syncs' = syncs /\ late' = late
        /\ clientForced' = clientForced
    BY <1>1 DEF rosterVars
  <2>2. RosType' = RosType /\ RosHandles' = RosHandles
    BY <2>1 DEF RosType, RosHandles
  <2>3. RosRouted' = RosRouted /\ RosLeft' = RosLeft
    BY <2>1 DEF RosRouted, RosLeft
  <2>4. RosIn' = RosIn
    BY <2>1 DEF RosIn, RosStays, RosInfoTold, RosRadioTold, RosInfoShown, RosRadioShown,
       RosRecent, RosInfoBehind, RosRadioBehind
  <2>5. RosGone' = RosGone
    BY <2>1 DEF RosGone
  <2> QED  BY <2>1, <2>2, <2>3, <2>4, <2>5 DEF RosInv
<1>2. CASE Roster!Hydrates \/ Roster!GivesUp \/ Roster!Resets
  BY <1>2, RosChangesKeeps
<1>3. CASE Roster!Connected \/ Roster!LoggedOut \/ Roster!Emits
  BY <1>3, RosConnectedKeeps, RosLoggedOutKeeps, RosEmitsKeeps
<1>4. ASSUME NEW g \in Clients,
             Roster!ClientUpdate(g) \/ Roster!RadioUpdate(g) \/ Roster!ClientLeft(g)
      PROVE  RosInv'
  BY <1>4, RosUpdatesKeeps
<1>5. CASE Roster!Mounts \/ Roster!Deliver
  BY <1>5, RosMountsKeeps, RosDeliverKeeps
<1>6. ASSUME NEW i \in DOMAIN client, Roster!GetClientState(i) \/ Roster!ClientArrives(i)
      PROVE  RosInv'
  BY <1>6, RosFetchKeeps
<1> QED  BY <1>1, <1>2, <1>3, <1>4, <1>5, <1>6 DEF Roster!Next

\* At rest the stores hold what Go holds, and nothing after a logout.
LEMMA RosHolds == RosInv => Roster!RosterIsMirrored
<1> SUFFICES ASSUME RosInv, Roster!AtRest, ~late
             PROVE  /\ session = "in" /\ ~clientForced =>
                         /\ stores.info = info
                         /\ \A g \in Clients : radio[g] # 0 => stores.radio[g] = radio[g]
                    /\ session = "gone" =>
                         stores.info = Roster!NoClients /\ stores.radio = Roster!NoClients
  BY DEF Roster!RosterIsMirrored, Roster!RosterIsGo, Roster!NothingAfterLogout
<1>1. /\ clientMounted /\ clientWire = <<>> /\ routed = Roster!Nothing /\ RosType
      /\ client # <<>>
  BY DEF Roster!AtRest, RosInv, RosHandles
<1>2. Len(client) \in DOMAIN client
  BY <1>1, LenProperties, EmptySeq DEF RosType
<1>3. ~RosLive(client[Len(client)])
  BY <1>2 DEF Roster!AtRest, Roster!InFlight, RosLive
<1>4. ASSUME session = "in", ~clientForced
      PROVE  /\ stores.info = info
             /\ \A g \in Clients : radio[g] # 0 => stores.radio[g] = radio[g]
  <2>1. RosInfoShown(client[Len(client)]) /\ RosRadioShown(client[Len(client)])
    BY <1>1, <1>4 DEF RosInv, RosIn
  <2>2. \A j \in 0 + 1 .. Len(clientWire) : FALSE
    BY <1>1
  <2>3. RosRecent(0) /\ \A g \in Clients : ~RosInfoBehind(0, g) /\ ~RosRadioBehind(0, g)
    BY <1>1, <2>2 DEF RosRecent, RosInfoBehind, RosRadioBehind, RosInfo, RosRadio, Roster!Nothing
  <2>4. \A g \in Clients : stores.info[g] = info[g]
    BY <1>3, <1>4, <2>1, <2>3 DEF RosInfoShown
  <2>5. \A g \in Clients : radio[g] # 0 => stores.radio[g] = radio[g]
    BY <1>3, <1>4, <2>1, <2>3 DEF RosRadioShown
  <2>6. stores.info \in [Clients -> Nat] /\ info \in [Clients -> Nat]
    BY <1>1 DEF RosType, RosState
  <2> QED  BY <2>4, <2>5, <2>6
<1>5. ASSUME session = "gone"
      PROVE  stores.info = Roster!NoClients /\ stores.radio = Roster!NoClients
  BY <1>1, <1>5 DEF RosInv, RosGone, Roster!Empty
<1> QED  BY <1>4, <1>5

-----------------------------------------------------------------------------
(* The highlighted radio.                                                  *)

SelHandle ==
  [at : {"asked", "settled"}, dirty : BOOLEAN, disposed : BOOLEAN, attempt : Nat]
  \cup [at : {"answered"}, answer : Nat, dirty : BOOLEAN, disposed : BOOLEAN, attempt : Nat]

SelEvent == [type : {"connected", "logged_out", "profile"}] \cup [type : {"select"}, radio : Nat]

SelType ==
  /\ selected \in Nat /\ told \in Nat /\ highlight \in Nat
  /\ chosen \in [Selection!Selectors -> Nat]
  /\ voice \in Seq(SelHandle) /\ radioWire \in Seq(SelEvent)
  /\ radioMounted \in BOOLEAN /\ connected \in BOOLEAN

\* Only the last hydrate can still reach the store, and a window that is not
\* mounted has none.
SelHandles ==
  /\ \A i \in 1 .. Len(voice) - 1 : voice[i].at # "settled" => voice[i].disposed
  /\ IF radioMounted THEN voice # <<>> ELSE voice = <<>> /\ radioWire = <<>>

\* Whoever changed the selection last has told of it.
SelTold == (\A t \in Selection!Selectors : chosen[t] = 0) /\ told \in {0, selected}

\* An answer that comes will be shown.
SelLive(h) == h.at # "settled" /\ ~h.dirty /\ ~h.disposed

\* The last event on its way makes the window ask again, or tells it.
SelTells(e) ==
  \/ e.type \in {"connected", "profile"}
  \/ e.type = "select" /\ e.radio = selected

SelShown ==
  IF SelLive(voice[Len(voice)])
    THEN voice[Len(voice)].at = "asked" \/ voice[Len(voice)].answer = selected
    ELSE highlight = selected

SelConverges ==
  radioMounted /\ connected /\ SelTold =>
    IF radioWire # <<>> THEN SelTells(radioWire[Len(radioWire)]) ELSE SelShown

SelInv == SelType /\ SelHandles /\ SelConverges

\* What the selectors choose is a radio, and a hotkey is not the profile.
LEMMA SelRadios == Radios \subseteq Nat \ {0} /\ profile \notin Hotkeys
  BY SelectionBounds DEF Selection!SelectionAssumption

\* What a hydrate is after each of its operations.
LEMMA SelOperations ==
  ASSUME NEW h \in SelHandle
  PROVE  /\ Selection!Pushed(h) \in SelHandle /\ ~SelLive(Selection!Pushed(h))
         /\ Selection!Disposed(h) \in SelHandle /\ Selection!Disposed(h).disposed
         /\ Selection!Asked \in SelHandle /\ SelLive(Selection!Asked)
         /\ Selection!Asked.at = "asked"
         /\ Selection!Settled \in SelHandle /\ Selection!Settled.at = "settled"
         /\ \A v \in Nat : /\ Selection!Answered(h, v) \in SelHandle
                           /\ Selection!Answered(h, v).at = "answered"
                           /\ Selection!Answered(h, v).answer = v
                           /\ Selection!Answered(h, v).disposed = h.disposed
                           /\ Selection!Answered(h, v).dirty = h.dirty
         /\ h.at = "answered" => h.answer \in Nat
<1>1. CASE h.at = "settled"
  BY <1>1 DEF SelHandle, SelLive, Selection!Pushed, Selection!InFlight, Selection!Disposed,
     Selection!Asked, Selection!Settled, Selection!Answered
<1>2. CASE h.at # "settled"
  BY <1>2 DEF SelHandle, SelLive, Selection!Pushed, Selection!InFlight, Selection!Disposed,
     Selection!Asked, Selection!Settled, Selection!Answered
<1> QED  BY <1>1, <1>2

\* What the hydrates are after each operation on the handle.
LEMMA SelHandleSteps ==
  ASSUME voice \in Seq(SelHandle), \A i \in 1 .. Len(voice) - 1 : voice[i].at # "settled" => voice[i].disposed
  PROVE  /\ Selection!Hydrated(voice) \in Seq(SelHandle)
         /\ Selection!Hydrated(voice) # <<>>
         /\ Selection!Hydrated(voice)[Len(Selection!Hydrated(voice))] = Selection!Asked
         /\ \A i \in 1 .. Len(Selection!Hydrated(voice)) - 1 :
              Selection!Hydrated(voice)[i].at # "settled" => Selection!Hydrated(voice)[i].disposed
         /\ voice # <<>> =>
              /\ Selection!Marked(voice) \in Seq(SelHandle) /\ Selection!Marked(voice) # <<>>
              /\ ~SelLive(Selection!Marked(voice)[Len(Selection!Marked(voice))])
              /\ \A i \in 1 .. Len(Selection!Marked(voice)) - 1 :
                   Selection!Marked(voice)[i].at # "settled" => Selection!Marked(voice)[i].disposed
         /\ voice # <<>> =>
              /\ Selection!GivenUp(voice) \in Seq(SelHandle) /\ Selection!GivenUp(voice) # <<>>
              /\ \A i \in 1 .. Len(Selection!GivenUp(voice)) - 1 :
                   Selection!GivenUp(voice)[i].at # "settled" => Selection!GivenUp(voice)[i].disposed
<1>1. PICK n : n = Len(voice) /\ n \in Nat
  BY LenProperties
<1>2. voice # <<>> => n \in 1 .. n /\ voice[n] \in SelHandle
  BY <1>1, LenProperties, ElementOfSeq, EmptySeq
<1>3. /\ Selection!GivenUp(voice) \in Seq(SelHandle) /\ Len(Selection!GivenUp(voice)) = n
      /\ \A i \in 1 .. n :
           Selection!GivenUp(voice)[i].at # "settled" => Selection!GivenUp(voice)[i].disposed
  <2>1. CASE voice = <<>>
    BY <1>1, <2>1 DEF Selection!GivenUp
  <2>2. CASE voice # <<>>
    <3>1. Selection!GivenUp(voice) = [voice EXCEPT ![n] = Selection!Disposed(voice[n])]
      BY <1>1, <2>2 DEF Selection!GivenUp
    <3>2. Selection!Disposed(voice[n]) \in SelHandle /\ Selection!Disposed(voice[n]).disposed
      BY <1>2, <2>2, SelOperations
    <3> QED  BY <1>1, <1>2, <2>2, <3>1, <3>2, ExceptSeq
  <2> QED  BY <2>1, <2>2
<1>4. /\ Selection!Hydrated(voice) \in Seq(SelHandle) /\ Len(Selection!Hydrated(voice)) = n + 1
      /\ Selection!Hydrated(voice)[n + 1] = Selection!Asked
      /\ \A i \in 1 .. n : Selection!Hydrated(voice)[i] = Selection!GivenUp(voice)[i]
  <2>1. Selection!Asked \in SelHandle
    BY DEF SelHandle, Selection!Asked
  <2> QED  BY <1>3, <2>1, AppendProperties DEF Selection!Hydrated
<1>5. ASSUME voice # <<>>
      PROVE  /\ Selection!Marked(voice) \in Seq(SelHandle) /\ Len(Selection!Marked(voice)) = n
             /\ ~SelLive(Selection!Marked(voice)[n])
             /\ \A i \in 1 .. n - 1 : Selection!Marked(voice)[i] = voice[i]
  <2>1. Selection!Marked(voice) = [voice EXCEPT ![n] = Selection!Pushed(voice[n])]
    BY <1>1, <1>5 DEF Selection!Marked
  <2>2. Selection!Pushed(voice[n]) \in SelHandle /\ ~SelLive(Selection!Pushed(voice[n]))
    BY <1>2, <1>5, SelOperations
  <2> QED  BY <1>1, <1>2, <1>5, <2>1, <2>2, ExceptSeq
<1>6. voice # <<>> => n > 0
  BY <1>2
<1>7. Selection!Hydrated(voice) # <<>>
  BY <1>1, <1>4
<1>8. voice # <<>> => Selection!Marked(voice) # <<>> /\ Selection!GivenUp(voice) # <<>>
  BY <1>1, <1>3, <1>5, <1>6
<1> QED  BY <1>1, <1>3, <1>4, <1>5, <1>6, <1>7, <1>8

\* A window of an application that has just started has shown nothing.
LEMMA SelInitial == Selection!Init => SelInv
<1> SUFFICES ASSUME Selection!Init PROVE SelInv
  OBVIOUS
<1>1. /\ voice = <<>> /\ radioWire = <<>> /\ radioMounted = FALSE /\ connected = FALSE
      /\ selected \in Nat /\ told = 0 /\ highlight = 0 /\ chosen = [t \in Selection!Selectors |-> 0]
  BY SelRadios DEF Selection!Init
<1>2. /\ <<>> \in Seq(SelHandle) /\ <<>> \in Seq(SelEvent)
      /\ chosen \in [Selection!Selectors -> Nat]
  BY <1>1, EmptySeq
<1>3. SelType
  BY <1>1, <1>2 DEF SelType
<1>4. SelHandles /\ SelConverges
  BY <1>1 DEF SelHandles, SelConverges
<1> QED  BY <1>3, <1>4 DEF SelInv

\* The events that the window is told of are of their types.
LEMMA SelEvents ==
  /\ [type |-> "connected"] \in SelEvent /\ [type |-> "logged_out"] \in SelEvent
  /\ [type |-> "profile"] \in SelEvent
  /\ \A n \in Nat : [type |-> "select", radio |-> n] \in SelEvent
BY DEF SelEvent

\* Emit puts the event behind what is on its way to a window that is mounted.
LEMMA SelEmits ==
  ASSUME SelType, SelHandles, NEW e \in SelEvent, Selection!Emit(e), UNCHANGED radioMounted,
         UNCHANGED voice
  PROVE  /\ radioWire' \in Seq(SelEvent) /\ SelHandles'
         /\ radioMounted => radioWire' # <<>> /\ radioWire'[Len(radioWire')] = e
<1>1. CASE radioMounted
  <2>1. radioWire' = Append(radioWire, e)
    BY <1>1 DEF Selection!Emit
  <2> QED  BY <1>1, <2>1, AppendProperties DEF SelType, SelHandles
<1>2. CASE ~radioMounted
  BY <1>2 DEF Selection!Emit, SelType, SelHandles
<1> QED  BY <1>1, <1>2

\* A session that begins or ends, or a change of the selection that is told.
LEMMA SelGoKeeps ==
  ASSUME SelInv,
         \/ Selection!Connects \/ Selection!LogsOut
         \/ \E t \in Selection!Selectors : Selection!Tells(t)
  PROVE  SelInv'
<1>1. UNCHANGED <<radioMounted, voice, highlight, selected>>
  BY DEF Selection!Connects, Selection!LogsOut, Selection!Tells, Selection!window
<1>2. SelType /\ SelHandles
  BY DEF SelInv
<1>3. CASE Selection!Connects
  <2>1. UNCHANGED <<chosen, told>> /\ Selection!Emit([type |-> "connected"]) /\ connected' = TRUE
    BY <1>3 DEF Selection!Connects
  <2>2. /\ radioWire' \in Seq(SelEvent) /\ SelHandles'
        /\ radioMounted =>
             radioWire' # <<>> /\ radioWire'[Len(radioWire')] = [type |-> "connected"]
    BY <1>1, <1>2, <2>1, SelEvents, SelEmits
  <2>3. SelType'
    BY <1>1, <1>2, <2>1, <2>2 DEF SelType
  <2>4. SelConverges'
    BY <1>1, <2>2 DEF SelConverges, SelTells
  <2> QED  BY <2>2, <2>3, <2>4 DEF SelInv
<1>4. CASE Selection!LogsOut
  <2>1. UNCHANGED <<chosen, told>> /\ Selection!Emit([type |-> "logged_out"]) /\ connected' = FALSE
    BY <1>4 DEF Selection!LogsOut
  <2>2. radioWire' \in Seq(SelEvent) /\ SelHandles'
    BY <1>1, <1>2, <2>1, SelEvents, SelEmits
  <2>3. SelType'
    BY <1>1, <1>2, <2>1, <2>2 DEF SelType
  <2> QED  BY <2>1, <2>2, <2>3 DEF SelInv, SelConverges
<1>5. CASE \E t \in Selection!Selectors : Selection!Tells(t)
  <2>1. PICK t \in Selection!Selectors : Selection!Tells(t)
    BY <1>5
  <2>2. UNCHANGED connected /\ chosen' = [chosen EXCEPT ![t] = 0] /\ chosen[t] \in Nat
    BY <1>2, <2>1 DEF Selection!Tells, SelType
  <2>3. PICK e \in SelEvent :
          /\ Selection!Emit(e) /\ told' \in Nat
          /\ told' = 0 => e.type = "profile"
          /\ told' # 0 => e.type = "select" /\ e.radio = told'
    <3>1. CASE t = profile
      <4>1. Selection!Emit([type |-> "profile"]) /\ told' = 0
        BY <2>1, <3>1 DEF Selection!Tells
      <4> QED  BY <4>1, SelEvents
    <3>2. CASE t # profile
      <4>1. /\ Selection!Emit([type |-> "select", radio |-> chosen[t]])
            /\ told' = chosen[t] /\ chosen[t] # 0
        BY <2>1, <3>2 DEF Selection!Tells
      <4>2. [type |-> "select", radio |-> chosen[t]] \in SelEvent
        BY <2>2, SelEvents
      <4> QED  BY <2>2, <4>1, <4>2
    <3> QED  BY <3>1, <3>2
  <2>4. /\ radioWire' \in Seq(SelEvent) /\ SelHandles'
        /\ radioMounted => radioWire' # <<>> /\ radioWire'[Len(radioWire')] = e
    BY <1>1, <1>2, <2>3, SelEmits
  <2>5. SelType'
    BY <1>1, <1>2, <2>2, <2>3, <2>4 DEF SelType
  <2>6. SelConverges'
    BY <1>1, <2>3, <2>4 DEF SelConverges, SelTells, SelTold
  <2> QED  BY <2>4, <2>5, <2>6 DEF SelInv
<1> QED  BY <1>3, <1>4, <1>5

\* A selection that has not been told of yet.
LEMMA SelSelectsKeeps ==
  ASSUME SelInv, NEW t \in Selection!Selectors, NEW r \in Radios, Selection!Selects(t, r)
  PROVE  SelInv'
<1>1. /\ UNCHANGED <<connected, told, radioWire, radioMounted, voice, highlight>>
      /\ selected' = r /\ chosen' = [chosen EXCEPT ![t] = r] /\ r \in Nat \ {0}
  BY SelRadios DEF Selection!Selects, Selection!window
<1>2. SelType'
  BY <1>1 DEF SelInv, SelType
<1>3. SelHandles'
  BY <1>1 DEF SelInv, SelHandles
<1>4. ~SelTold'
  BY <1>1 DEF SelInv, SelType, SelTold
<1> QED  BY <1>2, <1>3, <1>4 DEF SelInv, SelConverges

\* A window that mounts asks.
LEMMA SelMountsKeeps ==
  ASSUME SelInv, Selection!Mounts
  PROVE  SelInv'
<1>1. /\ ~radioMounted /\ radioMounted' = TRUE /\ voice' = Selection!Hydrated(voice)
      /\ UNCHANGED <<selected, chosen, connected, told, radioWire, highlight>>
  BY DEF Selection!Mounts, Selection!go
<1>2. voice = <<>> /\ radioWire = <<>>
  BY <1>1 DEF SelInv, SelHandles
<1>3. /\ voice' \in Seq(SelHandle) /\ voice' # <<>> /\ voice'[Len(voice')] = Selection!Asked
      /\ \A i \in 1 .. Len(voice') - 1 : voice'[i].at # "settled" => voice'[i].disposed
  BY <1>1, SelHandleSteps DEF SelInv, SelType, SelHandles
<1>4. SelType'
  BY <1>1, <1>3 DEF SelInv, SelType
<1>5. SelHandles'
  BY <1>1, <1>3 DEF SelHandles
<1>6. SelConverges'
  BY <1>1, <1>2, <1>3 DEF SelConverges, SelShown, SelLive, Selection!Asked
<1> QED  BY <1>4, <1>5, <1>6 DEF SelInv

\* An answer is what Go has selected then, and the last handle shows it unless
\* it was overtaken.
LEMMA SelFetchKeeps ==
  ASSUME SelInv, NEW i \in DOMAIN voice,
         Selection!VoiceState(i) \/ Selection!AnswerArrives(i)
  PROVE  SelInv'
<1>1. /\ UNCHANGED <<selected, chosen, connected, told, radioWire, radioMounted>>
      /\ SelType /\ SelHandles /\ voice \in Seq(SelHandle)
  BY DEF Selection!VoiceState, Selection!AnswerArrives, Selection!go, SelInv, SelType
<1>2. PICK n : n = Len(voice) /\ n \in Nat
  BY <1>1, LenProperties
<1>3. i \in 1 .. n /\ voice[i] \in SelHandle /\ n \in 1 .. n /\ voice[n] \in SelHandle /\ voice # <<>>
  BY <1>1, <1>2, LenProperties, ElementOfSeq, EmptySeq
<1>4. PICK h \in SelHandle :
        /\ voice' = [voice EXCEPT ![i] = h]
        /\ \/ /\ voice[i].at = "asked" /\ h = Selection!Answered(voice[i], selected)
              /\ highlight' = highlight
           \/ /\ voice[i].at = "answered" /\ h = Selection!Settled
              /\ highlight' = IF Selection!AppliesSnapshot(voice[i]) THEN voice[i].answer ELSE highlight
  <2>1. CASE Selection!VoiceState(i)
    <3>1. voice' = [voice EXCEPT ![i] = Selection!Answered(voice[i], selected)]
      BY <2>1 DEF Selection!VoiceState
    <3>2. Selection!Answered(voice[i], selected) \in SelHandle
      BY <1>1, <1>3, SelOperations DEF SelType
    <3> QED  BY <2>1, <3>1, <3>2 DEF Selection!VoiceState
  <2>2. CASE Selection!AnswerArrives(i)
    <3>1. Selection!Settled \in SelHandle
      BY <1>3, SelOperations
    <3> QED  BY <2>2, <3>1 DEF Selection!AnswerArrives
  <2> QED  BY <2>1, <2>2
<1>5. /\ voice' \in Seq(SelHandle) /\ Len(voice') = n
      /\ \A j \in 1 .. n : voice'[j] = IF j = i THEN h ELSE voice[j]
  BY <1>1, <1>2, <1>3, <1>4, ExceptSeq
<1>6. /\ h.at # "settled" =>
           /\ voice[i].at = "asked" /\ h.at = "answered" /\ h.answer = selected
           /\ h.disposed = voice[i].disposed /\ h.dirty = voice[i].dirty
           /\ highlight' = highlight
      /\ h.at = "settled" =>
           /\ voice[i].at = "answered" /\ voice[i].answer \in Nat
           /\ highlight' = IF Selection!AppliesSnapshot(voice[i]) THEN voice[i].answer ELSE highlight
      /\ voice[i].at # "settled"
  <2>1. CASE voice[i].at = "asked"
    <3>1. h = Selection!Answered(voice[i], selected) /\ highlight' = highlight
      BY <1>4, <2>1
    <3>2. /\ h.at = "answered" /\ h.answer = selected
          /\ h.disposed = voice[i].disposed /\ h.dirty = voice[i].dirty
      <4>1. selected \in Nat
        BY <1>1 DEF SelType
      <4>2. PICK o \in SelHandle : o = voice[i]
        BY <1>3
      <4>3. /\ Selection!Answered(o, selected).at = "answered"
            /\ Selection!Answered(o, selected).answer = selected
            /\ Selection!Answered(o, selected).disposed = o.disposed
            /\ Selection!Answered(o, selected).dirty = o.dirty
        BY <4>1, SelOperations
      <4> QED  BY <3>1, <4>2, <4>3
    <3> QED  BY <2>1, <3>1, <3>2
  <2>2. CASE voice[i].at = "answered"
    <3>1. /\ h = Selection!Settled
          /\ highlight' = IF Selection!AppliesSnapshot(voice[i]) THEN voice[i].answer ELSE highlight
      BY <1>4, <2>2
    <3>2. h.at = "settled" /\ voice[i].answer \in Nat
      BY <1>3, <2>2, <3>1, SelOperations
    <3> QED  BY <2>2, <3>1, <3>2
  <2> QED  BY <1>4, <2>1, <2>2
<1>7. voice' # <<>>
  BY <1>3, <1>5
<1>8. highlight' \in Nat
  BY <1>1, <1>4, <1>6 DEF SelType
<1>9. SelType'
  BY <1>1, <1>5, <1>8 DEF SelType
<1>10. SelHandles'
  BY <1>1, <1>2, <1>3, <1>5, <1>6, <1>7 DEF SelHandles
<1>11. SelShown => SelShown'
  <2>1. CASE i = n
    <3>1. voice'[n] = h
      BY <1>3, <1>5, <2>1
    <3>2. CASE h.at # "settled"
      <4>1. voice[n].at = "asked" /\ h.answer = selected /\ highlight' = highlight
        BY <1>6, <2>1, <3>2
      <4>2. SelLive(h) <=> SelLive(voice[n])
        BY <1>6, <2>1, <3>2 DEF SelLive
      <4> QED  BY <1>1, <1>2, <1>5, <3>1, <4>1, <4>2 DEF SelShown
    <3>3. CASE h.at = "settled"
      <4>1. voice[n].at = "answered" /\ ~SelLive(h)
        BY <1>6, <2>1, <3>3 DEF SelLive
      <4>2. SelLive(voice[n]) <=> Selection!AppliesSnapshot(voice[n])
        BY <4>1 DEF SelLive, Selection!AppliesSnapshot
      <4>3. highlight' = IF SelLive(voice[n]) THEN voice[n].answer ELSE highlight
        BY <1>6, <2>1, <3>3, <4>2
      <4> QED  BY <1>1, <1>2, <1>5, <3>1, <4>1, <4>3 DEF SelShown
    <3> QED  BY <3>2, <3>3
  <2>2. CASE i # n
    <3>1. voice[i].disposed /\ i \in 1 .. n - 1
      BY <1>1, <1>2, <1>3, <1>6, <2>2 DEF SelHandles
    <3>2. highlight' = highlight
      BY <1>4, <3>1 DEF Selection!AppliesSnapshot
    <3> QED  BY <1>1, <1>2, <1>3, <1>5, <2>2, <3>2 DEF SelShown
  <2> QED  BY <2>1, <2>2
<1> QED  BY <1>1, <1>9, <1>10, <1>11 DEF SelInv, SelConverges, SelTells, SelTold

\* An event that arrives is the next one; the last one leaves the window told,
\* or asking.
LEMMA SelDeliverKeeps ==
  ASSUME SelInv, Selection!Deliver
  PROVE  SelInv'
<1>1. PICK e : /\ e = Head(radioWire) /\ radioWire # <<>> /\ radioWire' = Tail(radioWire)
               /\ \/ Selection!OnConnected(e) \/ Selection!OnLoggedOut(e)
                  \/ Selection!OnSelect(e) \/ Selection!OnProfile(e)
               /\ UNCHANGED <<selected, chosen, connected, told, radioMounted>>
  BY DEF Selection!Deliver, Selection!go
<1>2. SelType /\ SelHandles /\ radioMounted /\ voice # <<>>
  BY <1>1 DEF SelInv, SelHandles
<1>3. PICK n : n = Len(radioWire) /\ n \in Nat
  BY <1>2, LenProperties DEF SelType
<1>4. /\ e \in SelEvent /\ radioWire' \in Seq(SelEvent) /\ Len(radioWire') = n - 1 /\ n \in Nat \ {0}
      /\ \A i \in 1 .. n - 1 : radioWire'[i] = radioWire[i + 1]
      /\ e = radioWire[1]
  BY <1>1, <1>2, <1>3, HeadTailProperties, EmptySeq, LenProperties DEF SelType
<1>5. /\ voice' \in Seq(SelHandle) /\ voice' # <<>> /\ highlight' \in Nat
      /\ \A i \in 1 .. Len(voice') - 1 : voice'[i].at # "settled" => voice'[i].disposed
      /\ e.type \in {"connected", "profile"} => voice'[Len(voice')] = Selection!Asked
      /\ e.type = "select" => ~SelLive(voice'[Len(voice')]) /\ highlight' = e.radio
  <2>1. voice \in Seq(SelHandle) /\ highlight \in Nat
        /\ \A i \in 1 .. Len(voice) - 1 : voice[i].at # "settled" => voice[i].disposed
    BY <1>2 DEF SelType, SelHandles
  <2>2. CASE e.type \in {"connected", "profile"}
    <3>1. voice' = Selection!Hydrated(voice) /\ highlight' = highlight
      BY <1>1, <2>2 DEF Selection!OnConnected, Selection!OnLoggedOut, Selection!OnSelect,
         Selection!OnProfile
    <3> QED  BY <2>1, <2>2, <3>1, SelHandleSteps
  <2>3. CASE e.type = "logged_out"
    <3>1. voice' = Selection!GivenUp(voice) /\ highlight' = 0
      BY <1>1, <2>3 DEF Selection!OnConnected, Selection!OnLoggedOut, Selection!OnSelect,
         Selection!OnProfile
    <3> QED  BY <1>2, <2>1, <2>3, <3>1, SelHandleSteps
  <2>4. CASE e.type = "select"
    <3>1. voice' = Selection!Marked(voice) /\ highlight' = e.radio /\ e.radio \in Nat
      BY <1>1, <1>4, <2>4 DEF Selection!OnConnected, Selection!OnLoggedOut, Selection!OnSelect,
         Selection!OnProfile, SelEvent
    <3> QED  BY <1>2, <2>1, <2>4, <3>1, SelHandleSteps
  <2> QED  BY <1>4, <2>2, <2>3, <2>4 DEF SelEvent
<1>6. SelType'
  BY <1>1, <1>2, <1>4, <1>5 DEF SelType
<1>7. SelHandles'
  BY <1>1, <1>2, <1>5 DEF SelHandles
<1>8. SelConverges'
  <2> SUFFICES ASSUME radioMounted', connected', SelTold'
               PROVE  IF radioWire' # <<>> THEN SelTells(radioWire[Len(radioWire)])' ELSE SelShown'
    BY DEF SelConverges
  <2>1. SelTells(radioWire[n])
    BY <1>1, <1>3 DEF SelInv, SelConverges, SelTold
  <2>2. CASE n > 1
    <3>1. n - 1 \in 1 .. n - 1 /\ radioWire'[n - 1] = radioWire[n]
      BY <1>4, <2>2
    <3>2. radioWire'[Len(radioWire')] = radioWire[n] /\ Len(radioWire') # 0
      BY <1>4, <2>2, <3>1
    <3>3. radioWire' # <<>>
      BY <3>2
    <3> QED  BY <1>1, <2>1, <3>2, <3>3 DEF SelTells
  <2>3. CASE n = 1
    <3>1. radioWire' = <<>> /\ SelTells(e)
      BY <1>4, <2>1, <2>3, EmptySeq
    <3>2. CASE e.type \in {"connected", "profile"}
      BY <1>5, <3>1, <3>2 DEF SelShown, SelLive, Selection!Asked
    <3>3. CASE e.type = "select" /\ e.radio = selected
      BY <1>1, <1>5, <3>1, <3>3 DEF SelShown
    <3> QED  BY <3>1, <3>2, <3>3 DEF SelTells
  <2> QED  BY <1>4, <2>2, <2>3
<1> QED  BY <1>6, <1>7, <1>8 DEF SelInv

\* Every step of the selection and of the window keeps the invariant.
LEMMA SelStep == SelInv /\ [Selection!Next]_selectionVars => SelInv'
<1> SUFFICES ASSUME SelInv, [Selection!Next]_selectionVars PROVE SelInv'
  OBVIOUS
<1>1. CASE UNCHANGED selectionVars
  BY <1>1 DEF selectionVars, SelInv, SelType, SelHandles, SelConverges, SelShown, SelTold, SelTells
<1>2. CASE Selection!Next
  BY <1>2, SelGoKeeps, SelSelectsKeeps, SelMountsKeeps, SelFetchKeeps, SelDeliverKeeps
  DEF Selection!Next
<1> QED  BY <1>1, <1>2

\* At rest the highlight is the selection.
LEMMA SelHolds == SelInv => Selection!HighlightIsMirrored
<1> SUFFICES ASSUME SelInv, Selection!AtRest, connected, told \in {0, selected}
             PROVE  highlight = selected
  BY DEF Selection!HighlightIsMirrored
<1>1. radioMounted /\ radioWire = <<>> /\ SelTold /\ voice # <<>>
  BY DEF Selection!AtRest, SelTold, SelInv, SelHandles
<1>2. Len(voice) \in DOMAIN voice
  BY <1>1, LenProperties, EmptySeq DEF SelInv, SelType
<1>3. ~SelLive(voice[Len(voice)])
  BY <1>2 DEF Selection!AtRest, Selection!InFlight, SelLive
<1> QED  BY <1>1, <1>3 DEF SelInv, SelConverges, SelShown

-----------------------------------------------------------------------------
(* The settings.                                                           *)

WstSet == [Settings!Fields -> Nat]

WstHandle ==
  [at : {"asked", "settled"}, dirty : BOOLEAN, disposed : {FALSE}, attempt : Nat]
  \cup [at : {"answered"}, answer : WstSet, dirty : BOOLEAN, disposed : {FALSE}, attempt : Nat]

WstRequest == [settings : WstSet, at : {"sent", "saved", "failed", "settled"}]

WstKnob == [drag : {"none", "on"}, trailing : Nat]

WstType ==
  /\ cfg \in WstSet /\ settingsWire \in Seq(WstSet) /\ store \in WstSet \cup {<<>>}
  /\ settingsFetch \in WstHandle /\ sent \in Seq(WstRequest) /\ pending \in Nat
  /\ knob \in WstKnob /\ choices \in Nat /\ fails \in Nat /\ wished \in WstSet
  /\ unruly \in BOOLEAN

\* The overlay is of the newest request, until that has settled.
WstPending ==
  /\ pending # 0 => sent # <<>> /\ pending = Len(sent) /\ sent[pending].at # "settled"
  /\ sent # <<>> /\ sent[Len(sent)].at # "settled" => pending = Len(sent)

WstLive == settingsFetch.at # "settled" /\ ~settingsFetch.dirty

\* What comes to the window last is the configuration.
WstStore ==
  IF settingsWire # <<>> THEN settingsWire[Len(settingsWire)] = cfg
  ELSE IF WstLive THEN settingsFetch.at = "asked" \/ settingsFetch.answer = cfg
  ELSE store = cfg

\* Nothing is chosen before there is something to choose from.
WstShown ==
  /\ WstLive => store = <<>> /\ choices = 0
  /\ choices > 0 => store \in WstSet
  /\ sent # <<>> \/ knob.drag = "on" \/ knob.trailing # 0 => choices > 0

\* The settings that the newest request carries.
WstNewest == IF sent = <<>> THEN Settings!Factory ELSE sent[Len(sent)].settings

\* Without a failure requests are saved in their order.
WstSaved ==
  \E k \in 0 .. Len(sent) :
    /\ \A n \in 1 .. k : sent[n].at \in {"saved", "settled"}
    /\ \A n \in k + 1 .. Len(sent) : sent[n].at = "sent"
    /\ cfg = IF k = 0 THEN Settings!Factory ELSE sent[k].settings

\* The newest request carries all that was chosen, but for what the knob holds.
WstWished ==
  /\ wished["switch"] = WstNewest["switch"]
  /\ wished["level"] = IF knob.trailing = 0 THEN WstNewest["level"] ELSE knob.trailing

WstInv ==
  /\ WstType /\ WstPending /\ WstStore /\ WstShown
  /\ fails = 0 /\ ~unruly => WstSaved /\ WstWished

\* A window that asks for the settings has chosen nothing.
LEMMA WstInitial == Settings!Init => WstInv
<1> SUFFICES ASSUME Settings!Init PROVE WstInv
  OBVIOUS
<1>1. /\ cfg = Settings!Factory /\ settingsWire = <<>> /\ sent = <<>> /\ fails = 0 /\ store = <<>>
      /\ settingsFetch = Settings!Asked /\ pending = 0
      /\ knob = [drag |-> "none", trailing |-> 0] /\ choices = 0 /\ wished = Settings!Factory
      /\ unruly = FALSE
  BY DEF Settings!Init, Settings!NoTimer
<1>2. /\ Settings!Factory \in WstSet /\ "level" \in Settings!Fields /\ "switch" \in Settings!Fields
      /\ <<>> \in Seq(WstSet) /\ <<>> \in Seq(WstRequest)
  BY EmptySeq DEF Settings!Factory, WstSet, Settings!Fields
<1>3. settingsFetch \in WstHandle /\ settingsFetch.at = "asked"
  BY <1>1 DEF WstHandle, Settings!Asked
<1>4. knob \in WstKnob
  BY <1>1 DEF WstKnob
<1>5. WstType
  BY <1>1, <1>2, <1>3, <1>4 DEF WstType
<1>6. WstPending /\ WstStore /\ WstShown
  <2>1. WstLive /\ settingsFetch.at = "asked"
    BY <1>1 DEF WstLive, Settings!Asked
  <2>2. WstPending
    BY <1>1 DEF WstPending
  <2>3. WstStore
    BY <1>1, <2>1 DEF WstStore
  <2>4. sent = <<>> /\ knob.drag # "on" /\ knob.trailing = 0 /\ choices = 0 /\ store = <<>>
    BY <1>1
  <2>5. ~(choices > 0)
    BY <2>4
  <2>6. WstShown
    BY <2>4, <2>5 DEF WstShown
  <2> QED  BY <2>2, <2>3, <2>6
<1>7. Len(sent) = 0
  BY <1>1
<1>8. WstSaved
  <2>1. 0 \in 0 .. Len(sent) /\ (\A n \in 1 .. 0 : FALSE) /\ (\A n \in 0 + 1 .. Len(sent) : FALSE)
    BY <1>7
  <2> QED  BY <1>1, <2>1 DEF WstSaved
<1>9. WstWished
  BY <1>1 DEF WstWished, WstNewest
<1> QED  BY <1>5, <1>6, <1>8, <1>9 DEF WstInv

\* A request is built on the newest one, or on what the window shows of it.
LEMMA WstBase ==
  ASSUME WstInv, Settings!Shown \/ choices > 0
  PROVE  /\ Settings!Base \in WstSet
         /\ fails = 0 /\ ~unruly /\ (pending # 0 \/ settingsWire = <<>>) => Settings!Base = WstNewest
<1>1. WstType /\ WstPending /\ WstStore /\ WstShown
  BY DEF WstInv
<1>2. CASE pending # 0
  <2>1. sent # <<>> /\ pending = Len(sent) /\ Settings!Base = sent[pending].settings
    BY <1>1, <1>2 DEF WstPending, Settings!Base
  <2>2. pending \in 1 .. Len(sent)
    BY <1>1, <1>2, <2>1, LenProperties DEF WstType
  <2>3. sent[pending] \in WstRequest
    BY <1>1, <2>2, ElementOfSeq DEF WstType
  <2> QED  BY <2>1, <2>3 DEF WstRequest, WstNewest
<1>3. CASE pending = 0
  <2>1. Settings!Base = store /\ store \in WstSet /\ ~WstLive
    BY <1>1, <1>3 DEF Settings!Base, Settings!Shown, WstShown, WstType
  <2>2. ASSUME fails = 0, ~unruly, settingsWire = <<>> PROVE store = WstNewest
    <3>1. store = cfg
      BY <1>1, <2>1, <2>2 DEF WstStore
    <3>2. PICK k \in 0 .. Len(sent) :
            /\ \A n \in k + 1 .. Len(sent) : sent[n].at = "sent"
            /\ cfg = IF k = 0 THEN Settings!Factory ELSE sent[k].settings
      BY <2>2 DEF WstInv, WstSaved
    <3>3. CASE sent = <<>>
      <4>1. k = 0
        BY <3>2, <3>3
      <4> QED  BY <3>1, <3>2, <3>3, <4>1 DEF WstNewest
    <3>4. CASE sent # <<>>
      <4>1. Len(sent) \in Nat \ {0}
        BY <1>1, <3>4, LenProperties, EmptySeq DEF WstType
      <4>2. sent[Len(sent)].at = "settled"
        BY <1>1, <1>3, <3>4, <4>1 DEF WstPending
      <4>3. k = Len(sent)
        <5>1. k # Len(sent) => Len(sent) \in k + 1 .. Len(sent)
          BY <4>1
        <5> QED  BY <3>2, <4>2, <5>1
      <4> QED  BY <3>1, <3>2, <3>4, <4>1, <4>3 DEF WstNewest
    <3> QED  BY <3>3, <3>4
  <2> QED  BY <1>3, <2>1, <2>2
<1> QED  BY <1>2, <1>3

\* A request more.
LEMMA WstCommits ==
  ASSUME WstInv, NEW f \in Settings!Fields, NEW v \in Nat, Settings!Shown \/ choices > 0,
         Settings!Commit(f, v), UNCHANGED <<cfg, fails>>
  PROVE  /\ sent' \in Seq(WstRequest) /\ sent' # <<>> /\ pending' \in Nat /\ unruly' \in BOOLEAN
         /\ WstPending' /\ (~unruly' => ~unruly)
         /\ fails' = 0 /\ ~unruly' => WstSaved' /\ WstNewest' = [WstNewest EXCEPT ![f] = v]
<1>1. WstType
  BY DEF WstInv
<1>2. PICK x : x = [Settings!Base EXCEPT ![f] = v]
  OBVIOUS
<1>3. x \in WstSet
  BY <1>2, WstBase DEF WstSet
<1>4. /\ sent' = Append(sent, [settings |-> x, at |-> "sent"]) /\ pending' = Len(sent) + 1
      /\ unruly' = (unruly \/ (pending = 0 /\ settingsWire # <<>>))
  BY <1>2 DEF Settings!Commit
<1>5. [settings |-> x, at |-> "sent"] \in WstRequest
  BY <1>3 DEF WstRequest
<1>6. PICK n : n = Len(sent) /\ n \in Nat
  BY <1>1, LenProperties DEF WstType
<1>7. /\ sent' \in Seq(WstRequest) /\ sent' # <<>> /\ Len(sent') = n + 1
      /\ \A i \in 1 .. n : sent'[i] = sent[i]
      /\ sent'[n + 1] = [settings |-> x, at |-> "sent"]
  BY <1>1, <1>4, <1>5, <1>6, AppendProperties DEF WstType
<1>8. WstPending'
  BY <1>4, <1>6, <1>7 DEF WstPending
<1>9. ASSUME fails' = 0, ~unruly'
      PROVE  WstSaved' /\ WstNewest' = [WstNewest EXCEPT ![f] = v]
  <2>1. Settings!Base = WstNewest
    BY <1>4, <1>9, WstBase
  <2>2. WstNewest' = x
    BY <1>7 DEF WstNewest
  <2>3. PICK k \in 0 .. n :
          /\ \A i \in 1 .. k : sent[i].at \in {"saved", "settled"}
          /\ \A i \in k + 1 .. n : sent[i].at = "sent"
          /\ cfg = IF k = 0 THEN Settings!Factory ELSE sent[k].settings
    BY <1>4, <1>6, <1>9 DEF WstInv, WstSaved
  <2>4. /\ k \in 0 .. n + 1 /\ (k # 0 => k \in 1 .. n)
        /\ \A i \in 1 .. k : i \in 1 .. n
        /\ \A i \in k + 1 .. n + 1 : (i \in k + 1 .. n /\ i \in 1 .. n) \/ i = n + 1
    BY <1>6
  <2>5. \A i \in 1 .. k : sent'[i].at \in {"saved", "settled"}
    BY <1>7, <2>3, <2>4
  <2>6. \A i \in k + 1 .. n + 1 : sent'[i].at = "sent"
    BY <1>7, <2>3, <2>4
  <2>7. cfg' = IF k = 0 THEN Settings!Factory ELSE sent'[k].settings
    BY <1>7, <2>3, <2>4
  <2>8. WstSaved'
    BY <1>7, <2>4, <2>5, <2>6, <2>7 DEF WstSaved
  <2> QED  BY <1>2, <2>1, <2>2, <2>8
<1>10. unruly' \in BOOLEAN /\ (~unruly' => ~unruly)
  BY <1>1, <1>4 DEF WstType
<1> QED  BY <1>4, <1>6, <1>7, <1>8, <1>9, <1>10

\* What the hydrate is after each of its operations.
LEMMA WstOperations ==
  ASSUME NEW h \in WstHandle
  PROVE  /\ Settings!Pushed(h) \in WstHandle
         /\ ~(Settings!Pushed(h).at # "settled" /\ ~Settings!Pushed(h).dirty)
         /\ Settings!Settled \in WstHandle /\ Settings!Settled.at = "settled"
         /\ \A v \in WstSet : /\ Settings!Answered(h, v) \in WstHandle
                              /\ Settings!Answered(h, v).at = "answered"
                              /\ Settings!Answered(h, v).answer = v
                              /\ Settings!Answered(h, v).dirty = h.dirty
         /\ ~h.disposed /\ h.dirty \in BOOLEAN
         /\ h.at = "answered" => h.answer \in WstSet
<1>1. CASE h.at = "settled"
  BY <1>1 DEF WstHandle, Settings!Pushed, Settings!InFlight, Settings!Settled, Settings!Answered
<1>2. CASE h.at # "settled"
  BY <1>2 DEF WstHandle, Settings!Pushed, Settings!InFlight, Settings!Settled, Settings!Answered
<1> QED  BY <1>1, <1>2

\* GetSettings reads the configuration.
LEMMA WstReads == WstInv /\ Settings!GetSettings => WstInv'
<1> SUFFICES ASSUME WstInv, Settings!GetSettings PROVE WstInv'
  OBVIOUS
<1>1. /\ settingsFetch.at = "asked" /\ settingsFetch' = Settings!Answered(settingsFetch, cfg)
      /\ cfg' = cfg /\ settingsWire' = settingsWire /\ store' = store /\ pending' = pending
      /\ knob' = knob /\ sent' = sent /\ fails' = fails /\ choices' = choices /\ wished' = wished
      /\ unruly' = unruly
  BY DEF Settings!GetSettings, Settings!hand
<1>2. WstType /\ WstPending /\ WstStore /\ WstShown
  BY DEF WstInv
<1>3. settingsFetch \in WstHandle /\ cfg \in WstSet
  BY <1>2 DEF WstType
<1>4. /\ settingsFetch' \in WstHandle /\ settingsFetch'.at = "answered"
      /\ settingsFetch'.answer = cfg /\ settingsFetch'.dirty = settingsFetch.dirty
  BY <1>1, <1>3, WstOperations
<1>5. WstLive' = WstLive
  BY <1>1, <1>4 DEF WstLive
<1>6. WstType'
  BY <1>1, <1>2, <1>4 DEF WstType
<1>7. WstPending'
  BY <1>1, <1>2 DEF WstPending
<1>8. WstStore'
  BY <1>1, <1>2, <1>4, <1>5 DEF WstStore
<1>9. WstShown'
  BY <1>1, <1>2, <1>5 DEF WstShown
<1>10. (fails = 0 /\ ~unruly => WstSaved /\ WstWished)'
  BY <1>1 DEF WstInv, WstSaved, WstWished, WstNewest
<1> QED  BY <1>6, <1>7, <1>8, <1>9, <1>10 DEF WstInv

\* The answer is applied if no echo has overtaken it.
LEMMA WstArrives == WstInv /\ Settings!AnswerArrives => WstInv'
<1> SUFFICES ASSUME WstInv, Settings!AnswerArrives PROVE WstInv'
  OBVIOUS
<1>1. /\ settingsFetch.at = "answered" /\ settingsFetch' = Settings!Settled
      /\ store' = IF Settings!AppliesSnapshot(settingsFetch) THEN settingsFetch.answer ELSE store
      /\ cfg' = cfg /\ settingsWire' = settingsWire /\ pending' = pending
      /\ knob' = knob /\ sent' = sent /\ fails' = fails /\ choices' = choices /\ wished' = wished
      /\ unruly' = unruly
  BY DEF Settings!AnswerArrives, Settings!hand
<1>2. WstType /\ WstPending /\ WstStore /\ WstShown
  BY DEF WstInv
<1>3. /\ settingsFetch \in WstHandle /\ ~settingsFetch.disposed
      /\ settingsFetch.answer \in WstSet
      /\ settingsFetch' \in WstHandle /\ settingsFetch'.at = "settled"
  BY <1>1, <1>2, WstOperations DEF WstType
<1>4. /\ WstLive => store' = settingsFetch.answer
      /\ ~WstLive => store' = store
      /\ store' \in WstSet \cup {<<>>} /\ ~WstLive'
  BY <1>1, <1>2, <1>3 DEF WstLive, WstType, Settings!AppliesSnapshot
<1>5. WstType'
  BY <1>1, <1>2, <1>3, <1>4 DEF WstType
<1>6. WstPending'
  BY <1>1, <1>2 DEF WstPending
<1>7. WstStore'
  BY <1>1, <1>2, <1>4 DEF WstStore
<1>8. WstShown'
  <2>1. choices' > 0 => store' \in WstSet
    BY <1>1, <1>2, <1>3, <1>4 DEF WstShown
  <2>2. sent' # <<>> \/ knob'.drag = "on" \/ knob'.trailing # 0 => choices' > 0
    BY <1>1, <1>2 DEF WstShown
  <2> QED  BY <1>4, <2>1, <2>2 DEF WstShown
<1>9. (fails = 0 /\ ~unruly => WstSaved /\ WstWished)'
  BY <1>1 DEF WstInv, WstSaved, WstWished, WstNewest
<1> QED  BY <1>5, <1>6, <1>7, <1>8, <1>9 DEF WstInv

\* An echo is what the store holds then.
LEMMA WstEchoes == WstInv /\ Settings!Echo => WstInv'
<1> SUFFICES ASSUME WstInv, Settings!Echo PROVE WstInv'
  OBVIOUS
<1>1. /\ settingsWire # <<>> /\ settingsWire' = Tail(settingsWire) /\ store' = Head(settingsWire)
      /\ settingsFetch' = Settings!Pushed(settingsFetch)
      /\ cfg' = cfg /\ pending' = pending
      /\ knob' = knob /\ sent' = sent /\ fails' = fails /\ choices' = choices /\ wished' = wished
      /\ unruly' = unruly
  BY DEF Settings!Echo, Settings!hand
<1>2. WstType /\ WstPending /\ WstStore /\ WstShown
  BY DEF WstInv
<1>3. settingsFetch' \in WstHandle /\ ~WstLive'
  BY <1>1, <1>2, WstOperations DEF WstType, WstLive
<1>4. PICK n : n = Len(settingsWire) /\ n \in Nat \ {0}
  BY <1>1, <1>2, LenProperties, EmptySeq DEF WstType
<1>5. /\ settingsWire' \in Seq(WstSet) /\ Len(settingsWire') = n - 1
      /\ \A i \in 1 .. n - 1 : settingsWire'[i] = settingsWire[i + 1]
      /\ Head(settingsWire) \in WstSet /\ Head(settingsWire) = settingsWire[1]
  BY <1>1, <1>2, <1>4, HeadTailProperties DEF WstType
<1>6. settingsWire[n] = cfg
  BY <1>1, <1>2, <1>4 DEF WstStore
<1>7. WstType'
  BY <1>1, <1>2, <1>3, <1>5 DEF WstType
<1>8. WstPending'
  BY <1>1, <1>2 DEF WstPending
<1>9. WstStore'
  <2>1. CASE n = 1
    <3>1. settingsWire' = <<>>
      BY <1>5, <2>1, EmptySeq
    <3> QED  BY <1>1, <1>3, <1>5, <1>6, <2>1, <3>1 DEF WstStore
  <2>2. CASE n # 1
    <3>1. settingsWire' # <<>> /\ n - 1 \in 1 .. n - 1 /\ (n - 1) + 1 = n
      BY <1>4, <1>5, <2>2, EmptySeq
    <3>2. settingsWire'[n - 1] = settingsWire[n]
      BY <1>5, <3>1
    <3> QED  BY <1>1, <1>5, <1>6, <3>1, <3>2 DEF WstStore
  <2> QED  BY <2>1, <2>2
<1>10. WstShown'
  <2>1. choices' > 0 => store' \in WstSet
    BY <1>1, <1>5
  <2>2. sent' # <<>> \/ knob'.drag = "on" \/ knob'.trailing # 0 => choices' > 0
    BY <1>1, <1>2 DEF WstShown
  <2> QED  BY <1>3, <2>1, <2>2 DEF WstShown
<1>11. (fails = 0 /\ ~unruly => WstSaved /\ WstWished)'
  BY <1>1 DEF WstInv, WstSaved, WstWished, WstNewest
<1> QED  BY <1>7, <1>8, <1>9, <1>10, <1>11 DEF WstInv

\* A request moves on.
LEMMA WstMoves ==
  ASSUME WstType, NEW n \in DOMAIN sent, NEW a \in {"sent", "saved", "failed", "settled"},
         sent' = [sent EXCEPT ![n].at = a]
  PROVE  /\ sent' \in Seq(WstRequest) /\ Len(sent') = Len(sent) /\ Len(sent) \in Nat \ {0}
         /\ sent # <<>> /\ sent' # <<>> /\ n \in 1 .. Len(sent) /\ sent[n].settings \in WstSet
         /\ \A i \in 1 .. Len(sent) : /\ sent'[i].settings = sent[i].settings
                                      /\ sent'[i].at = IF i = n THEN a ELSE sent[i].at
         /\ WstNewest' = WstNewest
<1>1. PICK m : m = Len(sent)
  OBVIOUS
<1>2. n \in 1 .. m /\ m \in Nat \ {0} /\ sent # <<>>
  BY <1>1, LenProperties, EmptySeq DEF WstType
<1>3. sent[n] \in WstRequest
  BY <1>1, <1>2, ElementOfSeq DEF WstType
<1>4. PICK x : x = [sent[n] EXCEPT !.at = a]
  OBVIOUS
<1>5. x \in WstRequest /\ x.settings = sent[n].settings /\ x.at = a /\ x.settings \in WstSet
  BY <1>3, <1>4 DEF WstRequest
<1>6. sent' = [sent EXCEPT ![n] = x]
  BY <1>4
<1>7. /\ sent' \in Seq(WstRequest) /\ Len(sent') = m
      /\ \A i \in 1 .. m : sent'[i] = IF i = n THEN x ELSE sent[i]
  <2>1. sent \in Seq(WstRequest) /\ n \in 1 .. Len(sent)
    BY <1>1, <1>2 DEF WstType
  <2> QED  BY <1>1, <1>5, <1>6, <2>1, ExceptSeq
<1>8. \A i \in 1 .. m : /\ sent'[i].settings = sent[i].settings
                        /\ sent'[i].at = IF i = n THEN a ELSE sent[i].at
  BY <1>5, <1>7
<1>9. sent' # <<>> /\ m \in 1 .. m
  BY <1>2, <1>7, EmptySeq
<1>10. WstNewest' = WstNewest
  <2>1. sent'[m].settings = sent[m].settings
    BY <1>8, <1>9
  <2> QED  BY <1>1, <1>2, <1>7, <1>9, <2>1 DEF WstNewest
<1> QED  BY <1>1, <1>2, <1>5, <1>7, <1>8, <1>9, <1>10

\* A request is saved: it is the oldest of those that wait, unless they are unruly.
LEMMA WstSaves == ASSUME WstInv, NEW n \in DOMAIN sent, Settings!Saves(n) PROVE WstInv'
<1>1. /\ sent[n].at = "sent" /\ sent' = [sent EXCEPT ![n].at = "saved"]
      /\ cfg' = sent[n].settings /\ settingsWire' = Append(settingsWire, sent[n].settings)
      /\ unruly' = (unruly \/ \E m \in 1 .. (n - 1) : sent[m].at = "sent")
      /\ store' = store /\ settingsFetch' = settingsFetch /\ pending' = pending /\ knob' = knob
      /\ fails' = fails /\ choices' = choices /\ wished' = wished
  BY DEF Settings!Saves, Settings!window, Settings!hand
<1>2. WstType /\ WstPending /\ WstStore /\ WstShown
  BY DEF WstInv
<1>3. PICK m : m = Len(sent)
  OBVIOUS
<1>4. /\ sent' \in Seq(WstRequest) /\ Len(sent') = m /\ m \in Nat \ {0}
      /\ sent # <<>> /\ sent' # <<>> /\ n \in 1 .. m /\ sent[n].settings \in WstSet
      /\ \A i \in 1 .. m : /\ sent'[i].settings = sent[i].settings
                           /\ sent'[i].at = IF i = n THEN "saved" ELSE sent[i].at
      /\ WstNewest' = WstNewest
  BY <1>1, <1>2, <1>3, WstMoves
<1>5. /\ settingsWire' \in Seq(WstSet) /\ settingsWire' # <<>>
      /\ settingsWire'[Len(settingsWire')] = cfg'
  BY <1>1, <1>2, <1>4, AppendProperties DEF WstType
<1>6. unruly' \in BOOLEAN
  BY <1>1, <1>2 DEF WstType
<1>7. WstType'
  BY <1>1, <1>2, <1>4, <1>5, <1>6 DEF WstType
<1>8. WstPending'
  <2>1. ASSUME pending' # 0 PROVE pending' = m /\ sent'[pending'].at # "settled"
    <3>1. pending = m /\ sent[m].at # "settled" /\ m \in 1 .. m
      BY <1>1, <1>2, <1>3, <1>4, <2>1 DEF WstPending
    <3> QED  BY <1>1, <1>4, <3>1
  <2>2. ASSUME sent'[m].at # "settled" PROVE pending' = m
    <3>1. sent[m].at # "settled"
      BY <1>1, <1>4, <2>2
    <3> QED  BY <1>1, <1>2, <1>3, <1>4, <3>1 DEF WstPending
  <2> QED  BY <1>4, <2>1, <2>2 DEF WstPending
<1>9. WstStore'
  BY <1>5 DEF WstStore
<1>10. WstShown'
  BY <1>1, <1>2, <1>4 DEF WstShown, WstLive
<1>11. ASSUME fails' = 0, ~unruly' PROVE WstSaved' /\ WstWished'
  <2>1. WstSaved /\ WstWished
    BY <1>1, <1>11 DEF WstInv
  <2>2. PICK k \in 0 .. m :
          /\ \A i \in 1 .. k : sent[i].at \in {"saved", "settled"}
          /\ \A i \in k + 1 .. m : sent[i].at = "sent"
    BY <1>3, <2>1 DEF WstSaved
  <2>3. n = k + 1
    <3>1. n \notin 1 .. k
      BY <1>1, <2>2
    <3>2. k + 1 \notin 1 .. n - 1
      <4>1. k + 1 \in 1 .. n - 1 => k + 1 \in k + 1 .. m
        BY <1>4
      <4> QED  BY <1>1, <1>11, <2>2, <4>1
    <3> QED  BY <1>4, <3>1, <3>2
  <2>4. /\ n \in 0 .. m /\ n # 0 /\ n \in 1 .. m
        /\ \A i \in 1 .. n : (i \in 1 .. k /\ i # n) \/ i = n
        /\ \A i \in n + 1 .. m : i \in k + 1 .. m /\ i # n
        /\ \A i \in 1 .. n : i \in 1 .. m
        /\ \A i \in n + 1 .. m : i \in 1 .. m
    BY <1>4, <2>3
  <2>5. \A i \in 1 .. n : sent'[i].at \in {"saved", "settled"}
    BY <1>4, <2>2, <2>4
  <2>6. \A i \in n + 1 .. m : sent'[i].at = "sent"
    BY <1>4, <2>2, <2>4
  <2>7. WstSaved'
    BY <1>1, <1>4, <2>4, <2>5, <2>6 DEF WstSaved
  <2>8. WstWished'
    BY <1>1, <1>4, <2>1 DEF WstWished
  <2> QED  BY <2>7, <2>8
<1> QED  BY <1>7, <1>8, <1>9, <1>10, <1>11 DEF WstInv

\* A save fails: what is chosen may be lost.
LEMMA WstFails == ASSUME WstInv, NEW n \in DOMAIN sent, Settings!FailsToSave(n) PROVE WstInv'
<1>1. /\ sent[n].at = "sent" /\ sent' = [sent EXCEPT ![n].at = "failed"]
      /\ fails' = fails + 1 /\ cfg' = cfg /\ settingsWire' = settingsWire /\ unruly' = unruly
      /\ store' = store /\ settingsFetch' = settingsFetch /\ pending' = pending /\ knob' = knob
      /\ choices' = choices /\ wished' = wished
  BY DEF Settings!FailsToSave, Settings!window, Settings!hand
<1>2. WstType /\ WstPending /\ WstStore /\ WstShown
  BY DEF WstInv
<1>3. PICK m : m = Len(sent)
  OBVIOUS
<1>4. /\ sent' \in Seq(WstRequest) /\ Len(sent') = m /\ m \in Nat \ {0}
      /\ sent # <<>> /\ sent' # <<>> /\ n \in 1 .. m
      /\ \A i \in 1 .. m : sent'[i].at = IF i = n THEN "failed" ELSE sent[i].at
  BY <1>1, <1>2, <1>3, WstMoves
<1>5. fails' \in Nat /\ fails' # 0
  BY <1>1, <1>2 DEF WstType
<1>6. WstType'
  BY <1>1, <1>2, <1>4, <1>5 DEF WstType
<1>7. WstPending'
  <2>1. ASSUME pending' # 0 PROVE pending' = m /\ sent'[pending'].at # "settled"
    <3>1. pending = m /\ sent[m].at # "settled" /\ m \in 1 .. m
      BY <1>1, <1>2, <1>3, <1>4, <2>1 DEF WstPending
    <3> QED  BY <1>1, <1>4, <3>1
  <2>2. ASSUME sent'[m].at # "settled" PROVE pending' = m
    <3>1. sent[m].at # "settled"
      BY <1>1, <1>4, <2>2
    <3> QED  BY <1>1, <1>2, <1>3, <1>4, <3>1 DEF WstPending
  <2> QED  BY <1>4, <2>1, <2>2 DEF WstPending
<1>8. WstStore'
  BY <1>1, <1>2 DEF WstStore, WstLive
<1>9. WstShown'
  BY <1>1, <1>2, <1>4 DEF WstShown, WstLive
<1> QED  BY <1>5, <1>6, <1>7, <1>8, <1>9 DEF WstInv

\* An answer clears the overlay if it is still its own.
LEMMA WstSettles == ASSUME WstInv, NEW n \in DOMAIN sent, Settings!Settles(n) PROVE WstInv'
<1>1. /\ sent[n].at \in {"saved", "failed"} /\ sent' = [sent EXCEPT ![n].at = "settled"]
      /\ pending' = Settings!Cleared(n)
      /\ fails' = fails /\ cfg' = cfg /\ settingsWire' = settingsWire /\ unruly' = unruly
      /\ store' = store /\ settingsFetch' = settingsFetch /\ knob' = knob
      /\ choices' = choices /\ wished' = wished
  BY DEF Settings!Settles, Settings!hand
<1>2. WstType /\ WstPending /\ WstStore /\ WstShown
  BY DEF WstInv
<1>3. PICK m : m = Len(sent)
  OBVIOUS
<1>4. /\ sent' \in Seq(WstRequest) /\ Len(sent') = m /\ m \in Nat \ {0}
      /\ sent # <<>> /\ sent' # <<>> /\ n \in 1 .. m
      /\ \A i \in 1 .. m : /\ sent'[i].settings = sent[i].settings
                           /\ sent'[i].at = IF i = n THEN "settled" ELSE sent[i].at
      /\ WstNewest' = WstNewest
  BY <1>1, <1>2, <1>3, WstMoves
<1>5. pending' = (IF pending = n THEN 0 ELSE pending) /\ pending' \in Nat
  BY <1>1, <1>2 DEF WstType, Settings!Cleared
<1>6. WstType'
  BY <1>1, <1>2, <1>4, <1>5 DEF WstType
<1>7. WstPending'
  <2>1. ASSUME pending' # 0 PROVE pending' = m /\ sent'[pending'].at # "settled"
    <3>1. pending = m /\ sent[m].at # "settled" /\ m \in 1 .. m /\ m # n
      BY <1>1, <1>2, <1>3, <1>4, <1>5, <2>1 DEF WstPending
    <3> QED  BY <1>4, <1>5, <3>1
  <2>2. ASSUME sent'[m].at # "settled" PROVE pending' = m
    <3>1. sent[m].at # "settled" /\ m # n
      BY <1>1, <1>4, <2>2
    <3> QED  BY <1>2, <1>3, <1>4, <1>5, <3>1 DEF WstPending
  <2> QED  BY <1>4, <2>1, <2>2 DEF WstPending
<1>8. WstStore'
  BY <1>1, <1>2 DEF WstStore, WstLive
<1>9. WstShown'
  BY <1>1, <1>2, <1>4 DEF WstShown, WstLive
<1>10. ASSUME fails' = 0, ~unruly' PROVE WstSaved' /\ WstWished'
  <2>1. WstSaved /\ WstWished
    BY <1>1, <1>10 DEF WstInv
  <2>2. PICK k \in 0 .. m :
          /\ \A i \in 1 .. k : sent[i].at \in {"saved", "settled"}
          /\ \A i \in k + 1 .. m : sent[i].at = "sent"
          /\ cfg = IF k = 0 THEN Settings!Factory ELSE sent[k].settings
    BY <1>3, <2>1 DEF WstSaved
  <2>3. n \notin k + 1 .. m
    BY <1>1, <2>2
  <2>4. /\ \A i \in 1 .. k : i \in 1 .. m
        /\ \A i \in k + 1 .. m : i \in 1 .. m /\ i # n
        /\ k # 0 => k \in 1 .. m
    BY <1>4, <2>3
  <2>5. \A i \in 1 .. k : sent'[i].at \in {"saved", "settled"}
    BY <1>4, <2>2, <2>4
  <2>6. \A i \in k + 1 .. m : sent'[i].at = "sent"
    BY <1>4, <2>2, <2>4
  <2>7. cfg' = IF k = 0 THEN Settings!Factory ELSE sent'[k].settings
    BY <1>1, <1>4, <2>2, <2>4
  <2>8. WstSaved'
    BY <1>4, <2>5, <2>6, <2>7 DEF WstSaved
  <2>9. WstWished'
    BY <1>1, <1>4, <2>1 DEF WstWished
  <2> QED  BY <2>8, <2>9
<1> QED  BY <1>6, <1>7, <1>8, <1>9, <1>10 DEF WstInv

\* The two fields.
LEMMA WstFields == "level" \in Settings!Fields /\ "switch" \in Settings!Fields
  BY DEF Settings!Fields

\* The newest request carries settings.
LEMMA WstNewestSet == WstType => WstNewest \in WstSet
<1> SUFFICES ASSUME WstType PROVE WstNewest \in WstSet
  OBVIOUS
<1>1. CASE sent = <<>>
  BY <1>1 DEF WstNewest, WstSet, Settings!Factory
<1>2. CASE sent # <<>>
  <2>1. Len(sent) \in 1 .. Len(sent)
    BY <1>2, LenProperties, EmptySeq DEF WstType
  <2>2. sent[Len(sent)] \in WstRequest
    BY <2>1, ElementOfSeq DEF WstType
  <2> QED  BY <1>2, <2>2 DEF WstNewest, WstRequest
<1> QED  BY <1>1, <1>2

\* A window with controls has its settings.
LEMMA WstControls ==
  ASSUME WstInv, Settings!Shown \/ choices > 0
  PROVE  ~WstLive /\ store \in WstSet
<1>1. WstType /\ WstPending /\ WstShown
  BY DEF WstInv
<1>2. CASE choices > 0
  BY <1>1, <1>2 DEF WstShown, WstType
<1>3. CASE ~(choices > 0)
  <2>1. sent = <<>> /\ pending = 0
    BY <1>1, <1>3 DEF WstShown, WstPending
  <2>2. store # <<>>
    BY <1>3, <2>1 DEF Settings!Shown
  <2> QED  BY <1>1, <2>2 DEF WstType, WstShown
<1> QED  BY <1>2, <1>3

\* A request of a choice, or of what the knob held.
LEMMA WstCommitKeeps ==
  ASSUME WstInv, NEW f \in Settings!Fields, NEW v \in Nat, Settings!Shown \/ choices > 0,
         Settings!Commit(f, v),
         cfg' = cfg, settingsWire' = settingsWire, store' = store, settingsFetch' = settingsFetch,
         fails' = fails, knob' \in WstKnob, choices' \in Nat \ {0}, wished' \in WstSet,
         WstWished /\ WstNewest' = [WstNewest EXCEPT ![f] = v] => WstWished'
  PROVE  WstInv'
<1>1. WstType /\ WstPending /\ WstStore /\ WstShown
  BY DEF WstInv
<1>2. /\ sent' \in Seq(WstRequest) /\ sent' # <<>> /\ pending' \in Nat /\ unruly' \in BOOLEAN
      /\ WstPending' /\ (~unruly' => ~unruly)
      /\ fails' = 0 /\ ~unruly' => WstSaved' /\ WstNewest' = [WstNewest EXCEPT ![f] = v]
  <2>1. UNCHANGED <<cfg, fails>>
    OBVIOUS
  <2> QED  BY <2>1, WstCommits
<1>3. ~WstLive /\ store \in WstSet
  BY WstControls
<1>4. WstType'
  BY <1>1, <1>2 DEF WstType
<1>5. WstStore'
  BY <1>1 DEF WstStore, WstLive
<1>6. WstShown'
  <2>1. ~WstLive' /\ store' \in WstSet /\ choices' > 0
    BY <1>3 DEF WstLive
  <2> QED  BY <2>1 DEF WstShown
<1>7. ASSUME fails' = 0, ~unruly' PROVE WstSaved' /\ WstWished'
  <2>1. WstWished
    BY <1>2, <1>7 DEF WstInv
  <2> QED  BY <1>2, <1>7, <2>1
<1> QED  BY <1>2, <1>4, <1>5, <1>6, <1>7 DEF WstInv

\* A switch is sent at once (commitSettings).
LEMMA WstSwitches == WstInv /\ Settings!Switch => WstInv'
<1> SUFFICES ASSUME WstInv, Settings!Switch PROVE WstInv'
  OBVIOUS
<1>1. /\ Settings!Shown /\ choices' = choices + 1
      /\ wished' = [wished EXCEPT !["switch"] = choices + 1]
      /\ Settings!Commit("switch", choices + 1)
      /\ cfg' = cfg /\ settingsWire' = settingsWire /\ store' = store
      /\ settingsFetch' = settingsFetch /\ knob' = knob /\ fails' = fails
  BY DEF Settings!Switch, Settings!Chooses
<1>2. WstType /\ WstNewest \in WstSet
  BY WstNewestSet DEF WstInv
<1>3. /\ choices + 1 \in Nat /\ choices' \in Nat \ {0} /\ knob' \in WstKnob
      /\ wished \in WstSet
  BY <1>1, <1>2 DEF WstType
<1>4. wished' \in WstSet /\ wished'["switch"] = choices + 1 /\ wished'["level"] = wished["level"]
  BY <1>1, <1>3, WstFields DEF WstSet
<1>5. ASSUME WstWished, WstNewest' = [WstNewest EXCEPT !["switch"] = choices + 1] PROVE WstWished'
  <2>1. WstNewest'["switch"] = choices + 1 /\ WstNewest'["level"] = WstNewest["level"]
    BY <1>2, <1>5, WstFields DEF WstSet
  <2> QED  BY <1>1, <1>4, <1>5, <2>1 DEF WstWished
<1> QED  BY <1>1, <1>3, <1>4, <1>5, WstFields, WstCommitKeeps

\* What is sent of the knob is what was wished of it.
LEMMA WstSends ==
  ASSUME WstInv, NEW v \in Nat, NEW d \in {"none", "on"}, Settings!Shown \/ choices > 0,
         Settings!Sends(v, d),
         cfg' = cfg, settingsWire' = settingsWire, store' = store, settingsFetch' = settingsFetch,
         fails' = fails, choices' \in Nat \ {0}, wished' \in WstSet,
         wished'["switch"] = wished["switch"], WstWished => wished'["level"] = v
  PROVE  WstInv'
<1>1. knob' = [drag |-> d, trailing |-> 0] /\ Settings!Commit("level", v)
  BY DEF Settings!Sends, Settings!NoTimer
<1>2. WstType /\ WstNewest \in WstSet
  BY WstNewestSet DEF WstInv
<1>3. knob' \in WstKnob /\ knob'.trailing = 0
  BY <1>1 DEF WstKnob
<1>4. ASSUME WstWished, WstNewest' = [WstNewest EXCEPT !["level"] = v] PROVE WstWished'
  <2>1. WstNewest'["level"] = v /\ WstNewest'["switch"] = WstNewest["switch"]
    BY <1>2, <1>4, WstFields DEF WstSet
  <2> QED  BY <1>3, <1>4, <2>1 DEF WstWished
<1> QED  BY <1>1, <1>3, <1>4, WstFields, WstCommitKeeps

\* A step of a drag is sent, or waits for the interval (useThrottledCommit: push).
LEMMA WstDrags == WstInv /\ Settings!Drags => WstInv'
<1> SUFFICES ASSUME WstInv, Settings!Drags PROVE WstInv'
  OBVIOUS
<1>1. /\ Settings!Shown /\ choices' = choices + 1
      /\ wished' = [wished EXCEPT !["level"] = choices + 1]
      /\ cfg' = cfg /\ settingsWire' = settingsWire /\ store' = store
      /\ settingsFetch' = settingsFetch /\ fails' = fails
  BY DEF Settings!Drags, Settings!Chooses
<1>2. WstType /\ WstPending /\ WstStore /\ WstShown
  BY DEF WstInv
<1>3. choices + 1 \in Nat /\ choices' \in Nat \ {0} /\ wished \in WstSet /\ knob \in WstKnob
  BY <1>1, <1>2 DEF WstType
<1>4. wished' \in WstSet /\ wished'["level"] = choices + 1 /\ wished'["switch"] = wished["switch"]
  BY <1>1, <1>3, WstFields DEF WstSet
<1>5. CASE Settings!Sends(choices + 1, "on")
  BY <1>1, <1>3, <1>4, <1>5, WstSends
<1>6. CASE Settings!Waits(choices + 1)
  <2>1. /\ knob' = [knob EXCEPT !.drag = "on", !.trailing = choices + 1]
        /\ sent' = sent /\ pending' = pending /\ unruly' = unruly
    BY <1>6 DEF Settings!Waits
  <2>2. knob' = [drag |-> "on", trailing |-> choices + 1]
    BY <1>3, <2>1 DEF WstKnob
  <2>3. knob' \in WstKnob /\ knob'.trailing = choices + 1 /\ choices + 1 # 0
    BY <1>2, <1>3, <2>2 DEF WstKnob, WstType
  <2>4. ~WstLive /\ store \in WstSet
    BY <1>1, WstControls
  <2>5. WstType'
    BY <1>1, <1>2, <1>3, <1>4, <2>1, <2>3 DEF WstType
  <2>6. WstPending'
    BY <1>2, <2>1 DEF WstPending
  <2>7. WstStore'
    BY <1>1, <1>2 DEF WstStore, WstLive
  <2>8. WstShown'
    <3>1. ~WstLive' /\ store' \in WstSet /\ choices' > 0
      BY <1>1, <1>3, <2>4 DEF WstLive
    <3> QED  BY <3>1 DEF WstShown
  <2>9. ASSUME fails' = 0, ~unruly' PROVE WstSaved' /\ WstWished'
    <3>1. WstSaved /\ WstWished
      BY <1>1, <2>1, <2>9 DEF WstInv
    <3>2. WstSaved'
      BY <1>1, <2>1, <3>1 DEF WstSaved
    <3>3. WstNewest' = WstNewest
      BY <2>1 DEF WstNewest
    <3>4. WstWished'
      BY <1>4, <2>3, <3>1, <3>3 DEF WstWished
    <3> QED  BY <3>2, <3>4
  <2> QED  BY <2>5, <2>6, <2>7, <2>8, <2>9 DEF WstInv
<1> QED  BY <1>5, <1>6 DEF Settings!Drags

\* The timer sends what waits (useThrottledCommit).
LEMMA WstFires == WstInv /\ Settings!Fires => WstInv'
<1> SUFFICES ASSUME WstInv, Settings!Fires PROVE WstInv'
  OBVIOUS
<1>1. /\ knob.trailing # 0 /\ Settings!Sends(knob.trailing, knob.drag)
      /\ cfg' = cfg /\ settingsWire' = settingsWire /\ store' = store
      /\ settingsFetch' = settingsFetch /\ fails' = fails
      /\ choices' = choices /\ wished' = wished
  BY DEF Settings!Fires, Settings!NoTimer, Settings!hand
<1>2. WstType /\ WstShown
  BY DEF WstInv
<1>3. knob.trailing \in Nat /\ knob.drag \in {"none", "on"}
  BY <1>2 DEF WstType, WstKnob
<1>4. choices > 0 /\ choices' \in Nat \ {0} /\ wished' \in WstSet
  BY <1>1, <1>2 DEF WstType, WstShown
<1>5. WstWished => wished'["level"] = knob.trailing
  BY <1>1 DEF WstWished
<1> QED  BY <1>1, <1>3, <1>4, <1>5, WstSends

\* Where the pointer stops is sent (useThrottledCommit: flush).
LEMMA WstReleases == WstInv /\ Settings!Releases => WstInv'
<1> SUFFICES ASSUME WstInv, Settings!Releases PROVE WstInv'
  OBVIOUS
<1>1. /\ knob.drag = "on" /\ Settings!Sends(wished["level"], "none")
      /\ cfg' = cfg /\ settingsWire' = settingsWire /\ store' = store
      /\ settingsFetch' = settingsFetch /\ fails' = fails
      /\ choices' = choices /\ wished' = wished
  BY DEF Settings!Releases, Settings!SendsLast, Settings!hand
<1>2. WstType /\ WstShown
  BY DEF WstInv
<1>3. choices > 0 /\ choices' \in Nat \ {0} /\ wished' \in WstSet
  BY <1>1, <1>2 DEF WstType, WstShown
<1>4. wished["level"] \in Nat
  BY <1>2, WstFields DEF WstType, WstSet
<1> QED  BY <1>1, <1>3, <1>4, WstSends

\* A section that is left in a drag sends what waits.
LEMMA WstUnmounts == WstInv /\ Settings!Unmounts => WstInv'
<1> SUFFICES ASSUME WstInv, Settings!Unmounts PROVE WstInv'
  OBVIOUS
<1>1. /\ knob.drag = "on"
      /\ cfg' = cfg /\ settingsWire' = settingsWire /\ store' = store
      /\ settingsFetch' = settingsFetch /\ fails' = fails
      /\ choices' = choices /\ wished' = wished
  BY DEF Settings!Unmounts, Settings!hand
<1>2. WstType /\ WstPending /\ WstStore /\ WstShown
  BY DEF WstInv
<1>3. choices > 0 /\ choices' \in Nat \ {0} /\ wished' \in WstSet /\ knob \in WstKnob
  BY <1>1, <1>2 DEF WstType, WstShown
<1>4. CASE knob.trailing # 0
  <2>1. Settings!Sends(knob.trailing, "none") /\ knob.trailing \in Nat
    BY <1>3, <1>4 DEF Settings!Unmounts, Settings!SendsLast, Settings!NoTimer, WstKnob
  <2>2. WstWished => wished'["level"] = knob.trailing
    BY <1>1, <1>4 DEF WstWished
  <2> QED  BY <1>1, <1>3, <2>1, <2>2, WstSends
<1>5. CASE knob.trailing = 0
  <2>1. /\ knob' = [knob EXCEPT !.drag = "none"]
        /\ sent' = sent /\ pending' = pending /\ unruly' = unruly
    BY <1>5 DEF Settings!Unmounts, Settings!NoTimer
  <2>2. knob' \in WstKnob /\ knob'.trailing = knob.trailing
    BY <1>3, <2>1 DEF WstKnob
  <2>3. WstType'
    BY <1>1, <1>2, <2>1, <2>2 DEF WstType
  <2>4. WstPending'
    BY <1>2, <2>1 DEF WstPending
  <2>5. WstStore'
    BY <1>1, <1>2 DEF WstStore, WstLive
  <2>6. WstShown'
    BY <1>1, <1>2, <1>3 DEF WstShown, WstLive
  <2>7. (fails = 0 /\ ~unruly => WstSaved /\ WstWished)'
    BY <1>1, <2>1, <2>2 DEF WstInv, WstSaved, WstWished, WstNewest
  <2> QED  BY <2>3, <2>4, <2>5, <2>6, <2>7 DEF WstInv
<1> QED  BY <1>4, <1>5

\* Every step of Go, of the store and of the controls keeps the invariant.
LEMMA WstStep == WstInv /\ [Settings!Next]_settingsVars => WstInv'
<1> SUFFICES ASSUME WstInv, [Settings!Next]_settingsVars PROVE WstInv'
  OBVIOUS
<1>1. ASSUME NEW n \in DOMAIN sent,
             Settings!Saves(n) \/ Settings!FailsToSave(n) \/ Settings!Settles(n)
      PROVE  WstInv'
  BY <1>1, WstSaves, WstFails, WstSettles
<1>2. CASE Settings!GetSettings \/ Settings!AnswerArrives \/ Settings!Echo
  BY <1>2, WstReads, WstArrives, WstEchoes
<1>3. CASE Settings!Switch \/ Settings!Drags \/ Settings!Fires \/ Settings!Releases \/ Settings!Unmounts
  BY <1>3, WstSwitches, WstDrags, WstFires, WstReleases, WstUnmounts
<1>4. CASE UNCHANGED settingsVars
  <2>1. /\ cfg' = cfg /\ settingsWire' = settingsWire /\ store' = store
        /\ settingsFetch' = settingsFetch /\ sent' = sent /\ pending' = pending /\ knob' = knob
        /\ choices' = choices /\ fails' = fails /\ wished' = wished /\ unruly' = unruly
    BY <1>4 DEF settingsVars
  <2>2. WstType' = WstType /\ WstPending' = WstPending /\ WstLive' = WstLive
    BY <2>1 DEF WstType, WstPending, WstLive
  <2>3. WstStore' = WstStore /\ WstShown' = WstShown
    BY <2>1, <2>2 DEF WstStore, WstShown
  <2>4. WstSaved' = WstSaved /\ WstNewest' = WstNewest
    BY <2>1 DEF WstSaved, WstNewest
  <2>5. WstWished' = WstWished
    BY <2>1, <2>4 DEF WstWished
  <2> QED  BY <2>1, <2>2, <2>3, <2>4, <2>5 DEF WstInv
<1> QED  BY <1>1, <1>2, <1>3, <1>4 DEF Settings!Next

\* At rest the window shows the configuration, and what was chosen is saved.
LEMMA WstHolds == WstInv => Settings!SettingsAreMirrored
<1> SUFFICES ASSUME WstInv PROVE Settings!SettingsAreMirrored
  OBVIOUS
<1>1. WstType /\ WstPending /\ WstStore /\ WstShown
  BY DEF WstInv
<1>2. PICK m : m = Len(sent) /\ m \in Nat /\ DOMAIN sent = 1 .. m
  BY <1>1, LenProperties DEF WstType
<1>3. sent = <<>> <=> m = 0
  BY <1>1, <1>2, EmptySeq DEF WstType
<1>4. Settings!NewestIsShown
  <2> SUFFICES ASSUME NEW n \in Settings!Open, n = Len(sent) PROVE pending = n
    BY DEF Settings!NewestIsShown
  <2>1. n \in 1 .. m /\ sent[n].at # "settled" /\ n = m
    BY <1>2 DEF Settings!Open
  <2> QED  BY <1>1, <1>2, <1>3, <2>1 DEF WstPending
<1>5. ASSUME Settings!AllSettled
      PROVE  /\ pending = 0 /\ store = cfg
             /\ knob.trailing = 0 /\ fails = 0 /\ ~unruly => cfg = wished
  <2>1. /\ settingsWire = <<>> /\ settingsFetch.at = "settled"
        /\ \A n \in 1 .. m : sent[n].at = "settled"
    <3>1. Settings!Open = {} /\ settingsWire = <<>> /\ settingsFetch = Settings!Settled
      BY <1>5 DEF Settings!AllSettled
    <3>2. \A n \in 1 .. m : sent[n].at = "settled"
      BY <1>2, <3>1 DEF Settings!Open
    <3> QED  BY <3>1, <3>2 DEF Settings!Settled
  <2>2. pending = 0
    <3>1. pending # 0 => m \in 1 .. m /\ sent[m].at # "settled"
      BY <1>1, <1>2, <1>3 DEF WstPending
    <3> QED  BY <2>1, <3>1
  <2>3. store = cfg
    BY <1>1, <2>1 DEF WstStore, WstLive
  <2>4. ASSUME knob.trailing = 0, fails = 0, ~unruly PROVE cfg = wished
    <3>1. WstSaved /\ WstWished
      BY <2>4 DEF WstInv
    <3>2. PICK k \in 0 .. m :
            /\ \A n \in k + 1 .. m : sent[n].at = "sent"
            /\ cfg = IF k = 0 THEN Settings!Factory ELSE sent[k].settings
      BY <1>2, <3>1 DEF WstSaved
    <3>3. k = m
      <4>1. k # m => m \in k + 1 .. m /\ m \in 1 .. m
        BY <1>2
      <4> QED  BY <2>1, <3>2, <4>1
    <3>4. cfg = WstNewest
      BY <1>2, <1>3, <3>2, <3>3 DEF WstNewest
    <3>5. wished["switch"] = cfg["switch"] /\ wished["level"] = cfg["level"]
      BY <2>4, <3>1, <3>4 DEF WstWished
    <3> QED  BY <1>1, <3>5 DEF WstType, WstSet, Settings!Fields
  <2> QED  BY <2>2, <2>3, <2>4
<1>6. Settings!SettledShowsGo /\ Settings!ChoicesSurvive
  BY <1>5 DEF Settings!SettledShowsGo, Settings!ChoicesSurvive, Settings!NoTimer
<1> QED  BY <1>4, <1>6 DEF Settings!SettingsAreMirrored

-----------------------------------------------------------------------------
(* The log on the screen.                                                  *)

HistHandle ==
  {History!Unmounted, History!Settled}
  \cup [at : {"asked"}, dirty : BOOLEAN, disposed : {FALSE}, attempt : 1 .. maxAttempts]
  \cup [at : {"answered"}, answer : Seq(Nat), dirty : BOOLEAN, disposed : {FALSE},
        attempt : 1 .. maxAttempts]

HistRow == [type : {"row"}, row : Nat \ {0}, made : Nat]
HistClear == [type : {"clear"}, made : Nat]

HistType ==
  /\ rows \in Nat /\ clears \in Nat /\ log \in Seq(Nat) /\ entries \in Seq(Nat)
  /\ owed \in [Writers \cup {user} -> HistRow \cup HistClear \cup {History!Nothing}]
  /\ owed[user] \in HistClear \cup {History!Nothing}
  /\ \A w \in Writers : owed[w] \in HistRow \cup {History!Nothing}
  /\ logWire \in Seq(HistRow \cup HistClear) /\ logFetch \in HistHandle
  /\ crossed \in BOOLEAN /\ logForced \in BOOLEAN
  /\ logFetch.at = "unmounted" => logWire = <<>>

\* Rows down from one behind another, as many as there is room for.
HistRun(s, top, bottom) ==
  /\ Len(s) = IF Cap < top - bottom THEN Cap ELSE top - bottom
  /\ \A i \in 1 .. Len(s) : s[i] = top + 1 - i

\* What is on its way to the screen are the rows from d to e, in order.
HistWire(d, e) ==
  /\ \A k \in 1 .. Len(logWire) : logWire[k].type = "row" => logWire[k].row \in d + 1 .. e
  /\ \A r \in d + 1 .. e :
       \E k \in 1 .. Len(logWire) : logWire[k].type = "row" /\ logWire[k].row = r
  /\ \A j, k \in 1 .. Len(logWire) :
       j < k /\ logWire[j].type = "row" /\ logWire[k].type = "row" => logWire[j].row < logWire[k].row

\* The rows behind e are owed by their writers; a change that was made before
\* another has the lower number.
HistOwed(b, e) ==
  /\ \A w \in Writers : owed[w] # History!Nothing =>
       /\ owed[w].row \in e + 1 .. rows
       /\ owed[w].row > b => owed[w].made = owed[w].row - 1 + clears
       /\ owed[w].row <= b => owed[w].made + 1 < b + clears
  /\ \A r \in e + 1 .. rows : \E w \in Writers : owed[w] # History!Nothing /\ owed[w].row = r
  /\ \A v, w \in Writers : owed[v] # History!Nothing /\ owed[w] # History!Nothing /\ v # w =>
       /\ owed[v].row # owed[w].row
       /\ owed[v].row < owed[w].row => owed[v].made < owed[w].made
  /\ owed[user] # History!Nothing => owed[user].made + 1 = b + clears /\ e <= b
  /\ owed[user] = History!Nothing => b <= e

HistClearing ==
  owed[user] # History!Nothing \/ \E k \in 1 .. Len(logWire) : logWire[k].type = "clear"

\* The log was cleared last behind row b.
HistCleared(b, d) ==
  /\ \A j, k \in 1 .. Len(logWire) :
       j < k /\ logWire[j].type = "row" /\ logWire[k].type = "clear" => logWire[j].row <= b
  /\ owed[user] = History!Nothing =>
       \A j \in 1 .. Len(logWire) :
         logWire[j].type = "row" /\ (\A k \in j + 1 .. Len(logWire) : logWire[k].type # "clear")
           => logWire[j].row > b
  /\ IF HistClearing THEN d <= b ELSE b <= d

\* The rows that were pushed since the answer was read, on those it brought.
HistListed(s, d, b) ==
  \E p, q \in Nat :
    /\ b <= d - p /\ d - p <= q /\ q <= rows
    /\ Len(s) = IF Cap < p + (q - b) THEN Cap ELSE p + (q - b)
    /\ \A i \in 1 .. Len(s) : s[i] = IF i <= p THEN d + 1 - i ELSE q + 1 + p - i

HistScreen(b, d) ==
  ~HistClearing /\ ~logForced =>
    /\ logFetch.at = "settled" => HistListed(entries, d, b)
    /\ logFetch.at = "answered" /\ ~logFetch.dirty =>
         \E q \in d .. rows : HistRun(logFetch.answer, q, b)

HistOrder(b, d, e) ==
  /\ b <= rows /\ d <= e /\ e <= rows /\ HistRun(log, rows, b)
  /\ HistWire(d, e) /\ HistOwed(b, e) /\ HistCleared(b, d) /\ HistScreen(b, d)

HistInv == HistType /\ (~crossed => \E b, d, e \in Nat : HistOrder(b, d, e))

\* What the constants of the log are.
LEMMA HistBounds == Cap \in Nat \ {0} /\ user \notin Writers /\ maxAttempts \in Nat \ {0}
  BY HistoryBounds DEF History!WindowHistoryAssumption, History!HydrateAssumption

\* What Newest keeps.
LEMMA HistNewest ==
  ASSUME NEW s \in Seq(Nat)
  PROVE  /\ History!Newest(s) \in Seq(Nat)
         /\ Len(History!Newest(s)) = IF Len(s) < Cap THEN Len(s) ELSE Cap
         /\ \A i \in 1 .. Len(History!Newest(s)) : History!Newest(s)[i] = s[i]
<1>1. PICK n : n = IF Len(s) < Cap THEN Len(s) ELSE Cap
  OBVIOUS
<1>2. n \in Nat /\ n <= Len(s) /\ Len(s) \in Nat
  BY <1>1, HistBounds, LenProperties
<1>3. \A i \in 1 .. n : s[i] \in Nat
  BY <1>2, ElementOfSeq
<1>4. /\ SubSeq(s, 1, n) \in Seq(Nat) /\ Len(SubSeq(s, 1, n)) = n
      /\ \A i \in 1 .. n : SubSeq(s, 1, n)[i] = s[i]
  BY <1>2, <1>3, SubSeqProperties
<1> QED  BY <1>1, <1>4 DEF History!Newest

\* What is pushed comes first, and the last one goes when there is no room.
LEMMA HistPush ==
  ASSUME NEW s \in Seq(Nat), NEW x \in Nat, Len(s) <= Cap
  PROVE  /\ History!Newest(<<x>> \o s) \in Seq(Nat)
         /\ Len(History!Newest(<<x>> \o s)) = IF Len(s) < Cap THEN Len(s) + 1 ELSE Cap
         /\ \A i \in 1 .. Len(History!Newest(<<x>> \o s)) :
              History!Newest(<<x>> \o s)[i] = IF i = 1 THEN x ELSE s[i - 1]
<1>1. PICK n : n = Len(s) /\ n \in Nat
  BY LenProperties
<1>2. <<x>> \in Seq(Nat) /\ Len(<<x>>) = 1 /\ <<x>>[1] = x
  OBVIOUS
<1>3. /\ <<x>> \o s \in Seq(Nat) /\ Len(<<x>> \o s) = 1 + n
      /\ \A i \in 1 .. 1 + n : (<<x>> \o s)[i] = IF i = 1 THEN x ELSE s[i - 1]
  BY <1>1, <1>2, ConcatProperties
<1>4. PICK c, t : c = <<x>> \o s /\ t = History!Newest(c)
  OBVIOUS
<1>5. /\ t \in Seq(Nat) /\ Len(t) = IF n < Cap THEN n + 1 ELSE Cap
      /\ \A i \in 1 .. Len(t) : t[i] = (<<x>> \o s)[i]
  <2>1. c \in Seq(Nat) /\ Len(c) = 1 + n
    BY <1>3, <1>4
  <2>2. /\ t \in Seq(Nat) /\ Len(t) = IF 1 + n < Cap THEN 1 + n ELSE Cap
        /\ \A i \in 1 .. Len(t) : t[i] = c[i]
    BY <1>4, <2>1, HistNewest
  <2>3. Len(t) = IF n < Cap THEN n + 1 ELSE Cap
    BY <1>1, <2>2, HistBounds
  <2> QED  BY <1>4, <2>2, <2>3
<1>6. \A i \in 1 .. Len(t) : i \in 1 .. 1 + n
  BY <1>1, <1>5, HistBounds
<1> QED  BY <1>1, <1>3, <1>4, <1>5, <1>6

\* A row on top of a run.
LEMMA HistRunGrows ==
  ASSUME NEW s \in Seq(Nat), NEW m \in Nat, NEW n \in Nat, n <= m, HistRun(s, m, n)
  PROVE  HistRun(History!Newest(<<m + 1>> \o s), m + 1, n)
<1>1. Len(s) <= Cap /\ Len(s) \in Nat /\ Cap \in Nat \ {0}
  BY HistBounds, LenProperties DEF HistRun
<1>2. PICK t : t = History!Newest(<<m + 1>> \o s)
  OBVIOUS
<1>3. /\ t \in Seq(Nat) /\ Len(t) = IF Len(s) < Cap THEN Len(s) + 1 ELSE Cap
      /\ \A i \in 1 .. Len(t) : t[i] = IF i = 1 THEN m + 1 ELSE s[i - 1]
  BY <1>1, <1>2, HistPush
<1>4. Len(t) = IF Cap < m + 1 - n THEN Cap ELSE m + 1 - n
  BY <1>1, <1>3 DEF HistRun
<1>5. \A i \in 1 .. Len(t) : t[i] = (m + 1) + 1 - i
  <2>1. \A i \in 1 .. Len(t) : i = 1 \/ i - 1 \in 1 .. Len(s)
    BY <1>1, <1>3
  <2>2. \A i \in 1 .. Len(s) : s[i] = m + 1 - i
    BY DEF HistRun
  <2>3. ASSUME NEW i \in 1 .. Len(t) PROVE t[i] = (m + 1) + 1 - i
    <3>1. CASE i = 1
      BY <1>3, <3>1
    <3>2. CASE i # 1
      <4>1. i - 1 \in 1 .. Len(s) /\ i \in Nat /\ t[i] = s[i - 1]
        BY <1>3, <2>1, <3>2
      <4>2. s[i - 1] = m + 1 - (i - 1)
        BY <2>2, <4>1
      <4> QED  BY <4>1, <4>2
    <3> QED  BY <3>1, <3>2
  <2> QED  BY <2>3
<1>6. HistRun(t, m + 1, n)
  BY <1>4, <1>5 DEF HistRun
<1> QED  BY <1>2, <1>6

\* A push on what is listed.
LEMMA HistListedGrows ==
  ASSUME rows \in Nat, NEW s \in Seq(Nat), NEW b \in Nat, NEW d \in Nat, d < rows,
         HistListed(s, d, b)
  PROVE  HistListed(History!Newest(<<d + 1>> \o s), d + 1, b)
<1>1. PICK p \in Nat, q \in Nat :
        /\ b <= d - p /\ d - p <= q /\ q <= rows
        /\ Len(s) = IF Cap < p + (q - b) THEN Cap ELSE p + (q - b)
        /\ \A i \in 1 .. Len(s) : s[i] = IF i <= p THEN d + 1 - i ELSE q + 1 + p - i
  BY DEF HistListed
<1>2. Len(s) <= Cap /\ Len(s) \in Nat /\ Cap \in Nat \ {0}
  BY <1>1, HistBounds, LenProperties
<1>3. PICK t : t = History!Newest(<<d + 1>> \o s)
  OBVIOUS
<1>4. /\ t \in Seq(Nat) /\ Len(t) = IF Len(s) < Cap THEN Len(s) + 1 ELSE Cap
      /\ \A i \in 1 .. Len(t) : t[i] = IF i = 1 THEN d + 1 ELSE s[i - 1]
  BY <1>2, <1>3, HistPush
<1>5. Len(t) = IF Cap < (p + 1) + (q - b) THEN Cap ELSE (p + 1) + (q - b)
  BY <1>1, <1>2, <1>4
<1>6. ASSUME NEW i \in 1 .. Len(t)
      PROVE  t[i] = IF i <= p + 1 THEN (d + 1) + 1 - i ELSE q + 1 + (p + 1) - i
  <2>1. i \in Nat /\ (i = 1 \/ i - 1 \in 1 .. Len(s))
    BY <1>2, <1>4
  <2>2. CASE i = 1
    BY <1>1, <1>4, <1>6, <2>2
  <2>3. CASE i # 1
    <3>1. t[i] = s[i - 1] /\ i - 1 \in 1 .. Len(s)
      BY <1>4, <1>6, <2>1, <2>3
    <3>2. s[i - 1] = IF i - 1 <= p THEN d + 1 - (i - 1) ELSE q + 1 + p - (i - 1)
      BY <1>1, <3>1
    <3> QED  BY <1>1, <2>1, <3>1, <3>2
  <2> QED  BY <2>2, <2>3
<1>7. b <= (d + 1) - (p + 1) /\ (d + 1) - (p + 1) <= q /\ p + 1 \in Nat
  BY <1>1
<1> QED  BY <1>1, <1>3, <1>5, <1>6, <1>7 DEF HistListed

\* A list that is left alone stays one of the log's rows.
LEMMA HistListedStays ==
  ASSUME NEW b \in Nat, NEW d \in Nat, HistListed(entries, d, b), entries' = entries,
         rows \in Nat, rows' = rows
  PROVE  HistListed(entries, d, b)'
<1>1. PICK p \in Nat, q \in Nat :
        /\ b <= d - p /\ d - p <= q /\ q <= rows
        /\ Len(entries) = IF Cap < p + (q - b) THEN Cap ELSE p + (q - b)
        /\ \A i \in 1 .. Len(entries) : entries[i] = IF i <= p THEN d + 1 - i ELSE q + 1 + p - i
  BY DEF HistListed
<1> QED  BY <1>1 DEF HistListed

\* An empty log is all that its window shows.
LEMMA HistInitial == History!Init => HistInv
<1> SUFFICES ASSUME History!Init PROVE HistInv
  OBVIOUS
<1>1. /\ log = <<>> /\ owed = [w \in Writers \cup {user} |-> History!Nothing] /\ logWire = <<>>
      /\ logFetch = History!Unmounted /\ entries = <<>> /\ rows = 0 /\ clears = 0
      /\ crossed = FALSE /\ logForced = FALSE
  BY DEF History!Init
<1>2. /\ <<>> \in Seq(Nat) /\ <<>> \in Seq(HistRow \cup HistClear) /\ Len(logWire) = 0 /\ Len(log) = 0
  BY <1>1, EmptySeq
<1>3. HistType
  BY <1>1, <1>2 DEF HistType, HistHandle
<1>4. HistRun(log, rows, 0)
  BY <1>1, <1>2, HistBounds DEF HistRun
<1>5. HistWire(0, 0) /\ HistOwed(0, 0) /\ HistCleared(0, 0)
  BY <1>1, <1>2 DEF HistWire, HistOwed, HistCleared, HistClearing
<1>6. HistScreen(0, 0)
  BY <1>1 DEF HistScreen, History!Unmounted, History!Settled
<1> QED  BY <1>1, <1>3, <1>4, <1>5, <1>6 DEF HistInv, HistOrder

\* A row is logged: it is on top of the log, and owed.
LEMMA HistLogsKeeps ==
  ASSUME HistInv, NEW w \in Writers, History!Logs(w)
  PROVE  HistInv'
<1>1. /\ owed[w] = History!Nothing /\ rows' = rows + 1
      /\ log' = History!Newest(<<rows + 1>> \o log)
      /\ owed' = [owed EXCEPT ![w] = [type |-> "row", row |-> rows + 1, made |-> rows + clears]]
      /\ UNCHANGED <<logWire, logFetch, entries, logForced, clears, crossed>>
  BY DEF History!Logs, History!screen
<1>2. HistType /\ w # user
  BY HistBounds DEF HistInv
<1>3. rows \in Nat /\ clears \in Nat /\ log \in Seq(Nat) /\ rows + 1 \in Nat \ {0} /\ rows + clears \in Nat
  BY <1>2 DEF HistType
<1>4. [type |-> "row", row |-> rows + 1, made |-> rows + clears] \in HistRow
  BY <1>3 DEF HistRow
<1>5. /\ owed'[w] = [type |-> "row", row |-> rows + 1, made |-> rows + clears]
      /\ \A v \in Writers \cup {user} : v # w => owed'[v] = owed[v]
      /\ owed' \in [Writers \cup {user} -> HistRow \cup HistClear \cup {History!Nothing}]
  BY <1>1, <1>2, <1>4 DEF HistType
<1>6. /\ owed'[w] # History!Nothing /\ owed'[w].row = rows + 1 /\ owed'[w].made = rows + clears
      /\ owed'[user] = owed[user]
  BY <1>2, <1>5 DEF History!Nothing
<1>7. <<rows + 1>> \o log \in Seq(Nat)
  <2>1. <<rows + 1>> \in Seq(Nat)
    BY <1>3
  <2> QED  BY <1>3, <2>1, ConcatProperties
<1>8. HistType'
  <2>1. log' \in Seq(Nat)
    BY <1>1, <1>7, HistNewest
  <2>2. \A v \in Writers : owed'[v] \in HistRow \cup {History!Nothing}
    BY <1>2, <1>4, <1>5 DEF HistType
  <2> QED  BY <1>1, <1>2, <1>3, <1>5, <1>6, <2>1, <2>2 DEF HistType
<1>9. ASSUME ~crossed' PROVE \E b, d, e \in Nat : HistOrder(b, d, e)'
  <2>1. PICK b \in Nat, d \in Nat, e \in Nat : HistOrder(b, d, e)
    BY <1>1, <1>9 DEF HistInv
  <2>2. b <= rows /\ d <= e /\ e <= rows /\ HistRun(log, rows, b)
    BY <2>1 DEF HistOrder
  <2>3. HistRun(log', rows', b)
    BY <1>1, <1>3, <2>2, HistRunGrows
  <2>4. HistWire(d, e)'
    BY <1>1, <2>1 DEF HistOrder, HistWire
  <2>5. HistOwed(b, e)'
    <3>1. HistOwed(b, e)
      BY <2>1 DEF HistOrder
    <3>2. \A v \in Writers : owed[v] # History!Nothing =>
            owed[v].row \in Nat /\ owed[v].made \in Nat /\ owed[v].row \in e + 1 .. rows
            /\ owed[v].made < rows + clears
      <4> SUFFICES ASSUME NEW v \in Writers, owed[v] # History!Nothing
                   PROVE  owed[v].row \in Nat /\ owed[v].made \in Nat /\ owed[v].row \in e + 1 .. rows
                          /\ owed[v].made < rows + clears
        OBVIOUS
      <4>1. owed[v].row \in Nat /\ owed[v].made \in Nat
        BY <1>2 DEF HistType, HistRow
      <4>2. /\ owed[v].row \in e + 1 .. rows
            /\ owed[v].row > b => owed[v].made = owed[v].row - 1 + clears
            /\ owed[v].row <= b => owed[v].made + 1 < b + clears
        BY <3>1 DEF HistOwed
      <4>3. owed[v].row - 1 + clears < rows + clears /\ b + clears <= rows + clears
        BY <1>3, <2>2, <4>1, <4>2
      <4>4. CASE owed[v].row > b
        BY <4>1, <4>2, <4>3, <4>4
      <4>5. CASE owed[v].row <= b
        BY <1>3, <4>1, <4>2, <4>3, <4>5
      <4> QED  BY <4>1, <4>2, <4>4, <4>5
    <3>3. ASSUME NEW v \in Writers, owed'[v] # History!Nothing
          PROVE  /\ owed'[v].row \in e + 1 .. rows'
                 /\ owed'[v].row > b => owed'[v].made = owed'[v].row - 1 + clears'
                 /\ owed'[v].row <= b => owed'[v].made + 1 < b + clears'
      <4>1. CASE v = w
        BY <1>1, <1>3, <1>6, <2>2, <4>1
      <4>2. CASE v # w
        <5>1. owed'[v] = owed[v]
          BY <1>5, <4>2
        <5>2. /\ owed[v].row \in e + 1 .. rows
              /\ owed[v].row > b => owed[v].made = owed[v].row - 1 + clears
              /\ owed[v].row <= b => owed[v].made + 1 < b + clears
          BY <3>1, <3>3, <5>1 DEF HistOwed
        <5>3. owed[v].row \in e + 1 .. rows'
          BY <1>1, <1>3, <5>2
        <5> QED  BY <1>1, <5>1, <5>2, <5>3
      <4> QED  BY <4>1, <4>2
    <3>4. ASSUME NEW r \in e + 1 .. rows'
          PROVE  \E v \in Writers : owed'[v] # History!Nothing /\ owed'[v].row = r
      <4>1. CASE r = rows + 1
        BY <1>6, <4>1
      <4>2. CASE r # rows + 1
        <5>1. r \in e + 1 .. rows
          BY <1>1, <1>3, <4>2
        <5>2. PICK v \in Writers : owed[v] # History!Nothing /\ owed[v].row = r
          BY <3>1, <5>1 DEF HistOwed
        <5> QED  BY <1>1, <1>5, <5>2
      <4> QED  BY <4>1, <4>2
    <3>5. ASSUME NEW u \in Writers, NEW v \in Writers,
                 owed'[u] # History!Nothing, owed'[v] # History!Nothing, u # v
          PROVE  /\ owed'[u].row # owed'[v].row
                 /\ owed'[u].row < owed'[v].row => owed'[u].made < owed'[v].made
      <4>1. CASE u = w
        <5>1. owed'[v] = owed[v] /\ owed[v].row \in Nat /\ owed[v].row <= rows
          BY <1>3, <1>5, <3>2, <3>5, <4>1
        <5> QED  BY <1>3, <1>6, <4>1, <5>1
      <4>2. CASE v = w
        <5>1. owed'[u] = owed[u] /\ owed[u].row \in Nat /\ owed[u].row <= rows /\ owed[u].made < rows + clears
          BY <1>3, <1>5, <3>2, <3>5, <4>2
        <5> QED  BY <1>3, <1>6, <4>2, <5>1
      <4>3. CASE u # w /\ v # w
        BY <1>5, <3>1, <3>5, <4>3 DEF HistOwed
      <4> QED  BY <4>1, <4>2, <4>3
    <3>6. /\ owed'[user] # History!Nothing => owed'[user].made + 1 = b + clears' /\ e <= b
          /\ owed'[user] = History!Nothing => b <= e
      BY <1>1, <1>6, <3>1 DEF HistOwed
    <3> QED  BY <3>3, <3>4, <3>5, <3>6 DEF HistOwed
  <2>6. HistClearing' <=> HistClearing
    BY <1>1, <1>6 DEF HistClearing
  <2>7. HistCleared(b, d)'
    BY <1>1, <1>6, <2>1, <2>6 DEF HistOrder, HistCleared
  <2>8. HistScreen(b, d)'
    <3>1. HistListed(entries, d, b) => HistListed(entries, d, b)'
      <4> SUFFICES ASSUME NEW p \in Nat, NEW q \in Nat,
                          /\ b <= d - p /\ d - p <= q /\ q <= rows
                          /\ Len(entries) = IF Cap < p + (q - b) THEN Cap ELSE p + (q - b)
                          /\ \A i \in 1 .. Len(entries) :
                               entries[i] = IF i <= p THEN d + 1 - i ELSE q + 1 + p - i
                   PROVE  HistListed(entries, d, b)'
        BY DEF HistListed
      <4>1. q <= rows'
        BY <1>1, <1>3
      <4>2. entries' = entries
        BY <1>1
      <4> QED  BY <4>1, <4>2 DEF HistListed
    <3>2. \A q \in d .. rows : q \in d .. rows'
      BY <1>1, <1>3
    <3> QED  BY <1>1, <2>1, <2>6, <3>1, <3>2 DEF HistOrder, HistScreen
  <2>9. HistOrder(b, d, e)'
    BY <1>1, <1>3, <2>2, <2>3, <2>4, <2>5, <2>7, <2>8 DEF HistOrder
  <2> QED  BY <2>9
<1> QED  BY <1>8, <1>9 DEF HistInv

\* The log is cleared, and that is owed.
LEMMA HistClearKeeps ==
  ASSUME HistInv, History!ClearHistory
  PROVE  HistInv'
<1>1. /\ owed[user] = History!Nothing /\ clears' = clears + 1 /\ log' = <<>>
      /\ owed' = [owed EXCEPT ![user] = [type |-> "clear", made |-> rows + clears]]
      /\ UNCHANGED <<logWire, logFetch, entries, logForced, rows, crossed>>
  BY DEF History!ClearHistory, History!screen
<1>2. HistType /\ user \notin Writers
  BY HistBounds DEF HistInv
<1>3. rows \in Nat /\ clears \in Nat /\ rows + clears \in Nat
  BY <1>2 DEF HistType
<1>4. [type |-> "clear", made |-> rows + clears] \in HistClear
  BY <1>3 DEF HistClear
<1>5. /\ owed'[user] = [type |-> "clear", made |-> rows + clears]
      /\ \A v \in Writers : owed'[v] = owed[v]
      /\ owed' \in [Writers \cup {user} -> HistRow \cup HistClear \cup {History!Nothing}]
  BY <1>1, <1>2, <1>4 DEF HistType
<1>6. owed'[user] # History!Nothing /\ owed'[user].made = rows + clears
  BY <1>5 DEF History!Nothing
<1>7. HistType'
  <2>1. log' \in Seq(Nat)
    BY <1>1, EmptySeq
  <2> QED  BY <1>1, <1>2, <1>3, <1>4, <1>5, <2>1 DEF HistType
<1>8. ASSUME ~crossed' PROVE \E b, d, e \in Nat : HistOrder(b, d, e)'
  <2>1. PICK b \in Nat, d \in Nat, e \in Nat : HistOrder(b, d, e)
    BY <1>1, <1>8 DEF HistInv
  <2>2. b <= rows /\ d <= e /\ e <= rows /\ HistOwed(b, e) /\ HistWire(d, e)
    BY <2>1 DEF HistOrder
  <2>3. PICK m \in Nat : m = rows
    BY <1>3
  <2>4. HistRun(log', rows', m)
    <3>1. Len(<<>>) = 0
      OBVIOUS
    <3>2. log' = <<>> /\ rows' - m = 0
      BY <1>1, <1>3, <2>3
    <3> QED  BY <3>1, <3>2, HistBounds DEF HistRun
  <2>5. HistOwed(m, e)'
    <3>1. ASSUME NEW v \in Writers, owed[v] # History!Nothing
          PROVE  /\ owed[v].row \in e + 1 .. rows /\ owed[v].row \in Nat /\ owed[v].made \in Nat
                 /\ owed[v].made + 1 < rows + clears + 1
      <4>1. owed[v].row \in Nat /\ owed[v].made \in Nat
        BY <1>2, <3>1 DEF HistType, HistRow
      <4>2. /\ owed[v].row \in e + 1 .. rows
            /\ owed[v].row > b => owed[v].made = owed[v].row - 1 + clears
            /\ owed[v].row <= b => owed[v].made + 1 < b + clears
        BY <2>2, <3>1 DEF HistOwed
      <4>3. CASE owed[v].row > b
        BY <1>3, <4>1, <4>2, <4>3
      <4>4. CASE owed[v].row <= b
        BY <1>3, <2>2, <4>1, <4>2, <4>4
      <4> QED  BY <4>1, <4>2, <4>3, <4>4
    <3>2. ASSUME NEW v \in Writers, owed'[v] # History!Nothing
          PROVE  /\ owed'[v].row \in e + 1 .. rows'
                 /\ owed'[v].row > m => owed'[v].made = owed'[v].row - 1 + clears'
                 /\ owed'[v].row <= m => owed'[v].made + 1 < m + clears'
      <4>1. /\ owed'[v] = owed[v] /\ owed[v].row \in e + 1 .. rows /\ owed[v].row \in Nat
            /\ owed[v].made + 1 < rows + clears + 1
        BY <1>5, <3>1, <3>2
      <4>2. owed[v].row <= m /\ m + clears' = rows + clears + 1
        BY <1>1, <1>3, <2>3, <4>1
      <4> QED  BY <1>1, <2>3, <4>1, <4>2
    <3>3. \A r \in e + 1 .. rows' : \E v \in Writers : owed'[v] # History!Nothing /\ owed'[v].row = r
      BY <1>1, <1>5, <2>2 DEF HistOwed
    <3>4. \A u, v \in Writers : owed'[u] # History!Nothing /\ owed'[v] # History!Nothing /\ u # v =>
            /\ owed'[u].row # owed'[v].row
            /\ owed'[u].row < owed'[v].row => owed'[u].made < owed'[v].made
      BY <1>5, <2>2 DEF HistOwed
    <3>5. owed'[user].made + 1 = m + clears' /\ e <= m
      BY <1>1, <1>3, <1>6, <2>2, <2>3
    <3> QED  BY <1>6, <3>2, <3>3, <3>4, <3>5 DEF HistOwed
  <2>6. HistClearing'
    BY <1>6 DEF HistClearing
  <2>7. HistCleared(m, d)'
    <3>1. \A j \in 1 .. Len(logWire) : logWire[j].type = "row" => logWire[j].row <= m
      BY <2>2, <2>3 DEF HistWire
    <3>2. d <= m
      BY <1>3, <2>2, <2>3
    <3> QED  BY <1>1, <1>6, <2>6, <3>1, <3>2 DEF HistCleared
  <2>8. HistWire(d, e)'
    BY <1>1, <2>2 DEF HistWire
  <2>9. HistOrder(m, d, e)'
    BY <1>1, <1>3, <2>2, <2>3, <2>4, <2>5, <2>6, <2>7, <2>8 DEF HistOrder, HistScreen
  <2> QED  BY <2>9
<1> QED  BY <1>7, <1>8 DEF HistInv

\* What the screen's hydrate is after each of its operations.
LEMMA HistOperations ==
  ASSUME NEW h \in HistHandle
  PROVE  /\ h.at \in {"unmounted", "settled", "asked", "answered"}
         /\ h.at = "unmounted" <=> h = History!Unmounted
         /\ h.at = "settled" <=> h = History!Settled
         /\ h.at = "answered" => h.answer \in Seq(Nat)
         /\ History!Asked \in HistHandle /\ History!Asked.at = "asked"
         /\ History!Settled \in HistHandle /\ History!Settled.at = "settled"
         /\ h.at = "asked" => \A v \in Seq(Nat) :
              /\ History!Answered(h, v) \in HistHandle /\ History!Answered(h, v).at = "answered"
              /\ History!Answered(h, v).answer = v
         /\ h.at = "answered" /\ History!AsksAgain(h) =>
              History!NextAttempt(h) \in HistHandle /\ History!NextAttempt(h).at = "asked"
         /\ h.at = "answered" /\ ~History!AsksAgain(h) /\ ~History!Forced(h) => ~h.dirty
         /\ h.at = "settled" => History!Pushed(h) = h
         /\ h.at \in {"asked", "answered"} =>
              /\ History!Pushed(h) \in HistHandle /\ History!Pushed(h).at = h.at
              /\ History!Pushed(h).dirty
<1>1. maxAttempts \in Nat \ {0}
  BY HistBounds
<1>2. History!Asked.at = "asked" /\ History!Settled.at = "settled" /\ History!Settled \in HistHandle
  BY DEF History!Asked, History!Settled, HistHandle
<1>3. History!Asked \in HistHandle
  <2>1. 1 \in 1 .. maxAttempts
    BY <1>1
  <2>2. History!Asked \in [at : {"asked"}, dirty : BOOLEAN, disposed : {FALSE}, attempt : 1 .. maxAttempts]
    BY <2>1 DEF History!Asked
  <2> QED  BY <2>2 DEF HistHandle
<1>4. CASE h = History!Unmounted
  BY <1>2, <1>3, <1>4 DEF History!Unmounted, History!Settled
<1>5. CASE h = History!Settled
  BY <1>2, <1>3, <1>5 DEF History!Unmounted, History!Settled, History!Pushed, History!InFlight
<1>6. CASE h \in [at : {"asked"}, dirty : BOOLEAN, disposed : {FALSE}, attempt : 1 .. maxAttempts]
  <2>1. h.at = "asked" /\ h # History!Unmounted /\ h # History!Settled
    BY <1>6 DEF History!Unmounted, History!Settled
  <2>2. ASSUME NEW v \in Seq(Nat)
        PROVE  /\ History!Answered(h, v) \in HistHandle /\ History!Answered(h, v).at = "answered"
               /\ History!Answered(h, v).answer = v
    BY <1>6 DEF History!Answered, HistHandle
  <2>3. /\ History!Pushed(h) \in HistHandle /\ History!Pushed(h).at = h.at
        /\ History!Pushed(h).dirty
    BY <1>6, <2>1 DEF History!Pushed, History!InFlight, HistHandle
  <2> QED  BY <1>2, <1>3, <2>1, <2>2, <2>3
<1>7. CASE h \in [at : {"answered"}, answer : Seq(Nat), dirty : BOOLEAN, disposed : {FALSE},
                  attempt : 1 .. maxAttempts]
  <2>1. h.at = "answered" /\ h # History!Unmounted /\ h # History!Settled /\ h.answer \in Seq(Nat)
    BY <1>7 DEF History!Unmounted, History!Settled
  <2>2. ASSUME History!AsksAgain(h)
        PROVE  History!NextAttempt(h) \in HistHandle /\ History!NextAttempt(h).at = "asked"
    <3>1. h.attempt + 1 \in 1 .. maxAttempts
      BY <1>1, <1>7, <2>2 DEF History!AsksAgain
    <3>2. History!NextAttempt(h) \in
            [at : {"asked"}, dirty : BOOLEAN, disposed : {FALSE}, attempt : 1 .. maxAttempts]
      BY <3>1 DEF History!NextAttempt, History!Asked
    <3> QED  BY <3>2 DEF HistHandle
  <2>3. ASSUME ~History!AsksAgain(h), ~History!Forced(h) PROVE ~h.dirty
    <3>1. ~h.disposed /\ h.attempt \in 1 .. maxAttempts
      BY <1>7
    <3>2. h.attempt < maxAttempts \/ h.attempt = maxAttempts
      BY <1>1, <3>1
    <3> QED  BY <2>3, <3>1, <3>2 DEF History!AsksAgain, History!Forced, History!AppliesDelta
  <2>4. /\ History!Pushed(h) \in HistHandle /\ History!Pushed(h).at = h.at
        /\ History!Pushed(h).dirty
    BY <1>7, <2>1 DEF History!Pushed, History!InFlight, HistHandle
  <2> QED  BY <1>2, <1>3, <2>1, <2>2, <2>3, <2>4
<1> QED  BY <1>4, <1>5, <1>6, <1>7 DEF HistHandle

\* The screen asks, is answered with the log, and lists it unless it was
\* overtaken; an answer that is listed all the same makes no promises any more.
LEMMA HistFetchKeeps ==
  ASSUME HistInv, History!Mounts \/ History!GetHistory \/ History!AnswerArrives
  PROVE  HistInv'
<1>1. /\ UNCHANGED <<log, owed, rows, clears, crossed, logWire>>
      /\ \/ logFetch' = History!Asked /\ UNCHANGED <<entries, logForced>>
         \/ /\ logFetch.at = "asked" /\ logFetch' = History!Answered(logFetch, log)
            /\ UNCHANGED <<entries, logForced>>
         \/ /\ logFetch.at = "answered" /\ ~History!AsksAgain(logFetch)
            /\ logFetch' = History!Settled
            /\ entries' = History!Newest(logFetch.answer)
            /\ logForced' = (logForced \/ History!Forced(logFetch))
         \/ /\ logFetch.at = "answered" /\ History!AsksAgain(logFetch)
            /\ logFetch' = History!NextAttempt(logFetch) /\ UNCHANGED <<entries, logForced>>
  BY DEF History!Mounts, History!GetHistory, History!AnswerArrives, History!go
<1>2. HistType /\ logFetch \in HistHandle /\ log \in Seq(Nat) /\ rows \in Nat
  BY DEF HistInv, HistType
<1>3. ASSUME logFetch' \in HistHandle, logFetch'.at # "unmounted", entries' \in Seq(Nat),
             logForced' \in BOOLEAN,
             \A b, d, e \in Nat : HistOrder(b, d, e) => HistScreen(b, d)'
      PROVE  HistInv'
  <2>1. HistType'
    BY <1>1, <1>2, <1>3 DEF HistType
  <2>2. ASSUME NEW b \in Nat, NEW d \in Nat, NEW e \in Nat, HistOrder(b, d, e)
        PROVE  HistOrder(b, d, e)'
    <3>1. HistWire(d, e)' /\ HistOwed(b, e)' /\ HistCleared(b, d)' /\ HistRun(log, rows, b)'
      BY <1>1, <2>2 DEF HistOrder, HistRun, HistWire, HistOwed, HistCleared, HistClearing
    <3> QED  BY <1>1, <1>3, <2>2, <3>1 DEF HistOrder
  <2> QED  BY <1>1, <2>1, <2>2 DEF HistInv
<1>4. entries \in Seq(Nat) /\ logForced \in BOOLEAN
  BY <1>2 DEF HistType
<1>5. CASE logFetch' = History!Asked /\ UNCHANGED <<entries, logForced>>
  <2>1. logFetch' \in HistHandle /\ logFetch'.at = "asked"
    BY <1>2, <1>5, HistOperations
  <2> QED  BY <1>3, <1>4, <1>5, <2>1 DEF HistScreen
<1>6. CASE /\ logFetch.at = "asked" /\ logFetch' = History!Answered(logFetch, log)
           /\ UNCHANGED <<entries, logForced>>
  <2>1. logFetch' \in HistHandle /\ logFetch'.at = "answered" /\ logFetch'.answer = log
    BY <1>2, <1>6, HistOperations
  <2>2. ASSUME NEW b \in Nat, NEW d \in Nat, NEW e \in Nat, HistOrder(b, d, e)
        PROVE  HistScreen(b, d)'
    <3>1. rows' \in d .. rows' /\ HistRun(logFetch'.answer, rows', b)
      BY <1>1, <1>2, <2>1, <2>2 DEF HistOrder
    <3> QED  BY <2>1, <3>1 DEF HistScreen
  <2> QED  BY <1>3, <1>4, <1>6, <2>1, <2>2
<1>7. CASE /\ logFetch.at = "answered" /\ ~History!AsksAgain(logFetch)
           /\ logFetch' = History!Settled
           /\ entries' = History!Newest(logFetch.answer)
           /\ logForced' = (logForced \/ History!Forced(logFetch))
  <2>1. logFetch' \in HistHandle /\ logFetch'.at = "settled" /\ logFetch.answer \in Seq(Nat)
    BY <1>2, <1>7, HistOperations
  <2>2. /\ entries' \in Seq(Nat)
        /\ Len(entries') = IF Len(logFetch.answer) < Cap THEN Len(logFetch.answer) ELSE Cap
        /\ \A i \in 1 .. Len(entries') : entries'[i] = logFetch.answer[i]
    BY <1>7, <2>1, HistNewest
  <2>3. ASSUME NEW b \in Nat, NEW d \in Nat, NEW e \in Nat, HistOrder(b, d, e)
        PROVE  HistScreen(b, d)'
    <3> SUFFICES ASSUME ~HistClearing', ~logForced'
                 PROVE  HistListed(entries, d, b)'
      BY <2>1 DEF HistScreen
    <3>1. ~logFetch.dirty /\ ~logForced
      BY <1>2, <1>7, HistOperations
    <3>2. ~HistClearing
      BY <1>1 DEF HistClearing
    <3>3. PICK q \in d .. rows : HistRun(logFetch.answer, q, b)
      BY <1>7, <2>3, <3>1, <3>2 DEF HistOrder, HistScreen
    <3>4. b <= d /\ q \in Nat /\ q <= rows /\ d <= q
      BY <1>2, <2>3, <3>2, <3>3 DEF HistOrder, HistCleared
    <3>5. /\ Len(logFetch.answer) = IF Cap < q - b THEN Cap ELSE q - b
          /\ \A i \in 1 .. Len(logFetch.answer) : logFetch.answer[i] = q + 1 - i
      BY <3>3 DEF HistRun
    <3>6. Len(entries') = IF Cap < 0 + (q - b) THEN Cap ELSE 0 + (q - b)
      BY <2>2, <3>4, <3>5, HistBounds
    <3>7. \A i \in 1 .. Len(entries') : entries'[i] = IF i <= 0 THEN d + 1 - i ELSE q + 1 + 0 - i
      <4>1. ASSUME NEW i \in 1 .. Len(entries') PROVE i \in 1 .. Len(logFetch.answer) /\ ~(i <= 0)
        BY <2>2, <3>4, <3>5, HistBounds
      <4>2. q + 1 + 0 = q + 1
        BY <3>4
      <4> QED  BY <2>2, <3>5, <4>1, <4>2
    <3>8. b <= d - 0 /\ d - 0 <= q /\ q <= rows' /\ 0 \in Nat
      BY <1>1, <3>4
    <3> QED  BY <3>4, <3>6, <3>7, <3>8 DEF HistListed
  <2> QED  BY <1>3, <1>4, <1>7, <2>1, <2>2, <2>3
<1>8. CASE /\ logFetch.at = "answered" /\ History!AsksAgain(logFetch)
           /\ logFetch' = History!NextAttempt(logFetch) /\ UNCHANGED <<entries, logForced>>
  <2>1. logFetch' \in HistHandle /\ logFetch'.at = "asked"
    BY <1>2, <1>8, HistOperations
  <2> QED  BY <1>3, <1>4, <1>8, <2>1 DEF HistScreen
<1> QED  BY <1>1, <1>5, <1>6, <1>7, <1>8

\* The oldest row that is owed is the next one.
LEMMA HistTakesRow ==
  ASSUME HistType, NEW b \in Nat, NEW e \in Nat, HistOwed(b, e), NEW w \in Writers,
         owed[w] # History!Nothing, owed' = [owed EXCEPT ![w] = History!Nothing],
         UNCHANGED <<rows, clears>>,
         \A v \in Writers \cup {user} : owed[v] # History!Nothing => ~(owed[v].made < owed[w].made)
  PROVE  /\ owed[w] \in HistRow /\ owed[w].row = e + 1 /\ HistOwed(b, e + 1)'
         /\ owed'[user] = owed[user] /\ (owed[user] # History!Nothing => e + 1 <= b)
         /\ e + 1 <= rows
<1>1. user \notin Writers /\ rows \in Nat /\ clears \in Nat
  BY HistBounds DEF HistType
<1>2. /\ owed'[w] = History!Nothing
      /\ \A v \in Writers \cup {user} : v # w => owed'[v] = owed[v]
  BY <1>1 DEF HistType
<1>3. \A v \in Writers : owed[v] # History!Nothing => owed[v].row \in Nat /\ owed[v].made \in Nat
  BY DEF HistType, HistRow
<1>4. owed[w] \in HistRow /\ owed[w].row \in e + 1 .. rows
  BY DEF HistType, HistOwed
<1>5. owed[w].row = e + 1
  <2> SUFFICES ASSUME owed[w].row # e + 1 PROVE FALSE
    OBVIOUS
  <2>1. e + 1 \in e + 1 .. rows /\ e + 1 < owed[w].row
    BY <1>1, <1>4
  <2>2. PICK v \in Writers : owed[v] # History!Nothing /\ owed[v].row = e + 1
    BY <2>1 DEF HistOwed
  <2>3. owed[v].made < owed[w].made
    BY <2>1, <2>2 DEF HistOwed
  <2> QED  BY <2>2, <2>3
<1>6. e + 1 <= rows
  BY <1>1, <1>4
<1>7. owed'[user] = owed[user]
  BY <1>1, <1>2
<1>8. owed[user] # History!Nothing => e + 1 <= b
  <2> SUFFICES ASSUME owed[user] # History!Nothing, b < e + 1 PROVE FALSE
    OBVIOUS
  <2>1. owed[w].made = e + 1 - 1 + clears /\ owed[user].made + 1 = b + clears
    BY <1>5 DEF HistOwed
  <2>2. owed[user].made \in Nat /\ owed[w].made \in Nat
    BY <1>3 DEF HistType, HistClear
  <2>3. owed[user].made < owed[w].made
    BY <1>1, <2>1, <2>2
  <2> QED  BY <2>3
<1>9. \A v \in Writers : owed'[v] # History!Nothing =>
        v # w /\ owed'[v] = owed[v] /\ owed[v] # History!Nothing
  BY <1>2
<1>10. \A v \in Writers : owed'[v] # History!Nothing =>
        /\ owed'[v].row \in e + 1 + 1 .. rows'
        /\ owed'[v].row > b => owed'[v].made = owed'[v].row - 1 + clears'
        /\ owed'[v].row <= b => owed'[v].made + 1 < b + clears'
  <2> SUFFICES ASSUME NEW v \in Writers, owed'[v] # History!Nothing
               PROVE  /\ owed[v].row \in e + 1 + 1 .. rows
                      /\ owed[v].row > b => owed[v].made = owed[v].row - 1 + clears
                      /\ owed[v].row <= b => owed[v].made + 1 < b + clears
    BY <1>9
  <2>1. /\ owed[v].row \in e + 1 .. rows /\ owed[v].row \in Nat
        /\ owed[v].row > b => owed[v].made = owed[v].row - 1 + clears
        /\ owed[v].row <= b => owed[v].made + 1 < b + clears
    BY <1>3, <1>9 DEF HistOwed
  <2>2. owed[v].row # e + 1
    BY <1>5, <1>9 DEF HistOwed
  <2>3. owed[v].row \in e + 1 + 1 .. rows
    BY <1>1, <2>1, <2>2
  <2> QED  BY <2>1, <2>3
<1>11. ASSUME NEW r \in e + 1 + 1 .. rows'
       PROVE  \E v \in Writers : owed'[v] # History!Nothing /\ owed'[v].row = r
  <2>1. r \in e + 1 .. rows /\ r # e + 1
    BY <1>1
  <2>2. PICK v \in Writers : owed[v] # History!Nothing /\ owed[v].row = r
    BY <2>1 DEF HistOwed
  <2> QED  BY <1>2, <1>5, <2>1, <2>2
<1>12. \A u, v \in Writers : owed'[u] # History!Nothing /\ owed'[v] # History!Nothing /\ u # v =>
         /\ owed'[u].row # owed'[v].row
         /\ owed'[u].row < owed'[v].row => owed'[u].made < owed'[v].made
  BY <1>9 DEF HistOwed
<1>13. /\ owed'[user] # History!Nothing => owed'[user].made + 1 = b + clears' /\ e + 1 <= b
       /\ owed'[user] = History!Nothing => b <= e + 1
  <2>1. owed[user] = History!Nothing => b <= e
    BY DEF HistOwed
  <2>2. b <= e => b <= e + 1
    OBVIOUS
  <2> QED  BY <1>7, <1>8, <2>1, <2>2 DEF HistOwed
<1>14. HistOwed(b, e + 1)'
  BY <1>10, <1>11, <1>12, <1>13 DEF HistOwed
<1> QED  BY <1>4, <1>5, <1>6, <1>7, <1>8, <1>14

\* When the clear is the oldest change that is owed every row before it is told.
LEMMA HistTakesClear ==
  ASSUME HistType, NEW b \in Nat, NEW e \in Nat, b <= rows, HistOwed(b, e),
         owed[user] # History!Nothing, owed' = [owed EXCEPT ![user] = History!Nothing],
         UNCHANGED <<rows, clears>>,
         \A v \in Writers \cup {user} : owed[v] # History!Nothing => ~(owed[v].made < owed[user].made)
  PROVE  owed[user] \in HistClear /\ e = b /\ HistOwed(b, e)' /\ owed'[user] = History!Nothing
<1>1. user \notin Writers /\ rows \in Nat /\ clears \in Nat /\ owed[user] \in HistClear
  BY HistBounds DEF HistType
<1>2. owed'[user] = History!Nothing /\ \A v \in Writers : owed'[v] = owed[v]
  BY <1>1 DEF HistType
<1>3. e <= b /\ owed[user].made + 1 = b + clears /\ owed[user].made \in Nat
  BY <1>1 DEF HistOwed, HistClear
<1>4. e = b
  <2> SUFFICES ASSUME e < b PROVE FALSE
    BY <1>3
  <2>1. e + 1 \in e + 1 .. rows
    BY <1>1
  <2>2. PICK v \in Writers : owed[v] # History!Nothing /\ owed[v].row = e + 1
    BY <2>1 DEF HistOwed
  <2>3. owed[v].made + 1 < b + clears /\ owed[v].made \in Nat
    BY <2>2 DEF HistOwed, HistType, HistRow
  <2>4. owed[v].made < owed[user].made
    BY <1>1, <1>3, <2>3
  <2> QED  BY <2>2, <2>4
<1>5. HistOwed(b, e)'
  BY <1>2, <1>4 DEF HistOwed
<1> QED  BY <1>1, <1>2, <1>4, <1>5

\* The next event that is told is that of the oldest change that is owed.
LEMMA HistEmitsKeeps ==
  ASSUME HistInv, NEW w \in Writers \cup {user}, History!Emits(w)
  PROVE  HistInv'
<1>1. /\ owed[w] # History!Nothing /\ owed' = [owed EXCEPT ![w] = History!Nothing]
      /\ logWire' = IF logFetch = History!Unmounted THEN logWire ELSE Append(logWire, owed[w])
      /\ crossed' = (crossed \/ \E v \in Writers \cup {user} :
                       owed[v] # History!Nothing /\ owed[v].made < owed[w].made)
      /\ UNCHANGED <<log, rows, clears, logFetch, entries, logForced>>
  BY DEF History!Emits, History!screen
<1>2. HistType /\ user \notin Writers /\ rows \in Nat /\ clears \in Nat
  BY HistBounds DEF HistInv, HistType
<1>3. /\ owed'[w] = History!Nothing
      /\ \A v \in Writers \cup {user} : v # w => owed'[v] = owed[v]
      /\ owed' \in [Writers \cup {user} -> HistRow \cup HistClear \cup {History!Nothing}]
  BY <1>1, <1>2 DEF HistType
<1>4. PICK x : x = owed[w] /\ x \in HistRow \cup HistClear
  BY <1>1, <1>2 DEF HistType
<1>5. logFetch.at = "unmounted" <=> logFetch = History!Unmounted
  BY <1>2, HistOperations DEF HistType
<1>6. PICK n : n = Len(logWire) /\ n \in Nat
  BY <1>2, LenProperties DEF HistType
<1>7. /\ logWire' \in Seq(HistRow \cup HistClear)
      /\ logFetch.at # "unmounted" =>
           /\ Len(logWire') = n + 1 /\ logWire'[n + 1] = x
           /\ \A i \in 1 .. n : logWire'[i] = logWire[i]
      /\ logFetch.at = "unmounted" => logWire' = <<>> /\ logWire = <<>> /\ n = 0 /\ Len(logWire') = 0
  <2>1. CASE logFetch.at = "unmounted"
    BY <1>1, <1>2, <1>5, <1>6, <2>1 DEF HistType
  <2>2. CASE logFetch.at # "unmounted"
    <3>1. logWire' = Append(logWire, x)
      BY <1>1, <1>4, <1>5, <2>2
    <3> QED  BY <1>2, <1>4, <1>6, <2>2, <3>1, AppendProperties DEF HistType
  <2> QED  BY <2>1, <2>2
<1>8. HistType'
  <2>1. owed'[user] \in HistClear \cup {History!Nothing}
    BY <1>2, <1>3 DEF HistType
  <2>2. \A v \in Writers : owed'[v] \in HistRow \cup {History!Nothing}
    BY <1>2, <1>3 DEF HistType
  <2>3. crossed' \in BOOLEAN
    BY <1>1, <1>2 DEF HistType
  <2> QED  BY <1>1, <1>2, <1>3, <1>7, <2>1, <2>2, <2>3 DEF HistType
<1>9. ASSUME ~crossed' PROVE \E b, d, e \in Nat : HistOrder(b, d, e)'
  <2>1. PICK b \in Nat, d \in Nat, e \in Nat : HistOrder(b, d, e)
    BY <1>1, <1>9 DEF HistInv
  <2>2. /\ b <= rows /\ d <= e /\ e <= rows /\ HistRun(log, rows, b)
        /\ HistWire(d, e) /\ HistOwed(b, e) /\ HistCleared(b, d) /\ HistScreen(b, d)
    BY <2>1 DEF HistOrder
  <2>3. \A v \in Writers \cup {user} : owed[v] # History!Nothing => ~(owed[v].made < owed[w].made)
    BY <1>1, <1>9
  <2>4. HistRun(log, rows, b)'
    BY <1>1, <2>2 DEF HistRun
  <2>5. logFetch.at = "unmounted" => d = e
    <3>1. logFetch.at = "unmounted" => \A r \in d + 1 .. e : FALSE
      BY <1>7, <1>6, <2>2 DEF HistWire
    <3>2. d < e => d + 1 \in d + 1 .. e
      OBVIOUS
    <3> QED  BY <2>2, <3>1, <3>2
  <2>6. CASE w # user
    <3>1. w \in Writers
      BY <2>6
    <3>2. /\ x \in HistRow /\ x.row = e + 1 /\ HistOwed(b, e + 1)'
          /\ owed'[user] = owed[user] /\ (owed[user] # History!Nothing => e + 1 <= b)
          /\ e + 1 <= rows
      BY <1>1, <1>2, <1>4, <2>2, <2>3, <3>1, HistTakesRow
    <3>3. x.type = "row"
      BY <3>2 DEF HistRow
    <3>4. e + 1 \in Nat /\ d + 1 \in Nat
      OBVIOUS
    <3>5. CASE logFetch.at = "unmounted"
      <4>1. HistWire(e + 1, e + 1)'
        <5>1. \A r \in e + 1 + 1 .. e + 1 : FALSE
          OBVIOUS
        <5> QED  BY <1>7, <3>5, <5>1 DEF HistWire
      <4>2. HistClearing' <=> HistClearing
        BY <1>6, <1>7, <3>2, <3>5 DEF HistClearing
      <4>3. HistClearing => e + 1 <= b
        BY <1>6, <1>7, <3>2, <3>5 DEF HistClearing
      <4>4. ~HistClearing => b <= e + 1
        BY <2>2, <2>5, <3>5 DEF HistCleared
      <4>5. HistCleared(b, e + 1)'
        BY <1>7, <3>5, <4>2, <4>3, <4>4 DEF HistCleared
      <4>6. HistScreen(b, e + 1)'
        BY <1>1, <3>5 DEF HistScreen
      <4>7. e + 1 <= e + 1
        OBVIOUS
      <4> QED  BY <1>1, <2>2, <2>4, <3>2, <3>4, <4>1, <4>5, <4>6, <4>7 DEF HistOrder
    <3>6. CASE logFetch.at # "unmounted"
      <4>1. /\ Len(logWire') = n + 1 /\ logWire'[n + 1] = x
            /\ \A i \in 1 .. n : logWire'[i] = logWire[i]
            /\ \A i \in 1 .. n + 1 : i \in 1 .. n \/ i = n + 1
        BY <1>6, <1>7, <3>6
      <4>2. HistWire(d, e + 1)'
        <5>1. ASSUME NEW k \in 1 .. n + 1, logWire'[k].type = "row"
              PROVE  logWire'[k].row \in d + 1 .. e + 1
          <6>1. CASE k = n + 1
            BY <2>2, <3>2, <4>1, <6>1
          <6>2. CASE k \in 1 .. n
            <7>1. logWire[k].row \in d + 1 .. e
              BY <1>6, <2>2, <4>1, <5>1, <6>2 DEF HistWire
            <7> QED  BY <4>1, <6>2, <7>1
          <6> QED  BY <4>1, <6>1, <6>2
        <5>2. ASSUME NEW r \in d + 1 .. e + 1
              PROVE  \E k \in 1 .. n + 1 : logWire'[k].type = "row" /\ logWire'[k].row = r
          <6>1. CASE r = e + 1
            <7>1. n + 1 \in 1 .. n + 1
              BY <1>6
            <7> QED  BY <3>2, <3>3, <4>1, <6>1, <7>1
          <6>2. CASE r # e + 1
            <7>1. r \in d + 1 .. e
              BY <6>2
            <7>2. PICK k \in 1 .. n : logWire[k].type = "row" /\ logWire[k].row = r
              BY <1>6, <2>2, <7>1 DEF HistWire
            <7>3. k \in 1 .. n + 1
              BY <1>6
            <7> QED  BY <4>1, <7>2, <7>3
          <6> QED  BY <6>1, <6>2
        <5>3. ASSUME NEW j \in 1 .. n + 1, NEW k \in 1 .. n + 1, j < k,
                     logWire'[j].type = "row", logWire'[k].type = "row"
              PROVE  logWire'[j].row < logWire'[k].row
          <6>1. j \in 1 .. n /\ logWire'[j] = logWire[j]
            BY <1>6, <4>1, <5>3
          <6>2. CASE k = n + 1
            <7>1. logWire[j].row \in d + 1 .. e
              BY <1>6, <2>2, <5>3, <6>1 DEF HistWire
            <7> QED  BY <3>2, <4>1, <6>1, <6>2, <7>1
          <6>3. CASE k \in 1 .. n
            BY <1>6, <2>2, <4>1, <5>3, <6>1, <6>3 DEF HistWire
          <6> QED  BY <4>1, <6>2, <6>3
        <5> QED  BY <4>1, <5>1, <5>2, <5>3 DEF HistWire
      <4>3. HistClearing' <=> HistClearing
        <5>1. (\E k \in 1 .. n + 1 : logWire'[k].type = "clear")
                <=> \E k \in 1 .. n : logWire[k].type = "clear"
          <6>1. \A k \in 1 .. n : k \in 1 .. n + 1
            BY <1>6
          <6>2. x.type # "clear"
            BY <3>3
          <6> QED  BY <4>1, <6>1, <6>2
        <5> QED  BY <1>6, <3>2, <4>1, <5>1 DEF HistClearing
      <4>4. HistCleared(b, d)'
        <5>1. ASSUME NEW j \in 1 .. n + 1, NEW k \in 1 .. n + 1, j < k,
                     logWire'[j].type = "row", logWire'[k].type = "clear"
              PROVE  logWire'[j].row <= b
          <6>1. j \in 1 .. n /\ k \in 1 .. n
            BY <1>6, <3>3, <4>1, <5>1
          <6> QED  BY <1>6, <2>2, <4>1, <5>1, <6>1 DEF HistCleared
        <5>2. ASSUME owed'[user] = History!Nothing, NEW j \in 1 .. n + 1, logWire'[j].type = "row",
                     \A k \in j + 1 .. n + 1 : logWire'[k].type # "clear"
              PROVE  logWire'[j].row > b
          <6>1. CASE j = n + 1
            <7>1. b <= e
              BY <2>2, <3>2, <5>2 DEF HistOwed
            <7> QED  BY <3>2, <4>1, <6>1, <7>1
          <6>2. CASE j \in 1 .. n
            <7>1. \A k \in j + 1 .. n : logWire[k].type # "clear"
              <8>1. \A k \in j + 1 .. n : k \in j + 1 .. n + 1 /\ k \in 1 .. n
                BY <1>6, <6>2
              <8> QED  BY <4>1, <5>2, <8>1
            <7> QED  BY <1>6, <2>2, <3>2, <4>1, <5>2, <6>2, <7>1 DEF HistCleared
          <6> QED  BY <4>1, <6>1, <6>2
        <5>3. IF HistClearing' THEN d <= b ELSE b <= d
          BY <2>2, <4>3 DEF HistCleared
        <5> QED  BY <4>1, <5>1, <5>2, <5>3 DEF HistCleared
      <4>5. HistScreen(b, d)'
        <5>1. HistListed(entries, d, b) => HistListed(entries, d, b)'
          <6>1. entries' = entries /\ rows' = rows
            BY <1>1
          <6> QED  BY <1>2, <6>1, HistListedStays
        <5> QED  BY <1>1, <2>2, <4>3, <5>1 DEF HistScreen, HistRun
      <4>6. d <= e + 1
        BY <2>2
      <4> QED  BY <1>1, <2>2, <2>4, <3>2, <3>4, <4>2, <4>4, <4>5, <4>6 DEF HistOrder
    <3> QED  BY <3>5, <3>6
  <2>7. CASE w = user
    <3>1. x \in HistClear /\ e = b /\ HistOwed(b, e)' /\ owed'[user] = History!Nothing
      BY <1>1, <1>2, <1>4, <2>2, <2>3, <2>7, HistTakesClear
    <3>2. x.type = "clear" /\ HistClearing
      BY <1>1, <2>7, <3>1 DEF HistClear, HistClearing
    <3>3. CASE logFetch.at = "unmounted"
      <4>1. HistWire(d, e)'
        BY <1>6, <1>7, <2>2, <3>3 DEF HistWire
      <4>2. ~HistClearing'
        BY <1>7, <3>1, <3>3 DEF HistClearing
      <4>3. HistCleared(b, d)'
        BY <1>7, <2>5, <3>1, <3>3, <4>2 DEF HistCleared
      <4>4. HistScreen(b, d)'
        BY <1>1, <3>3 DEF HistScreen
      <4> QED  BY <1>1, <2>2, <2>4, <3>1, <4>1, <4>3, <4>4 DEF HistOrder
    <3>4. CASE logFetch.at # "unmounted"
      <4>1. /\ Len(logWire') = n + 1 /\ logWire'[n + 1] = x
            /\ \A i \in 1 .. n : logWire'[i] = logWire[i]
            /\ \A i \in 1 .. n + 1 : i \in 1 .. n \/ i = n + 1
            /\ n + 1 \in 1 .. n + 1 /\ \A i \in 1 .. n : i \in 1 .. n + 1
        BY <1>6, <1>7, <3>4
      <4>2. \A i \in 1 .. n + 1 : logWire'[i].type = "row" => i \in 1 .. n
        BY <3>2, <4>1
      <4>3. HistWire(d, e)'
        <5>1. \A k \in 1 .. n + 1 : logWire'[k].type = "row" => logWire'[k].row \in d + 1 .. e
          BY <1>6, <2>2, <4>1, <4>2 DEF HistWire
        <5>2. \A r \in d + 1 .. e :
                \E k \in 1 .. n + 1 : logWire'[k].type = "row" /\ logWire'[k].row = r
          BY <1>6, <2>2, <4>1 DEF HistWire
        <5>3. \A j, k \in 1 .. n + 1 :
                j < k /\ logWire'[j].type = "row" /\ logWire'[k].type = "row"
                  => logWire'[j].row < logWire'[k].row
          BY <1>6, <2>2, <4>1, <4>2 DEF HistWire
        <5> QED  BY <4>1, <5>1, <5>2, <5>3 DEF HistWire
      <4>4. HistClearing'
        BY <3>2, <4>1 DEF HistClearing
      <4>5. HistCleared(b, d)'
        <5>1. \A j \in 1 .. n + 1 : logWire'[j].type = "row" => logWire'[j].row <= b
          <6> SUFFICES ASSUME NEW j \in 1 .. n + 1, logWire'[j].type = "row"
                       PROVE  logWire'[j].row <= b
            OBVIOUS
          <6>1. logWire'[j].row \in d + 1 .. e
            BY <4>1, <4>3 DEF HistWire
          <6> QED  BY <3>1, <6>1
        <5>2. ASSUME NEW j \in 1 .. n + 1, logWire'[j].type = "row"
              PROVE  \E k \in j + 1 .. n + 1 : logWire'[k].type = "clear"
          <6>1. n + 1 \in j + 1 .. n + 1
            BY <1>6, <4>2, <5>2
          <6> QED  BY <3>2, <4>1, <6>1
        <5>3. d <= b
          BY <2>2, <3>2 DEF HistCleared
        <5> QED  BY <4>1, <4>4, <5>1, <5>2, <5>3 DEF HistCleared
      <4> QED  BY <1>1, <2>2, <2>4, <3>1, <4>3, <4>4, <4>5 DEF HistOrder, HistScreen
    <3> QED  BY <3>3, <3>4
  <2> QED  BY <2>6, <2>7
<1> QED  BY <1>8, <1>9 DEF HistInv

\* The next event on its way is the next row or a clear.
LEMMA HistDeliverKeeps ==
  ASSUME HistInv, History!Deliver
  PROVE  HistInv'
<1>1. PICK x : /\ logWire # <<>> /\ x = Head(logWire) /\ logWire' = Tail(logWire)
               /\ \/ x.type = "row" /\ History!Appends(x)
                  \/ x.type = "clear" /\ History!Clears
               /\ UNCHANGED <<log, owed, rows, clears, crossed, logForced>>
  BY DEF History!Deliver, History!go
<1>2. HistType /\ rows \in Nat /\ clears \in Nat /\ entries \in Seq(Nat) /\ logFetch \in HistHandle
  BY DEF HistInv, HistType
<1>3. PICK n : n = Len(logWire) /\ n \in Nat
  BY <1>2, LenProperties DEF HistType
<1>4. /\ x \in HistRow \cup HistClear /\ logWire' \in Seq(HistRow \cup HistClear)
      /\ Len(logWire') = n - 1 /\ n \in Nat \ {0} /\ x = logWire[1]
      /\ \A i \in 1 .. n - 1 : logWire'[i] = logWire[i + 1]
  BY <1>1, <1>2, <1>3, HeadTailProperties, EmptySeq, LenProperties DEF HistType
<1>5. logFetch.at # "unmounted"
  BY <1>1, <1>2 DEF HistType
<1>6. /\ logFetch' = History!Pushed(logFetch)
      /\ x.type = "row" => entries' = History!Newest(<<x.row>> \o entries)
      /\ x.type = "clear" => entries' = <<>>
  BY <1>1 DEF History!Appends, History!Clears
<1>7. /\ logFetch' \in HistHandle /\ logFetch'.at = logFetch.at
      /\ logFetch'.at = "answered" => logFetch'.dirty
  BY <1>2, <1>5, <1>6, HistOperations
<1>8. (x.type = "row" /\ x.row \in Nat) \/ x.type = "clear"
  BY <1>4 DEF HistRow, HistClear
<1>9. HistType'
  <2>1. entries' \in Seq(Nat)
    <3>1. CASE x.type = "row"
      <4>1. <<x.row>> \in Seq(Nat)
        BY <1>8, <3>1
      <4>2. <<x.row>> \o entries \in Seq(Nat)
        BY <1>2, <4>1, ConcatProperties
      <4> QED  BY <1>6, <3>1, <4>2, HistNewest
    <3>2. CASE x.type = "clear"
      BY <1>6, <3>2, EmptySeq
    <3> QED  BY <1>8, <3>1, <3>2
  <2> QED  BY <1>1, <1>2, <1>4, <1>5, <1>7, <2>1 DEF HistType
<1>10. /\ \A i \in 1 .. n - 1 : i + 1 \in 1 .. n
       /\ \A i \in 1 .. n : i = 1 \/ i - 1 \in 1 .. n - 1
       /\ \A i \in 2 .. n : i - 1 \in 1 .. n - 1 /\ logWire'[i - 1] = logWire[i]
       /\ 1 \in 1 .. n
  <2>1. /\ \A i \in 1 .. n - 1 : i + 1 \in 1 .. n
        /\ \A i \in 1 .. n : i = 1 \/ i - 1 \in 1 .. n - 1
        /\ \A i \in 2 .. n : i - 1 \in 1 .. n - 1 /\ (i - 1) + 1 = i
        /\ 1 \in 1 .. n
    BY <1>4
  <2> QED  BY <1>4, <2>1
<1>11. ASSUME ~crossed' PROVE \E b, d, e \in Nat : HistOrder(b, d, e)'
  <2>1. PICK b \in Nat, d \in Nat, e \in Nat : HistOrder(b, d, e)
    BY <1>1, <1>11 DEF HistInv
  <2>2. /\ b <= rows /\ d <= e /\ e <= rows /\ HistRun(log, rows, b)
        /\ HistWire(d, e) /\ HistOwed(b, e) /\ HistCleared(b, d) /\ HistScreen(b, d)
    BY <2>1 DEF HistOrder
  <2>3. HistRun(log, rows, b)' /\ HistOwed(b, e)'
    BY <1>1, <2>2 DEF HistRun, HistOwed
  <2>4. ASSUME NEW j \in 1 .. n - 1, NEW k \in 1 .. n - 1, j < k,
               logWire'[j].type = "row", logWire'[k].type = "row"
        PROVE  logWire'[j].row < logWire'[k].row
    <3>1. j + 1 \in 1 .. n /\ k + 1 \in 1 .. n /\ j + 1 < k + 1
      BY <1>10, <2>4
    <3>2. logWire'[j] = logWire[j + 1] /\ logWire'[k] = logWire[k + 1]
      BY <1>4
    <3> QED  BY <1>3, <2>2, <2>4, <3>1, <3>2 DEF HistWire
  <2>5. ASSUME NEW j \in 1 .. n - 1, NEW k \in 1 .. n - 1, j < k,
               logWire'[j].type = "row", logWire'[k].type = "clear"
        PROVE  logWire'[j].row <= b
    <3>1. j + 1 \in 1 .. n /\ k + 1 \in 1 .. n /\ j + 1 < k + 1
      BY <1>10, <2>5
    <3>2. logWire'[j] = logWire[j + 1] /\ logWire'[k] = logWire[k + 1]
      BY <1>4
    <3> QED  BY <1>3, <2>2, <2>5, <3>1, <3>2 DEF HistCleared
  <2>6. ASSUME owed'[user] = History!Nothing, NEW j \in 1 .. n - 1, logWire'[j].type = "row",
               \A k \in j + 1 .. n - 1 : logWire'[k].type # "clear"
        PROVE  logWire'[j].row > b
    <3>1. j + 1 \in 1 .. n /\ logWire'[j] = logWire[j + 1]
      BY <1>4, <1>10
    <3>2. ASSUME NEW k \in (j + 1) + 1 .. n PROVE logWire[k].type # "clear"
      <4>1. k \in 2 .. n /\ k - 1 \in j + 1 .. n - 1
        BY <1>4
      <4>2. logWire'[k - 1] = logWire[k]
        BY <1>10, <4>1
      <4> QED  BY <2>6, <4>1, <4>2
    <3> QED  BY <1>1, <1>3, <2>2, <2>6, <3>1, <3>2 DEF HistCleared
  <2>7. HistClearing' <=>
          owed[user] # History!Nothing \/ \E k \in 2 .. n : logWire[k].type = "clear"
    <3>1. (\E k \in 1 .. n - 1 : logWire'[k].type = "clear")
            <=> \E k \in 2 .. n : logWire[k].type = "clear"
      <4>1. ASSUME NEW k \in 1 .. n - 1, logWire'[k].type = "clear"
            PROVE  \E i \in 2 .. n : logWire[i].type = "clear"
        <5>1. k + 1 \in 2 .. n
          BY <1>4
        <5> QED  BY <1>4, <4>1, <5>1
      <4>2. ASSUME NEW k \in 2 .. n, logWire[k].type = "clear"
            PROVE  \E i \in 1 .. n - 1 : logWire'[i].type = "clear"
        BY <1>10, <4>2
      <4> QED  BY <4>1, <4>2
    <3> QED  BY <1>1, <1>4, <3>1 DEF HistClearing
  <2>8. CASE x.type = "row"
    <3>1. x.row \in d + 1 .. e
      BY <1>3, <1>4, <1>10, <2>2, <2>8 DEF HistWire
    <3>2. x.row = d + 1
      <4> SUFFICES ASSUME x.row # d + 1 PROVE FALSE
        OBVIOUS
      <4>1. d + 1 \in d + 1 .. e /\ d + 1 < x.row
        BY <3>1
      <4>2. PICK k \in 1 .. n : logWire[k].type = "row" /\ logWire[k].row = d + 1
        BY <1>3, <2>2, <4>1 DEF HistWire
      <4>3. 1 < k
        BY <1>4, <4>1, <4>2
      <4>4. logWire[1].row < logWire[k].row
        BY <1>3, <1>4, <1>10, <2>2, <2>8, <4>2, <4>3 DEF HistWire
      <4> QED  BY <1>4, <3>1, <4>1, <4>2, <4>4
    <3>3. d + 1 \in Nat /\ d + 1 <= e /\ d < rows
      BY <1>2, <2>2, <3>1
    <3>4. HistWire(d + 1, e)'
      <4>1. ASSUME NEW k \in 1 .. n - 1, logWire'[k].type = "row"
            PROVE  logWire'[k].row \in d + 1 + 1 .. e
        <5>1. k + 1 \in 1 .. n /\ 1 < k + 1 /\ logWire'[k] = logWire[k + 1]
          BY <1>4, <1>10
        <5>2. logWire[k + 1].row \in d + 1 .. e
          BY <1>3, <2>2, <4>1, <5>1 DEF HistWire
        <5>3. logWire[1].row < logWire[k + 1].row
          BY <1>3, <1>4, <1>10, <2>2, <2>8, <4>1, <5>1 DEF HistWire
        <5> QED  BY <1>4, <3>2, <5>1, <5>2, <5>3
      <4>2. ASSUME NEW r \in d + 1 + 1 .. e
            PROVE  \E k \in 1 .. n - 1 : logWire'[k].type = "row" /\ logWire'[k].row = r
        <5>1. r \in d + 1 .. e /\ r # d + 1
          BY <3>3
        <5>2. PICK k \in 1 .. n : logWire[k].type = "row" /\ logWire[k].row = r
          BY <1>3, <2>2, <5>1 DEF HistWire
        <5>3. k \in 2 .. n
          <6>1. k # 1
            BY <1>4, <3>2, <5>1, <5>2
          <6> QED  BY <1>4, <6>1
        <5> QED  BY <1>10, <5>2, <5>3
      <4> QED  BY <1>4, <2>4, <4>1, <4>2 DEF HistWire
    <3>5. HistClearing' <=> HistClearing
      <4>1. (\E k \in 2 .. n : logWire[k].type = "clear") <=> \E k \in 1 .. n : logWire[k].type = "clear"
        <5>1. \A k \in 1 .. n : logWire[k].type = "clear" => k \in 2 .. n
          <6>1. \A k \in 1 .. n : k = 1 \/ k \in 2 .. n
            BY <1>4
          <6>2. logWire[1].type # "clear"
            BY <1>4, <2>8
          <6> QED  BY <6>1, <6>2
        <5>2. \A k \in 2 .. n : k \in 1 .. n
          BY <1>4
        <5> QED  BY <5>1, <5>2
      <4> QED  BY <1>3, <2>7, <4>1 DEF HistClearing
    <3>6. HistClearing => d + 1 <= b
      <4>1. CASE owed[user] # History!Nothing
        BY <2>2, <3>3, <4>1 DEF HistOwed
      <4>2. CASE \E k \in 1 .. n : logWire[k].type = "clear"
        <5>1. PICK k \in 1 .. n : logWire[k].type = "clear"
          BY <4>2
        <5>2. 1 < k
          <6>1. k # 1
            BY <1>4, <2>8, <5>1
          <6> QED  BY <1>4, <6>1
        <5>3. logWire[1].row <= b
          BY <1>3, <1>4, <1>10, <2>2, <2>8, <5>1, <5>2 DEF HistCleared
        <5> QED  BY <1>4, <3>2, <5>3
      <4> QED  BY <1>3, <4>1, <4>2 DEF HistClearing
    <3>7. ~HistClearing => b <= d /\ b <= d + 1
      <4>1. b <= d => b <= d + 1
        OBVIOUS
      <4> QED  BY <2>2, <4>1 DEF HistCleared
    <3>8. HistCleared(b, d + 1)'
      BY <1>4, <2>5, <2>6, <3>5, <3>6, <3>7 DEF HistCleared
    <3>9. HistScreen(b, d + 1)'
      <4> SUFFICES ASSUME ~HistClearing', ~logForced', logFetch'.at = "settled"
                   PROVE  HistListed(entries, d + 1, b)'
        BY <1>7 DEF HistScreen
      <4>1. HistListed(entries, d, b)
        BY <1>1, <1>7, <2>2, <3>5 DEF HistScreen
      <4>2. HistListed(History!Newest(<<d + 1>> \o entries), d + 1, b)
        BY <1>2, <3>3, <4>1, HistListedGrows
      <4>3. HistListed(entries', d + 1, b)
        BY <1>6, <2>8, <3>2, <4>2
      <4>4. rows' = rows
        BY <1>1
      <4> QED  BY <4>3, <4>4, Zenon DEF HistListed
    <3>10. HistOrder(b, d + 1, e)'
      BY <1>1, <2>2, <2>3, <3>3, <3>4, <3>8, <3>9 DEF HistOrder
    <3> QED  BY <3>3, <3>10
  <2>9. CASE x.type = "clear"
    <3>1. HistClearing /\ d <= b
      <4>1. HistClearing
        BY <1>3, <1>4, <1>10, <2>9 DEF HistClearing
      <4> QED  BY <2>2, <4>1 DEF HistCleared
    <3>2. HistWire(d, e)'
      <4>1. ASSUME NEW k \in 1 .. n - 1, logWire'[k].type = "row"
            PROVE  logWire'[k].row \in d + 1 .. e
        BY <1>3, <1>4, <1>10, <2>2, <4>1 DEF HistWire
      <4>2. ASSUME NEW r \in d + 1 .. e
            PROVE  \E k \in 1 .. n - 1 : logWire'[k].type = "row" /\ logWire'[k].row = r
        <5>1. PICK k \in 1 .. n : logWire[k].type = "row" /\ logWire[k].row = r
          BY <1>3, <2>2 DEF HistWire
        <5>2. k # 1
          BY <1>4, <2>9, <5>1
        <5>3. k \in 2 .. n
          BY <1>4, <5>2
        <5> QED  BY <1>10, <5>1, <5>3
      <4> QED  BY <1>4, <2>4, <4>1, <4>2 DEF HistWire
    <3>3. ~HistClearing' => b <= d
      <4> SUFFICES ASSUME ~HistClearing', d < b PROVE FALSE
        OBVIOUS
      <4>1. owed[user] = History!Nothing /\ \A k \in 2 .. n : logWire[k].type # "clear"
        BY <2>7
      <4>2. b <= e
        BY <2>2, <4>1 DEF HistOwed
      <4>3. d + 1 \in d + 1 .. e
        BY <4>2
      <4>4. PICK k \in 1 .. n : logWire[k].type = "row" /\ logWire[k].row = d + 1
        BY <1>3, <2>2, <4>3 DEF HistWire
      <4>5. \A i \in k + 1 .. n : i \in 2 .. n
        BY <1>4
      <4>6. logWire[k].row > b
        BY <1>3, <2>2, <4>1, <4>4, <4>5 DEF HistCleared
      <4> QED  BY <4>4, <4>6
    <3>4. HistCleared(b, d)'
      BY <1>4, <2>5, <2>6, <3>1, <3>3 DEF HistCleared
    <3>5. HistScreen(b, d)'
      <4> SUFFICES ASSUME ~HistClearing' PROVE HistListed(entries, d, b)'
        BY <1>7 DEF HistScreen
      <4>1. b = d /\ d <= rows'
        BY <1>1, <1>2, <2>2, <3>1, <3>3
      <4>2. Len(entries') = 0 /\ \A i \in 1 .. Len(entries') : FALSE
        BY <1>6, <2>9
      <4>3. Len(entries') = IF Cap < 0 + (d - b) THEN Cap ELSE 0 + (d - b)
        BY <4>1, <4>2, HistBounds
      <4>4. b <= d - 0 /\ d - 0 <= d /\ 0 \in Nat
        BY <4>1
      <4> QED  BY <4>1, <4>2, <4>3, <4>4 DEF HistListed
    <3> QED  BY <1>1, <2>2, <2>3, <3>2, <3>4, <3>5 DEF HistOrder
  <2> QED  BY <1>8, <2>8, <2>9
<1> QED  BY <1>9, <1>11 DEF HistInv

\* Every step of the log and of its window keeps the invariant.
LEMMA HistStep == HistInv /\ [History!Next]_historyVars => HistInv'
<1> SUFFICES ASSUME HistInv, [History!Next]_historyVars PROVE HistInv'
  OBVIOUS
<1>1. CASE UNCHANGED historyVars
  <2>1. /\ log' = log /\ owed' = owed /\ logWire' = logWire /\ logFetch' = logFetch
        /\ entries' = entries /\ rows' = rows /\ clears' = clears /\ crossed' = crossed
        /\ logForced' = logForced
    BY <1>1 DEF historyVars
  <2>2. HistType' /\ rows \in Nat
    BY <2>1 DEF HistInv, HistType
  <2>3. ASSUME NEW b \in Nat, NEW d \in Nat, NEW e \in Nat, HistOrder(b, d, e)
        PROVE  HistOrder(b, d, e)'
    <3>1. HistWire(d, e)' /\ HistOwed(b, e)' /\ HistRun(log, rows, b)'
      BY <2>1, <2>3 DEF HistOrder, HistRun, HistWire, HistOwed
    <3>2. HistClearing' <=> HistClearing
      BY <2>1 DEF HistClearing
    <3>3. HistCleared(b, d)'
      BY <2>1, <2>3, <3>2 DEF HistOrder, HistCleared
    <3>4. HistListed(entries, d, b) => HistListed(entries, d, b)'
      BY <2>1, <2>2, HistListedStays
    <3>5. HistScreen(b, d)'
      BY <2>1, <2>3, <3>2, <3>4 DEF HistOrder, HistScreen, HistRun
    <3> QED  BY <2>1, <2>3, <3>1, <3>3, <3>5 DEF HistOrder
  <2> QED  BY <2>1, <2>2, <2>3 DEF HistInv
<1>2. CASE History!Next
  BY <1>2, HistLogsKeeps, HistClearKeeps, HistEmitsKeeps, HistFetchKeeps, HistDeliverKeeps
  DEF History!Next
<1> QED  BY <1>1, <1>2

\* At rest what is listed is the log.
LEMMA HistHolds == HistInv => History!ScreenListsTheLog
<1> SUFFICES ASSUME HistInv, History!AtRest, ~crossed, ~logForced, History!NoRowTwice
             PROVE  entries = log
  BY DEF History!ScreenListsTheLog
<1>1. /\ logFetch.at = "settled" /\ logWire = <<>> /\ owed[user] = History!Nothing
      /\ \A w \in Writers : owed[w] = History!Nothing
      /\ HistType /\ rows \in Nat /\ entries \in Seq(Nat) /\ log \in Seq(Nat)
  BY DEF History!AtRest, HistInv, HistType, History!Settled
<1>2. PICK b \in Nat, d \in Nat, e \in Nat : HistOrder(b, d, e)
  BY DEF HistInv
<1>3. Len(logWire) = 0 /\ d <= e /\ e <= rows /\ b <= rows
  BY <1>1, <1>2 DEF HistOrder
<1>4. e = rows
  <2>1. e < rows => e + 1 \in e + 1 .. rows
    BY <1>1
  <2> QED  BY <1>1, <1>2, <1>3, <2>1 DEF HistOrder, HistOwed
<1>5. d = e
  <2>1. d < e => d + 1 \in d + 1 .. e
    OBVIOUS
  <2>2. \A k \in 1 .. Len(logWire) : FALSE
    BY <1>3
  <2> QED  BY <1>2, <1>3, <2>1, <2>2 DEF HistOrder, HistWire
<1>6. ~HistClearing
  BY <1>1, <1>3 DEF HistClearing
<1>7. HistListed(entries, d, b) /\ b <= d
  BY <1>1, <1>2, <1>6 DEF HistOrder, HistScreen, HistCleared
<1>8. PICK p \in Nat, q \in Nat :
        /\ b <= d - p /\ d - p <= q /\ q <= rows
        /\ Len(entries) = IF Cap < p + (q - b) THEN Cap ELSE p + (q - b)
        /\ \A i \in 1 .. Len(entries) : entries[i] = IF i <= p THEN d + 1 - i ELSE q + 1 + p - i
  BY <1>7 DEF HistListed
<1>9. /\ Len(log) = IF Cap < d - b THEN Cap ELSE d - b
      /\ \A i \in 1 .. Len(log) : log[i] = d + 1 - i
  BY <1>2, <1>4, <1>5 DEF HistOrder, HistRun
<1>10. Cap \in Nat \ {0} /\ d = rows
  BY <1>4, <1>5, HistBounds
<1>11. CASE q = d - p
  <2>1. p + (q - b) = d - b
    BY <1>8, <1>11
  <2>2. Len(entries) = Len(log)
    BY <1>8, <1>9, <2>1
  <2>3. ASSUME NEW i \in 1 .. Len(entries) PROVE entries[i] = log[i]
    <3>1. q + 1 + p - i = d + 1 - i
      BY <1>8, <1>11
    <3> QED  BY <1>8, <1>9, <2>2, <3>1
  <2> QED  BY <1>1, <2>2, <2>3, SeqEqual
<1>12. CASE q # d - p
  <2>1. q > d - p /\ p >= 1 /\ q - b >= 1 /\ q <= d
    BY <1>8, <1>10, <1>12
  <2>2. CASE p < Cap
    <3>1. p + 1 \in 1 .. Len(entries) /\ d + 1 - q \in 1 .. p
      BY <1>8, <1>10, <2>1, <2>2
    <3>2. d + 1 - q \in 1 .. Len(entries) /\ d + 1 - q # p + 1 /\ ~(p + 1 <= p)
      BY <1>8, <1>10, <3>1
    <3>3. entries[p + 1] = q + 1 + p - (p + 1) /\ entries[d + 1 - q] = d + 1 - (d + 1 - q)
      BY <1>8, <3>1, <3>2
    <3>4. entries[p + 1] = entries[d + 1 - q]
      BY <1>8, <3>3
    <3> QED  BY <3>1, <3>2, <3>4 DEF History!NoRowTwice
  <2>3. CASE p >= Cap
    <3>1. Len(entries) = Cap /\ Len(log) = Cap
      BY <1>8, <1>9, <1>10, <2>1, <2>3
    <3>2. ASSUME NEW i \in 1 .. Len(entries) PROVE entries[i] = log[i]
      <4>1. i <= p
        BY <1>10, <2>3, <3>1
      <4> QED  BY <1>8, <1>9, <3>1, <4>1
    <3> QED  BY <1>1, <3>1, <3>2, SeqEqual
  <2> QED  BY <1>10, <2>2, <2>3
<1> QED  BY <1>11, <1>12

-----------------------------------------------------------------------------
(* The windows of a run, side by side.                                     *)

WindowsInv == RosInv /\ SelInv /\ WstInv /\ HistInv

\* The components start together.
LEMMA WindowsInitial == SideInit => WindowsInv
  BY RosInitial, SelInitial, WstInitial, HistInitial DEF SideInit, WindowsInit, WindowsInv

\* A step is of one component, and the others rest.
LEMMA WindowsSteps ==
  [SideNext]_<<subject, vars, rosterVars, selectionVars, settingsVars, historyVars>> =>
    /\ [Roster!Next]_rosterVars /\ [Selection!Next]_selectionVars
    /\ [Settings!Next]_settingsVars /\ [History!Next]_historyVars
<1> SUFFICES ASSUME [SideNext]_<<subject, vars, rosterVars, selectionVars, settingsVars, historyVars>>
             PROVE  /\ Roster!Next \/ rosterVars' = rosterVars
                    /\ Selection!Next \/ selectionVars' = selectionVars
                    /\ Settings!Next \/ settingsVars' = settingsVars
                    /\ History!Next \/ historyVars' = historyVars
  OBVIOUS
<1>1. CASE UNCHANGED <<subject, vars, rosterVars, selectionVars, settingsVars, historyVars>>
  BY <1>1
<1>2. CASE SideNext
  BY <1>2 DEF SideNext
<1> QED  BY <1>1, <1>2

\* No step of any component disturbs the window of another.
LEMMA WindowsKept ==
  ASSUME WindowsInv,
         [SideNext]_<<subject, vars, rosterVars, selectionVars, settingsVars, historyVars>>
  PROVE  WindowsInv'
<1>1. /\ [Roster!Next]_rosterVars /\ [Selection!Next]_selectionVars
      /\ [Settings!Next]_settingsVars /\ [History!Next]_historyVars
  BY WindowsSteps
<1>2. RosInv' /\ SelInv'
  BY <1>1, RosStep, SelStep DEF WindowsInv
<1>3. WstInv' /\ HistInv'
  BY <1>1, WstStep, HistStep DEF WindowsInv
<1> QED  BY <1>2, <1>3 DEF WindowsInv

\* When a window is at rest it shows what Go holds, whatever answers and
\* events passed each other: the clients and their radios, the highlighted
\* radio, the settings that the user chose, and the newest rows of the log
\* (hydrateSnapshot, hydrateDelta, commitSettings, useThrottledCommit).
THEOREM WindowsMirror == SideSpec => []WindowsMirrorGo
<1>1. SideInit => WindowsInv
  BY WindowsInitial
<1>2. WindowsInv /\ [SideNext]_<<subject, vars, rosterVars, selectionVars, settingsVars, historyVars>>
        => WindowsInv'
  BY WindowsKept
<1>3. WindowsInv => WindowsMirrorGo
  <2>1. RosInv => Roster!RosterIsMirrored
    BY RosHolds
  <2>2. SelInv => Selection!HighlightIsMirrored
    BY SelHolds
  <2>3. WstInv => Settings!SettingsAreMirrored
    BY WstHolds
  <2>4. HistInv => History!ScreenListsTheLog
    BY HistHolds
  <2> QED  BY <2>1, <2>2, <2>3, <2>4 DEF WindowsInv, WindowsMirrorGo
<1> QED  BY <1>1, <1>2, <1>3, PTL DEF SideSpec
=============================================================================

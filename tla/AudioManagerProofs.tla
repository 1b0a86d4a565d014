-------------------------- MODULE AudioManagerProofs --------------------------
(***************************************************************************)
(* The inductive invariant of the audio manager's capture stream, and the  *)
(* proofs of its safety properties for any devices, streams and            *)
(* generations.                                                            *)
(***************************************************************************)
EXTENDS AudioManager, TLAPS

\* Only the poll goroutine of the running generation finds its own epoch, and
\* the manager has no stream while that goroutine opens one.
EpochInv ==
  /\ at # "idle" => ~running
  /\ running => epoch \in Epochs /\ epoch + 1 \in Epochs
  /\ at \in {"starting", "opened"} => epoch + 1 \in Epochs /\ epoch + 2 \in Epochs
  /\ \A e \in Epochs : poll[e] # "none" => e <= epoch
  /\ ~running => \A e \in Epochs : e = epoch => poll[e] = "none"
  /\ captureStream # None => running \/ at \in {"closing", "joining"}
  /\ \A e \in Epochs :
       e = epoch /\ poll[e] \in {"opening", "opened"} => captureStream = None

\* Who may hold a stream: the goroutine that calls Start and Stop, the
\* manager, and the poll goroutine of each generation.
Caller == -1
Manager == 0
Owners == {Caller, Manager} \cup Epochs
Hand(o) == IF o = Caller THEN held.stream
           ELSE IF o = Manager THEN captureStream ELSE seen[o].stream

\* The open streams are those in somebody's hands, and in nobody else's.
HandsInv ==
  /\ held.stream # None => at \in {"opened", "stopping"}
  /\ \A e \in Epochs : seen[e].stream # None => poll[e] \in {"stopOld", "opened"}
  /\ \A o, p \in Owners : Hand(o) = Hand(p) /\ Hand(o) # None => o = p
  /\ \A s \in Streams : open[s] # None <=> \E o \in Owners : Hand(o) = s

\* What was opened feeds the generation it was opened for.
FeedInv ==
  /\ StreamIsOfThisGeneration
  /\ at = "opened" /\ held.stream # None =>
       open[held.stream] = [device |-> Resolve(held.cfg, held.devices), gen |-> epoch + 1]
  /\ \A e \in Epochs : poll[e] = "opened" /\ seen[e].stream # None =>
       open[seen[e].stream] = [device |-> Want(e), gen |-> e]

IInv == TypeOK /\ EpochInv /\ HandsInv /\ FeedInv

\* resolveDevice finds a device, or nothing where nothing enumerates.
LEMMA ResolveType ==
  ASSUME NEW id \in Ids, NEW devices \in SUBSET Devices
  PROVE Resolve(id, devices) \in Ids
  BY DEF Resolve, Ids

\* The backend opens a stream that it did not have open.
LEMMA NewStreamIsFree == Free # {} => NewStream \in Streams /\ open[NewStream] = None
  BY DEF Free, NewStream

\* A stream opens with the device and the generation it was asked for.
LEMMA OpenType ==
  ASSUME TypeOK, NEW device, NEW gen \in Epochs, OpenSucceeds(device, gen)
  PROVE /\ NewStream \in Streams /\ open[NewStream] = None
        /\ open' \in [Streams -> [device : Devices, gen : Epochs] \cup {None}]
        /\ open' = [open EXCEPT ![NewStream] = [device |-> device, gen |-> gen]]
  BY NewStreamIsFree DEF OpenSucceeds, TypeOK

\* Every section keeps the types of the manager's fields and of the locals.
LEMMA TypeNext == TypeOK /\ EpochInv /\ [Next]_vars => TypeOK'
  <1> SUFFICES ASSUME TypeOK, EpochInv, [Next]_vars PROVE TypeOK'
    OBVIOUS
  <1> USE AudioAssumption DEF manager, world, Locals, NoLocals, System
  <1>1. CASE StartEnumerates
    <2>1. present \in SUBSET Devices /\ {} \in SUBSET Devices /\ cfg \in Ids
      BY DEF TypeOK
    <2>2. held' \in Locals
      <3>1. PICK devices \in {present, {}} : held' = [devices |-> devices, cfg |-> cfg, stream |-> None]
        BY <1>1 DEF StartEnumerates
      <3>2. devices \in SUBSET Devices
        BY <2>1, <3>1
      <3> QED
        BY <2>1, <3>1, <3>2
    <2> QED
      BY <1>1, <2>2 DEF StartEnumerates, TypeOK
  <1>2. CASE StartOpens
    <2>1. epoch + 1 \in Epochs
      BY <1>2 DEF StartOpens, EpochInv
    <2>2. CASE UNCHANGED <<open, held>>
      BY <1>2, <2>2 DEF StartOpens, TypeOK
    <2>3. CASE OpenSucceeds(Resolve(held.cfg, held.devices), epoch + 1)
               /\ held' = [held EXCEPT !.stream = NewStream]
      <3>1. held' \in Locals
        BY <2>1, <2>3, OpenType DEF TypeOK
      <3>2. open' \in [Streams -> [device : Devices, gen : Epochs] \cup {None}]
        BY <2>1, <2>3, OpenType
      <3> QED
        BY <1>2, <3>1, <3>2 DEF StartOpens, TypeOK
    <2> QED
      BY <1>2, <2>2, <2>3 DEF StartOpens
  <1>3. CASE StartPublishes
    <2>1. epoch + 1 \in Epochs /\ epoch + 1 \in 0..(2 * MaxStarts)
      BY <1>3 DEF StartPublishes, EpochInv, Epochs
    <2>2. Resolve(held.cfg, held.devices) \in Ids /\ held.cfg \in Ids
      BY ResolveType DEF TypeOK
    <2>3. poll' \in [Epochs -> {"none", "wait", "listed", "compare", "stopOld",
                                "decide", "opening", "opened", "done"}]
      BY <1>3 DEF StartPublishes, TypeOK
    <2> QED
      BY <1>3, <2>1, <2>2, <2>3 DEF StartPublishes, TypeOK, Ids
  <1>4. CASE StopClaims
    <2>1. epoch + 1 \in 0..(2 * MaxStarts)
      BY <1>4 DEF StopClaims, EpochInv, Epochs
    <2> QED
      BY <1>4, <2>1 DEF StopClaims, TypeOK
  <1>5. CASE StopCloses
    BY <1>5 DEF StopCloses, TypeOK
  <1>6. CASE StopTakes
    BY <1>6 DEF StopTakes, TypeOK
  <1>7. ASSUME NEW s, StopStream(s)
        PROVE open' \in [Streams -> [device : Devices, gen : Epochs] \cup {None}]
    BY <1>7 DEF StopStream, TypeOK
  <1>8. CASE StopStops
    BY <1>7, <1>8 DEF StopStops, TypeOK, Ids
  <1>9. ASSUME NEW e \in Epochs,
               NEW where \in {"wait", "compare", "stopOld", "decide", "opening", "opened", "done"},
               Goes(e, where)
        PROVE /\ poll' \in [Epochs -> {"none", "wait", "listed", "compare", "stopOld",
                                       "decide", "opening", "opened", "done"}]
              /\ seen' \in [Epochs -> Locals]
    BY <1>9 DEF Goes, TypeOK, Ids
  <1>10. ASSUME NEW e \in Epochs, Enumerates(e) PROVE TypeOK'
    BY <1>10 DEF Enumerates, TypeOK
  <1>11. ASSUME NEW e \in Epochs, Quits(e) PROVE TypeOK'
    BY <1>9, <1>11 DEF Quits, TypeOK
  <1>12. ASSUME NEW e \in Epochs, Publishes(e) PROVE TypeOK'
    <2>1. CASE Goes(e, "wait")
      BY <1>9, <1>12, <2>1 DEF Publishes, TypeOK
    <2>2. CASE /\ poll' = [poll EXCEPT ![e] = "compare"]
               /\ seen' = [seen EXCEPT ![e].cfg = cfg]
      BY <1>12, <2>2 DEF Publishes, TypeOK
    <2> QED
      BY <1>12, <2>1, <2>2 DEF Publishes
  <1>13. ASSUME NEW e \in Epochs, Supersedes(e) PROVE TypeOK'
    BY <1>13 DEF Supersedes, TypeOK
  <1>14. ASSUME NEW e \in Epochs, Compares(e) PROVE TypeOK'
    BY <1>9, <1>14 DEF Compares, TypeOK
  <1>15. ASSUME NEW e \in Epochs, StopsOld(e) PROVE TypeOK'
    BY <1>7, <1>15 DEF StopsOld, TypeOK
  <1>16. ASSUME NEW e \in Epochs PROVE Want(e) \in Ids
    BY ResolveType DEF Want, TypeOK
  <1>17. ASSUME NEW e \in Epochs, Decides(e) PROVE TypeOK'
    BY <1>9, <1>16, <1>17 DEF Decides, TypeOK
  <1>18. ASSUME NEW e \in Epochs, Opens(e) PROVE TypeOK'
    <2>1. seen' \in [Epochs -> Locals]
      BY <1>18, OpenType DEF Opens, TypeOK
    <2>2. poll' \in [Epochs -> {"none", "wait", "listed", "compare", "stopOld",
                                "decide", "opening", "opened", "done"}]
      BY <1>18 DEF Opens, TypeOK
    <2>3. open' \in [Streams -> [device : Devices, gen : Epochs] \cup {None}]
      BY <1>18, OpenType DEF Opens
    <2> QED
      BY <1>18, <2>1, <2>2, <2>3 DEF Opens, TypeOK
  <1>19. ASSUME NEW e \in Epochs, FailsToOpen(e) PROVE TypeOK'
    BY <1>9, <1>19 DEF FailsToOpen, TypeOK
  <1>20. ASSUME NEW e \in Epochs, Installs(e) PROVE TypeOK'
    <2>1. /\ poll' \in [Epochs -> {"none", "wait", "listed", "compare", "stopOld",
                                   "decide", "opening", "opened", "done"}]
          /\ seen' \in [Epochs -> Locals]
      BY <1>9, <1>20 DEF Installs
    <2>2. UNCHANGED <<world, at, held, stopPoll>>
      BY <1>20 DEF Installs
    <2>3. open' \in [Streams -> [device : Devices, gen : Epochs] \cup {None}]
      BY <1>7, <1>20 DEF Installs, TypeOK
    <2>4. NextBackoff(inputBackoff) \in 0..MaxBackoff /\ 0 \in 0..MaxBackoff
      BY DEF NextBackoff, TypeOK
    <2>5. seen[e].stream \in Streams \cup {None}
      BY DEF TypeOK
    <2>6. /\ running \in BOOLEAN /\ epoch \in 0..(2 * MaxStarts)
          /\ captureStream \in Streams \cup {None}
          /\ inputID \in Ids /\ inputTargetID \in Ids /\ inputAttemptCfg \in Ids
          /\ inputBackoff \in 0..MaxBackoff /\ due \in BOOLEAN
      BY DEF TypeOK
    <2>7. /\ running' \in BOOLEAN /\ epoch' \in 0..(2 * MaxStarts)
          /\ captureStream' \in Streams \cup {None}
          /\ inputID' \in Ids /\ inputTargetID' \in Ids /\ inputAttemptCfg' \in Ids
          /\ inputBackoff' \in 0..MaxBackoff /\ due' \in BOOLEAN
      BY <1>16, <1>20, <2>4, <2>5, <2>6 DEF Installs
    <2> QED
      BY <2>1, <2>2, <2>3, <2>7 DEF TypeOK
  <1>21. CASE RetryFallsDue
    BY <1>21 DEF RetryFallsDue, TypeOK
  <1>22. CASE Plug
    BY <1>22 DEF Plug, TypeOK
  <1>23. CASE SetConfig
    BY <1>23 DEF SetConfig, TypeOK
  <1>24. CASE UNCHANGED vars
    BY <1>24 DEF vars, TypeOK
  <1> QED
    BY <1>1, <1>2, <1>3, <1>4, <1>5, <1>6, <1>8, <1>10, <1>11, <1>12, <1>13, <1>14, <1>15, <1>17,
       <1>18, <1>19, <1>20, <1>21, <1>22, <1>23, <1>24 DEF Next, StartOrStop, PollSteps

\* What a step of one poll goroutine does to where the others are: nothing.
LEMMA GoesOne ==
  ASSUME TypeOK, NEW e \in Epochs, NEW where, Goes(e, where)
  PROVE /\ poll'[e] = where
        /\ \A f \in Epochs \ {e} : poll'[f] = poll[f] /\ seen'[f] = seen[f]
        /\ seen'[e] = IF where = "wait" THEN NoLocals ELSE seen[e]
  BY DEF Goes, TypeOK

\* Start and Stop claim a generation before anyone acts for it, and nobody
\* acts for the one that was given up (Start, Stop, pollOnce).
LEMMA EpochNext == TypeOK /\ EpochInv /\ [Next]_vars => EpochInv'
  <1> SUFFICES ASSUME TypeOK, EpochInv, [Next]_vars PROVE EpochInv'
    OBVIOUS
  <1> USE AudioAssumption DEF manager, world
  <1>1. epoch \in Nat /\ \A e \in Epochs : e \in Nat
    BY DEF TypeOK, Epochs
  <1>2. ASSUME NEW e \in Epochs, UNCHANGED <<at, running, epoch>>,
               captureStream' \in {captureStream, None},
               poll[e] # "none", poll'[e] # "none", \A f \in Epochs \ {e} : poll'[f] = poll[f],
               e = epoch /\ poll'[e] \in {"opening", "opened"} => captureStream' = None
        PROVE EpochInv'
    BY <1>2 DEF EpochInv
  <1>3. CASE StartEnumerates
    <2>1. epoch + 1 \in Epochs /\ epoch + 2 \in Epochs
      BY <1>1, <1>3 DEF StartEnumerates, Epochs
    <2> QED
      BY <1>3, <2>1 DEF StartEnumerates, EpochInv
  <1>4. CASE StartOpens
    BY <1>4 DEF StartOpens, EpochInv
  <1>5. CASE StartPublishes
    <2>1. epoch + 1 \in Epochs /\ epoch + 2 \in Epochs /\ ~running
      BY <1>5 DEF StartPublishes, EpochInv
    <2>2. epoch' + 1 \in Epochs /\ epoch' \in Epochs
      BY <1>1, <1>5, <2>1 DEF StartPublishes
    <2>3. \A e \in Epochs : poll'[e] = IF e = epoch + 1 THEN "wait" ELSE poll[e]
      BY <1>5 DEF StartPublishes, TypeOK
    <2>4. \A e \in Epochs : poll'[e] # "none" => e <= epoch'
      BY <1>1, <1>5, <2>3 DEF StartPublishes, EpochInv
    <2>5. \A e \in Epochs : e = epoch' => poll'[e] = "wait"
      BY <1>5, <2>3 DEF StartPublishes
    <2> QED
      BY <1>5, <2>2, <2>4, <2>5 DEF StartPublishes, EpochInv
  <1>6. CASE StopClaims
    <2>1. \A e \in Epochs : poll[e] # "none" => e <= epoch /\ e # epoch + 1 /\ e <= epoch + 1
      BY <1>1 DEF EpochInv
    <2>2. \A e \in Epochs : e = epoch' => poll[e] = "none"
      BY <1>6, <2>1 DEF StopClaims
    <2> QED
      BY <1>6, <2>1, <2>2 DEF StopClaims, EpochInv
  <1>7. CASE StopCloses
    BY <1>7 DEF StopCloses, EpochInv
  <1>8. CASE StopTakes
    BY <1>8 DEF StopTakes, EpochInv
  <1>9. CASE StopStops
    BY <1>9 DEF StopStops, EpochInv
  <1>10. ASSUME NEW e \in Epochs, NEW where, Goes(e, where), UNCHANGED <<at, running, epoch>>,
                captureStream' \in {captureStream, None}, poll[e] # "none", where # "none",
                e = epoch /\ where \in {"opening", "opened"} => captureStream' = None
         PROVE EpochInv'
    BY <1>2, <1>10, GoesOne
  <1>11. ASSUME NEW e \in Epochs, Enumerates(e) PROVE EpochInv'
    <2>1. poll'[e] = "listed" /\ \A f \in Epochs \ {e} : poll'[f] = poll[f]
      BY <1>11 DEF Enumerates, TypeOK
    <2> QED
      BY <1>2, <1>11, <2>1 DEF Enumerates
  <1>12. ASSUME NEW e \in Epochs, Quits(e) PROVE EpochInv'
    BY <1>10, <1>12 DEF Quits
  <1>13. ASSUME NEW e \in Epochs, Publishes(e) PROVE EpochInv'
    <2>1. CASE Goes(e, "wait")
      BY <1>10, <1>13, <2>1 DEF Publishes
    <2>2. CASE poll' = [poll EXCEPT ![e] = "compare"]
      <3>1. poll'[e] = "compare" /\ \A f \in Epochs \ {e} : poll'[f] = poll[f]
        BY <2>2 DEF TypeOK
      <3> QED
        BY <1>2, <1>13, <3>1 DEF Publishes
    <2> QED
      BY <1>13, <2>1, <2>2 DEF Publishes
  <1>14. ASSUME NEW e \in Epochs, Supersedes(e) PROVE EpochInv'
    <2>1. poll'[e] = "stopOld" /\ \A f \in Epochs \ {e} : poll'[f] = poll[f]
      BY <1>14 DEF Supersedes, TypeOK
    <2> QED
      BY <1>2, <1>14, <2>1 DEF Supersedes
  <1>15. ASSUME NEW e \in Epochs, Compares(e) PROVE EpochInv'
    BY <1>10, <1>15 DEF Compares
  <1>16. ASSUME NEW e \in Epochs, StopsOld(e) PROVE EpochInv'
    <2>1. poll'[e] = "decide" /\ \A f \in Epochs \ {e} : poll'[f] = poll[f]
      BY <1>16 DEF StopsOld, TypeOK
    <2> QED
      BY <1>2, <1>16, <2>1 DEF StopsOld
  <1>17. ASSUME NEW e \in Epochs, Decides(e) PROVE EpochInv'
    <2>1. CASE captureStream = None /\ due /\ epoch = e
      BY <1>10, <1>17, <2>1 DEF Decides
    <2>2. CASE ~(captureStream = None /\ due /\ epoch = e)
      <3>1. Goes(e, "wait")
        BY <1>17, <2>2 DEF Decides
      <3> QED
        BY <1>10, <1>17, <3>1 DEF Decides
    <2> QED
      BY <2>1, <2>2
  <1>18. ASSUME NEW e \in Epochs, Opens(e) PROVE EpochInv'
    <2>1. poll'[e] = "opened" /\ \A f \in Epochs \ {e} : poll'[f] = poll[f]
      BY <1>18 DEF Opens, TypeOK
    <2>2. e = epoch => captureStream = None
      BY <1>18 DEF Opens, EpochInv
    <2> QED
      BY <1>2, <1>18, <2>1, <2>2 DEF Opens
  <1>19. ASSUME NEW e \in Epochs, FailsToOpen(e) PROVE EpochInv'
    <2>1. e = epoch => captureStream = None
      BY <1>19 DEF FailsToOpen, EpochInv
    <2> QED
      BY <1>10, <1>19, <2>1 DEF FailsToOpen
  <1>20. ASSUME NEW e \in Epochs, Installs(e) PROVE EpochInv'
    <2>1. poll'[e] = "wait" /\ \A f \in Epochs \ {e} : poll'[f] = poll[f]
      BY <1>20, GoesOne DEF Installs
    <2>2. poll[e] = "opened" /\ UNCHANGED <<at, running, epoch>>
      BY <1>20 DEF Installs
    <2>3. CASE captureStream' = captureStream
      BY <1>2, <2>1, <2>2, <2>3
    <2>4. CASE captureStream' # captureStream
      <3>1. e = epoch /\ running
        BY <1>20, <2>2, <2>4 DEF Installs, EpochInv
      <3> QED
        BY <2>1, <2>2, <3>1 DEF EpochInv
    <2> QED
      BY <2>3, <2>4
  <1>21. CASE UNCHANGED <<at, running, epoch, poll, captureStream>>
    BY <1>21 DEF EpochInv
  <1>22. CASE RetryFallsDue \/ Plug \/ SetConfig \/ UNCHANGED vars
    BY <1>21, <1>22 DEF RetryFallsDue, Plug, SetConfig, vars
  <1> QED
    BY <1>3, <1>4, <1>5, <1>6, <1>7, <1>8, <1>9, <1>11, <1>12, <1>13, <1>14, <1>15, <1>16, <1>17,
       <1>18, <1>19, <1>20, <1>22 DEF Next, StartOrStop, PollSteps

HandOver(o, p) ==
  /\ Hand(p)' = Hand(o) /\ Hand(p) = None /\ Hand(o)' = None
  /\ \A q \in Owners \ {o, p} : Hand(q)' = Hand(q)

\* The hold of each stream goes with it: to the manager that publishes it, to
\* Stop or to the tick that supersedes it.
LEMMA HandedOver ==
  ASSUME HandsInv, NEW o \in Owners, NEW p \in Owners, o # p, HandOver(o, p), UNCHANGED open
  PROVE /\ \A q, r \in Owners : Hand(q)' = Hand(r)' /\ Hand(q)' # None => q = r
        /\ \A s \in Streams : open'[s] # None <=> \E q \in Owners : Hand(q)' = s
  <1>1. \A q, r \in Owners : Hand(q)' = Hand(r)' /\ Hand(q)' # None => q = r
    BY DEF HandsInv, HandOver
  <1>2. ASSUME NEW s \in Streams, s # None
        PROVE (\E q \in Owners : Hand(q)' = s) <=> \E q \in Owners : Hand(q) = s
    BY <1>2 DEF HandOver
  <1> QED
    BY <1>1, <1>2, AudioAssumption DEF HandsInv

\* OpenCapture gives whoever called it a stream nobody holds.
LEMMA HandedOut ==
  ASSUME HandsInv, NEW o \in Owners, NEW s \in Streams, NEW r, open[s] = None, r # None, Hand(o) = None,
         open' = [open EXCEPT ![s] = r], DOMAIN open = Streams, Hand(o)' = s,
         \A q \in Owners \ {o} : Hand(q)' = Hand(q)
  PROVE /\ \A q, p \in Owners : Hand(q)' = Hand(p)' /\ Hand(q)' # None => q = p
        /\ \A t \in Streams : open'[t] # None <=> \E q \in Owners : Hand(q)' = t
  <1>1. \A q \in Owners : Hand(q) # s
    BY DEF HandsInv
  <1>2. \A q, p \in Owners : Hand(q)' = Hand(p)' /\ Hand(q)' # None => q = p
    BY <1>1 DEF HandsInv
  <1>3. ASSUME NEW t \in Streams, t # s
        PROVE (\E q \in Owners : Hand(q)' = t) <=> \E q \in Owners : Hand(q) = t
    BY <1>3, AudioAssumption
  <1>4. \A t \in Streams : open'[t] = IF t = s THEN r ELSE open[t]
    OBVIOUS
  <1> QED
    BY <1>2, <1>3, <1>4 DEF HandsInv

\* Stream.Stop closes the stream its caller holds, and no other.
LEMMA HandedIn ==
  ASSUME HandsInv, NEW o \in Owners, StopStream(Hand(o)), Hand(o)' = None,
         \A q \in Owners \ {o} : Hand(q)' = Hand(q)
  PROVE /\ \A q, p \in Owners : Hand(q)' = Hand(p)' /\ Hand(q)' # None => q = p
        /\ \A t \in Streams : open'[t] # None <=> \E q \in Owners : Hand(q)' = t
  <1>1. \A q, p \in Owners : Hand(q)' = Hand(p)' /\ Hand(q)' # None => q = p
    BY DEF HandsInv
  <1>2. \A t \in Streams : open'[t] = IF t = Hand(o) THEN None ELSE open[t]
    BY DEF StopStream
  <1>3. ASSUME NEW t \in Streams
        PROVE (\E q \in Owners : Hand(q)' = t) <=> t # Hand(o) /\ \E q \in Owners : Hand(q) = t
    <2>1. t # None
      BY AudioAssumption
    <2>2. CASE t = Hand(o)
      BY <2>1, <2>2 DEF HandsInv
    <2>3. CASE t # Hand(o)
      BY <2>1, <2>3
    <2> QED
      BY <2>2, <2>3
  <1> QED
    BY <1>1, <1>2, <1>3 DEF HandsInv

\* A step that leaves the streams where they are.
LEMMA HandsKept ==
  ASSUME HandsInv, UNCHANGED open, \A q \in Owners : Hand(q)' = Hand(q)
  PROVE /\ \A q, p \in Owners : Hand(q)' = Hand(p)' /\ Hand(q)' # None => q = p
        /\ \A t \in Streams : open'[t] # None <=> \E q \in Owners : Hand(q)' = t
  BY DEF HandsInv

\* The hands of the three kinds of owner.
LEMMA HandOf ==
  /\ Caller \in Owners /\ Manager \in Owners /\ Caller # Manager
  /\ Hand(Caller) = held.stream /\ Hand(Manager) = captureStream
  /\ Hand(Caller)' = held'.stream /\ Hand(Manager)' = captureStream'
  /\ \A e \in Epochs : /\ e \in Owners /\ e # Caller /\ e # Manager
                       /\ Hand(e) = seen[e].stream /\ Hand(e)' = seen'[e].stream
  /\ \A o \in Owners : o = Caller \/ o = Manager \/ o \in Epochs
  BY DEF Hand, Owners, Caller, Manager, Epochs

\* No step leaves a stream open that nobody holds, or stops one that somebody
\* else holds (Start, Stop, closeSupersededStreams, maybeReopenCapture).
LEMMA HandsNext == TypeOK /\ EpochInv /\ HandsInv /\ [Next]_vars => HandsInv'
  <1> SUFFICES ASSUME TypeOK, EpochInv, HandsInv, [Next]_vars PROVE HandsInv'
    OBVIOUS
  <1> USE DEF manager, world
  <1> DEFINE Owned == /\ \A q, p \in Owners : Hand(q)' = Hand(p)' /\ Hand(q)' # None => q = p
                      /\ \A t \in Streams : open'[t] # None <=> \E q \in Owners : Hand(q)' = t
  <1> DEFINE Safe == /\ held'.stream # None => at' \in {"opened", "stopping"}
                     /\ \A e \in Epochs :
                          seen'[e].stream # None => poll'[e] \in {"stopOld", "opened"}
                     /\ Owned
  <1>1. SUFFICES Safe
    BY <1>1 DEF HandsInv
  <1> HIDE DEF Owned
  <1>2. /\ held.stream # None => at \in {"opened", "stopping"}
        /\ \A e \in Epochs : seen[e].stream # None => poll[e] \in {"stopOld", "opened"}
    BY DEF HandsInv
  <1>3. NoLocals.stream = None
    BY DEF NoLocals
  <1>4. ASSUME UNCHANGED <<open, captureStream>>, held'.stream = held.stream,
               \A e \in Epochs : seen'[e].stream = seen[e].stream
        PROVE Owned
    BY <1>4, HandsKept, HandOf DEF Owned
  <1>5. CASE StartEnumerates
    <2>1. held.stream = None /\ held'.stream = None
      BY <1>2, <1>5 DEF StartEnumerates
    <2> QED
      BY <1>2, <1>4, <1>5, <2>1 DEF StartEnumerates
  <1>6. CASE StartOpens
    <2>1. held.stream = None
      BY <1>2, <1>6 DEF StartOpens
    <2>2. UNCHANGED <<captureStream, seen, poll>> /\ at' = "opened"
      BY <1>6 DEF StartOpens
    <2>3. CASE UNCHANGED <<open, held>>
      BY <1>2, <1>4, <2>1, <2>2, <2>3
    <2>4. CASE OpenSucceeds(Resolve(held.cfg, held.devices), epoch + 1)
               /\ held' = [held EXCEPT !.stream = NewStream]
      <3>1. epoch + 1 \in Epochs
        BY <1>6 DEF StartOpens, EpochInv
      <3> DEFINE r == [device |-> Resolve(held.cfg, held.devices), gen |-> epoch + 1]
      <3>2. /\ NewStream \in Streams /\ open[NewStream] = None
            /\ open' = [open EXCEPT ![NewStream] = r]
        BY <2>4, <3>1, OpenType
      <3>3. r # None
        <4>1. Resolve(held.cfg, held.devices) \in Devices
          BY <2>4 DEF OpenSucceeds, TypeOK
        <4> QED
          BY <3>1, <4>1, AudioAssumption DEF Epochs
      <3>4. held'.stream = NewStream
        BY <2>4 DEF TypeOK, Locals
      <3>5. DOMAIN open = Streams
        BY DEF TypeOK
      <3>6. Hand(Caller) = None /\ Hand(Caller)' = NewStream
            /\ \A q \in Owners \ {Caller} : Hand(q)' = Hand(q)
        BY <2>1, <2>2, <3>4, HandOf
      <3> HIDE DEF r
      <3>7. PICK s \in Streams : s = NewStream
        BY <3>2
      <3>8. PICK v : v = r
        OBVIOUS
      <3>9. Owned
        BY <3>2, <3>3, <3>5, <3>6, <3>7, <3>8, HandedOut, HandOf DEF Owned
      <3> QED
        BY <1>2, <2>2, <3>9
    <2> QED
      BY <1>6, <2>3, <2>4 DEF StartOpens
  <1>7. CASE StartPublishes
    <2>1. captureStream = None
      BY <1>7 DEF StartPublishes, EpochInv
    <2>2. captureStream' = held.stream /\ held'.stream = None /\ UNCHANGED <<open, seen>>
      BY <1>3, <1>7 DEF StartPublishes
    <2>3. HandOver(Caller, Manager)
      BY <2>1, <2>2, HandOf DEF HandOver
    <2>4. Owned
      BY <2>2, <2>3, HandedOver, HandOf DEF Owned
    <2>5. \A e \in Epochs : seen[e].stream # None => poll'[e] = poll[e]
      <3>1. epoch + 1 \in Epochs /\ epoch \in Nat
        BY <1>7 DEF StartPublishes, EpochInv, TypeOK
      <3>2. poll[epoch + 1] = "none"
        BY <3>1 DEF EpochInv
      <3> QED
        BY <1>2, <1>7, <3>2 DEF StartPublishes, TypeOK
    <2> QED
      BY <1>2, <2>2, <2>4, <2>5
  <1>8. CASE StopClaims
    BY <1>2, <1>4, <1>8 DEF StopClaims
  <1>9. CASE StopCloses
    BY <1>2, <1>4, <1>9 DEF StopCloses
  <1>10. CASE StopTakes
    <2>1. held.stream = None
      BY <1>2, <1>10 DEF StopTakes
    <2>2. /\ held'.stream = captureStream /\ captureStream' = None
          /\ UNCHANGED <<open, seen, poll>> /\ at' = "stopping"
      BY <1>10 DEF StopTakes, TypeOK, Locals
    <2>3. HandOver(Manager, Caller)
      BY <2>1, <2>2, HandOf DEF HandOver
    <2>4. Owned
      BY <2>2, <2>3, HandedOver, HandOf DEF Owned
    <2> QED
      BY <1>2, <2>2, <2>4
  <1>11. CASE StopStops
    <2>1. /\ held'.stream = None /\ StopStream(held.stream)
          /\ UNCHANGED <<captureStream, seen, poll>>
      BY <1>3, <1>11 DEF StopStops
    <2>2. Owned
      BY <2>1, HandedIn, HandOf DEF Owned
    <2> QED
      BY <1>2, <2>1, <2>2
  <1>12. ASSUME NEW e \in Epochs, UNCHANGED <<open, captureStream, held, at>>,
                seen'[e].stream = seen[e].stream, seen[e].stream # None => poll'[e] \in {"stopOld", "opened"},
                \A f \in Epochs \ {e} : poll'[f] = poll[f] /\ seen'[f] = seen[f]
         PROVE Safe
    <2>1. Owned
      BY <1>4, <1>12
    <2> QED
      BY <1>2, <1>12, <2>1
  <1>13. ASSUME NEW e \in Epochs, NEW where, Goes(e, where), poll[e] \notin {"stopOld", "opened"},
                UNCHANGED <<open, captureStream, held, at>>
         PROVE Safe
    <2>1. seen[e].stream = None
      BY <1>2, <1>13
    <2>2. seen'[e].stream = None
      BY <1>3, <1>13, <2>1, GoesOne
    <2> QED
      BY <1>12, <1>13, <2>1, <2>2, GoesOne
  <1>14. ASSUME NEW e \in Epochs, Enumerates(e) PROVE Safe
    <2>1. /\ seen[e].stream = None /\ seen'[e].stream = None
          /\ \A f \in Epochs \ {e} : poll'[f] = poll[f] /\ seen'[f] = seen[f]
      BY <1>2, <1>14 DEF Enumerates, TypeOK, Locals
    <2> QED
      BY <1>12, <1>14, <2>1 DEF Enumerates
  <1>15. ASSUME NEW e \in Epochs, Quits(e) PROVE Safe
    BY <1>13, <1>15 DEF Quits
  <1>16. ASSUME NEW e \in Epochs, Publishes(e) PROVE Safe
    <2>1. CASE Goes(e, "wait")
      BY <1>13, <1>16, <2>1 DEF Publishes
    <2>2. CASE /\ poll' = [poll EXCEPT ![e] = "compare"]
               /\ seen' = [seen EXCEPT ![e].cfg = cfg]
      <3>1. /\ seen[e].stream = None /\ seen'[e].stream = None
            /\ \A f \in Epochs \ {e} : poll'[f] = poll[f] /\ seen'[f] = seen[f]
        BY <1>2, <1>16, <2>2 DEF Publishes, TypeOK, Locals
      <3> QED
        BY <1>12, <1>16, <3>1 DEF Publishes
    <2> QED
      BY <1>16, <2>1, <2>2 DEF Publishes
  <1>17. ASSUME NEW e \in Epochs, Supersedes(e) PROVE Safe
    <2>1. /\ seen[e].stream = None /\ seen'[e].stream = captureStream
          /\ captureStream' = None /\ poll'[e] = "stopOld"
          /\ \A f \in Epochs \ {e} : poll'[f] = poll[f] /\ seen'[f] = seen[f]
      BY <1>2, <1>17 DEF Supersedes, TypeOK, Locals
    <2>2. UNCHANGED <<open, held, at>>
      BY <1>17 DEF Supersedes
    <2>3. HandOver(Manager, e)
      BY <2>1, <2>2, HandOf DEF HandOver
    <2>4. Owned
      BY <2>2, <2>3, HandedOver, HandOf DEF Owned
    <2> QED
      BY <1>2, <2>1, <2>2, <2>4
  <1>18. ASSUME NEW e \in Epochs, Compares(e) PROVE Safe
    BY <1>13, <1>18 DEF Compares
  <1>19. ASSUME NEW e \in Epochs, StopsOld(e) PROVE Safe
    <2>1. /\ seen'[e].stream = None /\ StopStream(seen[e].stream)
          /\ \A f \in Epochs \ {e} : poll'[f] = poll[f] /\ seen'[f] = seen[f]
          /\ UNCHANGED <<captureStream, held, at>>
      BY <1>19 DEF StopsOld, TypeOK, Locals
    <2>2. Owned
      BY <2>1, HandedIn, HandOf DEF Owned
    <2> QED
      BY <1>2, <2>1, <2>2
  <1>20. ASSUME NEW e \in Epochs, Decides(e) PROVE Safe
    BY <1>13, <1>20 DEF Decides
  <1>21. ASSUME NEW e \in Epochs, Opens(e) PROVE Safe
    <2>1. /\ seen[e].stream = None /\ seen'[e].stream = NewStream /\ poll'[e] = "opened"
          /\ \A f \in Epochs \ {e} : poll'[f] = poll[f] /\ seen'[f] = seen[f]
          /\ UNCHANGED <<captureStream, held, at>>
      BY <1>2, <1>21 DEF Opens, TypeOK, Locals
    <2>2. PICK r : r = [device |-> Want(e), gen |-> e]
      OBVIOUS
    <2>3. r # None
      <3>1. Want(e) \in Devices
        BY <1>21 DEF Opens, OpenSucceeds, TypeOK
      <3> QED
        BY <2>2, <3>1, AudioAssumption DEF Epochs
    <2>4. /\ NewStream \in Streams /\ open[NewStream] = None
          /\ open' = [open EXCEPT ![NewStream] = r] /\ DOMAIN open = Streams
      BY <1>21, <2>2, OpenType DEF Opens, TypeOK
    <2>5. PICK s \in Streams : s = NewStream
      BY <2>4
    <2>6. Hand(e) = None /\ Hand(e)' = s /\ \A q \in Owners \ {e} : Hand(q)' = Hand(q)
      BY <2>1, <2>5, HandOf
    <2>7. Owned
      BY <2>3, <2>4, <2>5, <2>6, HandedOut, HandOf DEF Owned
    <2> QED
      BY <1>2, <2>1, <2>7
  <1>22. ASSUME NEW e \in Epochs, FailsToOpen(e) PROVE Safe
    BY <1>13, <1>22 DEF FailsToOpen
  <1>23. ASSUME NEW e \in Epochs, Installs(e) PROVE Safe
    <2>1. /\ poll'[e] = "wait" /\ seen'[e].stream = None
          /\ \A f \in Epochs \ {e} : poll'[f] = poll[f] /\ seen'[f] = seen[f]
          /\ UNCHANGED <<held, at>>
      BY <1>3, <1>23, GoesOne DEF Installs
    <2>2. CASE epoch # e
      <3>1. StopStream(seen[e].stream) /\ UNCHANGED captureStream
        BY <1>23, <2>2 DEF Installs
      <3>2. Owned
        BY <2>1, <3>1, HandedIn, HandOf DEF Owned
      <3> QED
        BY <1>2, <2>1, <3>2
    <2>3. CASE epoch = e /\ seen[e].stream = None
      <3>1. UNCHANGED <<captureStream, open>>
        BY <1>23, <2>3 DEF Installs
      <3> QED
        BY <1>12, <2>1, <2>3, <3>1
    <2>4. CASE epoch = e /\ seen[e].stream # None
      <3>1. captureStream = None
        BY <1>23, <2>4 DEF Installs, EpochInv
      <3>2. captureStream' = seen[e].stream /\ UNCHANGED open
        BY <1>23, <2>4 DEF Installs
      <3>3. HandOver(e, Manager)
        BY <2>1, <3>1, <3>2, HandOf DEF HandOver
      <3>4. Owned
        BY <3>2, <3>3, HandedOver, HandOf DEF Owned
      <3> QED
        BY <1>2, <2>1, <3>4
    <2> QED
      BY <2>2, <2>3, <2>4
  <1>24. CASE UNCHANGED <<open, captureStream, held, at, poll, seen>>
    BY <1>2, <1>4, <1>24
  <1>25. CASE RetryFallsDue \/ Plug \/ SetConfig \/ UNCHANGED vars
    BY <1>24, <1>25 DEF RetryFallsDue, Plug, SetConfig, vars
  <1> QED
    BY <1>5, <1>6, <1>7, <1>8, <1>9, <1>10, <1>11, <1>14, <1>15, <1>16, <1>17, <1>18, <1>19,
       <1>20, <1>21, <1>22, <1>23, <1>25 DEF Next, StartOrStop, PollSteps

\* Stopping the stream of one owner leaves those of the others.
LEMMA StopsOnlyItsOwn ==
  ASSUME TypeOK, HandsInv, NEW o \in Owners, StopStream(Hand(o))
  PROVE \A q \in Owners \ {o} : Hand(q) # None => open'[Hand(q)] = open[Hand(q)]
  <1>1. \A q \in Owners : Hand(q) \in Streams \cup {None}
    BY HandOf DEF TypeOK, Locals
  <1>2. \A s \in Streams : open'[s] = IF s = Hand(o) THEN None ELSE open[s]
    BY DEF StopStream
  <1> QED
    BY <1>1, <1>2 DEF HandsInv

\* Opening a stream leaves those that are in somebody's hands.
LEMMA OpensOnlyItsOwn ==
  ASSUME TypeOK, HandsInv, NEW device, NEW gen \in Epochs, OpenSucceeds(device, gen)
  PROVE /\ open'[NewStream] = [device |-> device, gen |-> gen]
        /\ \A q \in Owners : Hand(q) # None => open'[Hand(q)] = open[Hand(q)]
  <1>1. \A q \in Owners : Hand(q) \in Streams \cup {None}
    BY HandOf DEF TypeOK, Locals
  <1>2. /\ NewStream \in Streams /\ open[NewStream] = None
        /\ open' = [open EXCEPT ![NewStream] = [device |-> device, gen |-> gen]]
        /\ DOMAIN open = Streams
    BY OpenType DEF TypeOK
  <1>3. \A q \in Owners : Hand(q) # None => Hand(q) # NewStream
    BY <1>1, <1>2 DEF HandsInv
  <1> QED
    BY <1>1, <1>2, <1>3

\* The stream that is stored is the one opened for this generation, from the
\* device that is reported (Start, maybeReopenCapture).
LEMMA FeedNext == TypeOK /\ EpochInv /\ HandsInv /\ FeedInv /\ [Next]_vars => FeedInv'
  <1> SUFFICES ASSUME TypeOK, EpochInv, HandsInv, FeedInv, [Next]_vars PROVE FeedInv'
    OBVIOUS
  <1> USE DEF manager, world
  <1>1. NoLocals.stream = None
    BY DEF NoLocals
  <1>2. /\ held.stream # None => at \in {"opened", "stopping"}
        /\ \A e \in Epochs : seen[e].stream # None => poll[e] \in {"stopOld", "opened"}
        /\ captureStream # None => running \/ at \in {"closing", "joining"}
        /\ at # "idle" => ~running
    BY DEF HandsInv, EpochInv
  <1>3. ASSUME NEW e \in Epochs, UNCHANGED <<running, epoch, inputID, held, at, open>>,
               captureStream' \in {captureStream, None},
               \A f \in Epochs \ {e} : poll'[f] = poll[f] /\ seen'[f] = seen[f],
               poll'[e] # "opened" \/ seen'[e].stream = None
        PROVE FeedInv'
    BY <1>3 DEF FeedInv, StreamIsOfThisGeneration, Want
  <1>4. CASE StartEnumerates
    BY <1>2, <1>4 DEF StartEnumerates, FeedInv, StreamIsOfThisGeneration, Want
  <1>5. CASE StartOpens
    <2>1. UNCHANGED <<running, epoch, poll, seen, captureStream>> /\ ~running /\ held.stream = None
      BY <1>2, <1>5 DEF StartOpens
    <2>2. CASE UNCHANGED <<open, held>>
      BY <2>1, <2>2 DEF FeedInv, StreamIsOfThisGeneration, Want
    <2>3. CASE OpenSucceeds(Resolve(held.cfg, held.devices), epoch + 1)
               /\ held' = [held EXCEPT !.stream = NewStream]
      <3>1. epoch + 1 \in Epochs
        BY <1>5 DEF StartOpens, EpochInv
      <3>2. /\ held'.stream = NewStream
            /\ held'.cfg = held.cfg /\ held'.devices = held.devices
        BY <2>3 DEF TypeOK, Locals
      <3>3. open'[held'.stream] = [device |-> Resolve(held.cfg, held.devices), gen |-> epoch + 1]
        BY <2>3, <3>1, <3>2, OpensOnlyItsOwn
      <3>4. \A e \in Epochs : seen[e].stream # None => open'[seen[e].stream] = open[seen[e].stream]
        <4>1. \A q \in Owners : Hand(q) # None => open'[Hand(q)] = open[Hand(q)]
          BY <2>3, <3>1, OpensOnlyItsOwn
        <4> QED
          BY <4>1, HandOf
      <3> QED
        BY <2>1, <3>2, <3>3, <3>4 DEF FeedInv, StreamIsOfThisGeneration, Want
    <2> QED
      BY <1>5, <2>2, <2>3 DEF StartOpens
  <1>6. CASE StartPublishes
    <2>1. /\ captureStream' = held.stream /\ inputID' = Resolve(held.cfg, held.devices)
          /\ epoch' = epoch + 1 /\ at' = "idle" /\ UNCHANGED <<open, seen>> /\ at = "opened"
      BY <1>6 DEF StartPublishes
    <2>2. \A e \in Epochs : poll'[e] = "opened" => poll[e] = "opened"
      BY <1>6 DEF StartPublishes, TypeOK
    <2> QED
      BY <2>1, <2>2 DEF FeedInv, StreamIsOfThisGeneration, Want
  <1>7. CASE StopClaims \/ StopCloses \/ StopTakes
    <2>1. UNCHANGED <<open, seen, poll>> /\ ~running' /\ at' # "opened"
      BY <1>2, <1>7 DEF StopClaims, StopCloses, StopTakes
    <2> QED
      BY <2>1 DEF FeedInv, StreamIsOfThisGeneration, Want
  <1>8. CASE StopStops
    <2>1. UNCHANGED <<running, seen, poll>> /\ ~running /\ at' = "idle" /\ StopStream(held.stream)
      BY <1>2, <1>8 DEF StopStops
    <2>2. \A e \in Epochs : seen[e].stream # None => open'[seen[e].stream] = open[seen[e].stream]
      BY <2>1, StopsOnlyItsOwn, HandOf
    <2> QED
      BY <2>1, <2>2 DEF FeedInv, StreamIsOfThisGeneration, Want
  <1>9. ASSUME NEW e \in Epochs, Enumerates(e) PROVE FeedInv'
    <2>1. poll'[e] = "listed" /\ \A f \in Epochs \ {e} : poll'[f] = poll[f] /\ seen'[f] = seen[f]
      BY <1>9 DEF Enumerates, TypeOK
    <2> QED
      BY <1>3, <1>9, <2>1 DEF Enumerates
  <1>10. ASSUME NEW e \in Epochs, NEW where, where # "opened" \/ seen[e].stream = None, Goes(e, where),
                UNCHANGED <<running, epoch, inputID, held, at, open, captureStream>>
         PROVE FeedInv'
    BY <1>1, <1>3, <1>10, GoesOne
  <1>11. ASSUME NEW e \in Epochs, Quits(e) \/ Compares(e) PROVE FeedInv'
    BY <1>10, <1>11 DEF Quits, Compares
  <1>12. ASSUME NEW e \in Epochs, Publishes(e) PROVE FeedInv'
    <2>1. CASE Goes(e, "wait")
      BY <1>10, <1>12, <2>1 DEF Publishes
    <2>2. CASE /\ poll' = [poll EXCEPT ![e] = "compare"]
               /\ seen' = [seen EXCEPT ![e].cfg = cfg]
      <3>1. poll'[e] = "compare" /\ \A f \in Epochs \ {e} : poll'[f] = poll[f] /\ seen'[f] = seen[f]
        BY <2>2 DEF TypeOK
      <3> QED
        BY <1>3, <1>12, <3>1 DEF Publishes
    <2> QED
      BY <1>12, <2>1, <2>2 DEF Publishes
  <1>13. ASSUME NEW e \in Epochs, Supersedes(e) PROVE FeedInv'
    <2>1. poll'[e] = "stopOld" /\ \A f \in Epochs \ {e} : poll'[f] = poll[f] /\ seen'[f] = seen[f]
      BY <1>13 DEF Supersedes, TypeOK
    <2> QED
      BY <1>3, <1>13, <2>1 DEF Supersedes
  <1>14. ASSUME NEW e \in Epochs, UNCHANGED <<running, epoch, inputID, captureStream, held, at>>,
                StopStream(seen[e].stream), poll'[e] # "opened",
                \A f \in Epochs \ {e} : poll'[f] = poll[f] /\ seen'[f] = seen[f]
         PROVE FeedInv'
    <2>1. /\ captureStream # None => open'[captureStream] = open[captureStream]
          /\ held.stream # None => open'[held.stream] = open[held.stream]
          /\ \A f \in Epochs \ {e} :
               seen[f].stream # None => open'[seen[f].stream] = open[seen[f].stream]
      BY <1>14, StopsOnlyItsOwn, HandOf
    <2> QED
      BY <1>14, <2>1 DEF FeedInv, StreamIsOfThisGeneration, Want
  <1>15. ASSUME NEW e \in Epochs, StopsOld(e) PROVE FeedInv'
    <2>1. poll'[e] = "decide" /\ \A f \in Epochs \ {e} : poll'[f] = poll[f] /\ seen'[f] = seen[f]
      BY <1>15 DEF StopsOld, TypeOK
    <2> QED
      BY <1>14, <1>15, <2>1 DEF StopsOld
  <1>16. ASSUME NEW e \in Epochs, Decides(e) PROVE FeedInv'
    <2>1. Goes(e, "opening") \/ Goes(e, "wait")
      BY <1>16 DEF Decides
    <2> QED
      BY <1>10, <1>16, <2>1 DEF Decides
  <1>17. ASSUME NEW e \in Epochs, Opens(e) PROVE FeedInv'
    <2>1. /\ seen'[e].stream = NewStream /\ seen'[e].cfg = seen[e].cfg
          /\ seen'[e].devices = seen[e].devices
          /\ \A f \in Epochs \ {e} : poll'[f] = poll[f] /\ seen'[f] = seen[f]
          /\ UNCHANGED <<running, epoch, inputID, captureStream, held, at>>
      BY <1>17 DEF Opens, TypeOK, Locals
    <2>2. open'[NewStream] = [device |-> Want(e), gen |-> e]
      BY <1>17, OpensOnlyItsOwn DEF Opens
    <2>3. /\ captureStream # None => open'[captureStream] = open[captureStream]
          /\ held.stream # None => open'[held.stream] = open[held.stream]
          /\ \A f \in Epochs \ {e} :
               seen[f].stream # None => open'[seen[f].stream] = open[seen[f].stream]
      <3>1. \A q \in Owners : Hand(q) # None => open'[Hand(q)] = open[Hand(q)]
        BY <1>17, OpensOnlyItsOwn DEF Opens
      <3> QED
        BY <3>1, HandOf
    <2>4. /\ StreamIsOfThisGeneration'
          /\ at' = "opened" /\ held'.stream # None =>
               open'[held'.stream] = [device |-> Resolve(held'.cfg, held'.devices), gen |-> epoch' + 1]
      BY <2>1, <2>3 DEF FeedInv, StreamIsOfThisGeneration
    <2>5. open'[seen'[e].stream] = [device |-> Want(e)', gen |-> e]
      BY <2>1, <2>2 DEF Want
    <2>6. \A f \in Epochs \ {e} : poll'[f] = "opened" /\ seen'[f].stream # None =>
            open'[seen'[f].stream] = [device |-> Want(f)', gen |-> f]
      BY <2>1, <2>3 DEF FeedInv, Want
    <2> QED
      BY <2>4, <2>5, <2>6 DEF FeedInv
  <1>18. ASSUME NEW e \in Epochs, FailsToOpen(e) PROVE FeedInv'
    <2>1. seen[e].stream = None
      BY <1>2, <1>18 DEF FailsToOpen
    <2> QED
      BY <1>10, <1>18, <2>1 DEF FailsToOpen
  <1>19. ASSUME NEW e \in Epochs, Installs(e) PROVE FeedInv'
    <2>1. /\ poll'[e] = "wait" /\ seen'[e].stream = None
          /\ \A f \in Epochs \ {e} : poll'[f] = poll[f] /\ seen'[f] = seen[f]
          /\ UNCHANGED <<held, at>>
      BY <1>1, <1>19, GoesOne DEF Installs
    <2>2. CASE epoch # e
      BY <1>14, <1>19, <2>1, <2>2 DEF Installs
    <2>3. CASE epoch = e /\ seen[e].stream = None
      BY <1>3, <1>19, <2>1, <2>3 DEF Installs
    <2>4. CASE epoch = e /\ seen[e].stream # None
      <3>1. /\ captureStream' = seen[e].stream /\ inputID' = Want(e)
            /\ UNCHANGED <<open, epoch, running>>
        BY <1>19, <2>4 DEF Installs
      <3>2. open[seen[e].stream] = [device |-> Want(e), gen |-> e]
        BY <1>19, <2>4 DEF Installs, FeedInv
      <3> QED
        BY <2>1, <2>4, <3>1, <3>2 DEF FeedInv, StreamIsOfThisGeneration, Want
    <2> QED
      BY <2>2, <2>3, <2>4
  <1>20. CASE UNCHANGED <<running, epoch, inputID, captureStream, held, at, open, poll, seen>>
    BY <1>20 DEF FeedInv, StreamIsOfThisGeneration, Want
  <1>21. CASE RetryFallsDue \/ Plug \/ SetConfig \/ UNCHANGED vars
    BY <1>20, <1>21 DEF RetryFallsDue, Plug, SetConfig, vars
  <1> QED
    BY <1>4, <1>5, <1>6, <1>7, <1>8, <1>9, <1>11, <1>12, <1>13, <1>15, <1>16, <1>17, <1>18, <1>19,
       <1>21 DEF Next, StartOrStop, PollSteps

\* Nothing runs and nothing is open at the start.
LEMMA InitInv == Init => IInv
  <1> SUFFICES ASSUME Init PROVE IInv
    OBVIOUS
  <1>1. TypeOK
    <2>1. NoLocals \in Locals
      BY DEF NoLocals, Locals, Ids
    <2> QED
      <3>1. /\ open \in [Streams -> [device : Devices, gen : Epochs] \cup {None}]
            /\ poll \in [Epochs -> {"none", "wait", "listed", "compare", "stopOld",
                                   "decide", "opening", "opened", "done"}]
            /\ seen \in [Epochs -> Locals] /\ held \in Locals
        BY <2>1 DEF Init
      <3>2. /\ epoch \in 0..(2 * MaxStarts) /\ inputBackoff \in 0..MaxBackoff
            /\ plugs \in 0..MaxPlugs /\ picks \in 0..MaxPicks
        BY AudioAssumption DEF Init
      <3> QED
        BY <3>1, <3>2 DEF Init, TypeOK, Ids
  <1>2. EpochInv
    BY DEF Init, EpochInv, Epochs
  <1>3. HandsInv
    <2>1. \A o \in Owners : Hand(o) = None
      BY HandOf DEF Init, NoLocals
    <2> QED
      BY <2>1, AudioAssumption DEF Init, HandsInv, NoLocals
  <1>4. FeedInv
    BY DEF Init, FeedInv, StreamIsOfThisGeneration
  <1> QED
    BY <1>1, <1>2, <1>3, <1>4 DEF IInv

\* The invariant of the manager, of whoever starts and stops it, and of the
\* poll goroutines of its generations.
THEOREM Invariance == Spec => []IInv
  <1>1. IInv /\ [Next]_vars => IInv'
    BY TypeNext, EpochNext, HandsNext, FeedNext DEF IInv
  <1> QED
    BY <1>1, InitInv, PTL DEF Spec

\* The manager's fields and the goroutines' locals keep their types.
THEOREM TypeCorrect == Spec => []TypeOK
  <1>1. IInv => TypeOK
    BY DEF IInv
  <1> QED
    BY <1>1, Invariance, PTL

\* Whatever an abandoned poll goroutine still does, an open microphone is in
\* somebody's hands and feeds the generation that runs (Stop,
\* maybeReopenCapture).
THEOREM MicrophoneHasOwner == Spec => []MicrophoneIsOwned
  <1>1. IInv => MicrophoneIsOwned
    <2> SUFFICES ASSUME IInv PROVE MicrophoneIsOwned
      OBVIOUS
    <2>1. ASSUME NEW s \in Streams, open[s] # None
          PROVE s \in {captureStream, held.stream} \cup {seen[e].stream : e \in Epochs}
      <3>1. PICK o \in Owners : Hand(o) = s
        BY <2>1 DEF IInv, HandsInv
      <3> QED
        BY <3>1, HandOf
    <2>2. captureStream # None => running \/ at \in {"closing", "joining"}
      BY DEF IInv, EpochInv
    <2> QED
      BY <2>1, <2>2 DEF IInv, FeedInv, MicrophoneIsOwned, EveryOpenStreamIsOwned
  <1> QED
    BY <1>1, Invariance, PTL

\* The backoff starts over only for a cause, however a device flaps
\* (closeSupersededStreams, maybeReopenCapture).
THEOREM RetriesKeepDecaying == Spec => FlappingKeepsDecaying
  <1>1. IInv /\ [Next]_vars =>
          [inputBackoff' < inputBackoff =>
             \/ captureStream' # captureStream
             \/ epoch' # epoch
             \/ seen[epoch].cfg # inputAttemptCfg]_vars
    <2> SUFFICES ASSUME IInv, [Next]_vars, inputBackoff' < inputBackoff,
                        captureStream' = captureStream, epoch' = epoch
                 PROVE seen[epoch].cfg # inputAttemptCfg
      OBVIOUS
    <2> USE DEF manager, world
    <2>1. inputBackoff \in Nat /\ inputBackoff' # inputBackoff /\ epoch \in Nat
      BY DEF IInv, TypeOK
    <2>2. ASSUME NEW e \in Epochs, Compares(e) PROVE seen[epoch].cfg # inputAttemptCfg
      BY <2>1, <2>2 DEF Compares
    <2>3. ASSUME NEW e \in Epochs, Installs(e) PROVE FALSE
      <3>1. epoch = e => captureStream = None
        BY <2>3 DEF Installs, IInv, EpochInv
      <3>2. NextBackoff(inputBackoff) \in Nat /\ ~(NextBackoff(inputBackoff) < inputBackoff)
        BY <2>1, AudioAssumption DEF NextBackoff
      <3> QED
        <4>1. CASE epoch # e
          BY <2>1, <2>3, <4>1 DEF Installs
        <4>2. CASE epoch = e /\ seen[e].stream = None
          BY <2>1, <2>3, <3>2, <4>2 DEF Installs
        <4>3. CASE epoch = e /\ seen[e].stream # None
          BY <2>3, <3>1, <4>3 DEF Installs
        <4> QED
          BY <4>1, <4>2, <4>3
    <2>4. ASSUME NEW e \in Epochs, Supersedes(e) PROVE FALSE
      BY <2>4 DEF Supersedes
    <2>5. ~StartPublishes
      BY <2>1 DEF StartPublishes
    <2>6. ASSUME NEW e \in Epochs,
                 \/ Enumerates(e) \/ Quits(e) \/ Publishes(e) \/ StopsOld(e) \/ Decides(e)
                 \/ Opens(e) \/ FailsToOpen(e)
          PROVE FALSE
      BY <2>1, <2>6 DEF Enumerates, Quits, Publishes, StopsOld, Decides, Opens, FailsToOpen
    <2>7. ~(StartEnumerates \/ StartOpens \/ StopClaims \/ StopCloses \/ StopTakes \/ StopStops)
      BY <2>1 DEF StartEnumerates, StartOpens, StopClaims, StopCloses, StopTakes, StopStops
    <2>8. ~(RetryFallsDue \/ Plug \/ SetConfig \/ UNCHANGED vars)
      BY <2>1 DEF RetryFallsDue, Plug, SetConfig, vars
    <2> QED
      BY <2>2, <2>3, <2>4, <2>5, <2>6, <2>7, <2>8 DEF Next, StartOrStop, PollSteps
  <1> QED
    BY <1>1, Invariance, PTL DEF Spec, FlappingKeepsDecaying
=============================================================================

----------------------------- MODULE AudioManager -----------------------------
(***************************************************************************)
(* The life of the audio manager's capture stream: Start and Stop, and the *)
(* poll goroutine that follows the selected device, the devices that come  *)
(* and go, and failures to open (internal/audio/manager.go).  Playback has *)
(* the same code beside it, on its own fields.                             *)
(*                                                                         *)
(* Stop's joins are bounded, so the poll goroutine of an earlier           *)
(* generation can still be inside a backend call while a later one runs.   *)
(* A step is what happens between two unlocks, or a call into the backend. *)
(***************************************************************************)
EXTENDS Integers

CONSTANTS Devices,     \* capture devices
          Streams,     \* streams the backend can have open
          None,
          MaxStarts,   \* bound: calls of Start
          MaxPlugs,    \* bound: changes of the devices present
          MaxPicks,    \* bound: calls of SetConfig with another device
          MaxBackoff   \* steps of nextBackoff from the first to reopenBackoffMax

ASSUME AudioAssumption ==
  /\ Devices \subseteq Nat \ {0} /\ None \notin Streams
  /\ None \notin [device : Devices, gen : 1..(2 * MaxStarts)]
  /\ MaxStarts \in Nat /\ MaxPlugs \in Nat /\ MaxPicks \in Nat
  /\ MaxBackoff \in Nat \ {0}

VARIABLES
  present,      \* devices the backend enumerates (external)
  open,         \* device and generation of each open stream (external)
  cfg,          \* Config.InputDevice
  at,           \* where the goroutine that calls Start and Stop is
  held,         \* its locals: the devices, the configuration, the stream
  running, epoch, captureStream, inputID, inputTargetID, inputAttemptCfg,
  inputBackoff, \* how far nextBackoff has gone
  due,          \* inputRetryAt is not ahead
  stopPoll,     \* generations whose stopPoll is closed
  poll,         \* where the poll goroutine of each generation is
  seen,         \* its locals: the devices, the configuration, the stream
  plugs, picks

manager == <<running, epoch, captureStream, inputID, inputTargetID,
             inputAttemptCfg, inputBackoff, due>>
world == <<present, plugs, cfg, picks>>
vars == <<manager, world, open, at, held, stopPoll, poll, seen>>

Epochs == 1..(2 * MaxStarts)

\* The empty id: "follow system default" in the configuration, and nothing
\* to open where a device was to be resolved.
System == 0
Ids == Devices \cup {System}

Locals == [devices : SUBSET Devices, cfg : Ids, stream : Streams \cup {None}]
NoLocals == [devices |-> {}, cfg |-> System, stream |-> None]

TypeOK ==
  /\ present \subseteq Devices /\ cfg \in Ids
  /\ open \in [Streams -> [device : Devices, gen : Epochs] \cup {None}]
  /\ at \in {"idle", "starting", "opened", "closing", "joining", "stopping"}
  /\ held \in Locals
  /\ running \in BOOLEAN /\ epoch \in 0..(2 * MaxStarts)
  /\ captureStream \in Streams \cup {None}
  /\ inputID \in Ids /\ inputTargetID \in Ids /\ inputAttemptCfg \in Ids
  /\ inputBackoff \in 0..MaxBackoff /\ due \in BOOLEAN
  /\ stopPoll \subseteq Epochs
  /\ poll \in [Epochs -> {"none", "wait", "listed", "compare", "stopOld",
                          "decide", "opening", "opened", "done"}]
  /\ seen \in [Epochs -> Locals]
  /\ plugs \in 0..MaxPlugs /\ picks \in 0..MaxPicks

Init ==
  /\ present \in SUBSET Devices /\ cfg \in Ids
  /\ open = [s \in Streams |-> None]
  /\ at = "idle" /\ held = NoLocals
  /\ running = FALSE /\ epoch = 0 /\ captureStream = None
  /\ inputID = System /\ inputTargetID = System /\ inputAttemptCfg = System
  /\ inputBackoff = 0 /\ due = TRUE
  /\ stopPoll = {}
  /\ poll = [e \in Epochs |-> "none"] /\ seen = [e \in Epochs |-> NoLocals]
  /\ plugs = 0 /\ picks = 0

-----------------------------------------------------------------------------
\* resolveDevice: the configured device if it enumerates, else the one the
\* system calls the default, whichever of those present that is.
Resolve(id, devices) ==
  IF id \in devices THEN id
  ELSE IF devices = {} THEN System
  ELSE CHOOSE d \in devices : TRUE

NextBackoff(level) == IF level = MaxBackoff THEN level ELSE level + 1

Free == {s \in Streams : open[s] = None}
NewStream == CHOOSE s \in Free : TRUE

\* OpenCapture(device) for generation gen, whose ring the callback writes:
\* a device that is there may open, and any attempt may fail.
OpenSucceeds(device, gen) ==
  /\ Free # {} /\ device \in present
  /\ open' = [open EXCEPT ![NewStream] = [device |-> device, gen |-> gen]]

\* Stream.Stop, on a stream or on nil.
StopStream(s) == open' = [t \in Streams |-> IF t = s THEN None ELSE open[t]]

-----------------------------------------------------------------------------
\* Start claims the manager, enumerates (an error leaves it no devices) and
\* reads the configuration.
StartEnumerates ==
  /\ at = "idle" /\ ~running /\ epoch + 2 <= 2 * MaxStarts
  /\ at' = "starting"
  /\ \E devices \in {present, {}} :
       held' = [devices |-> devices, cfg |-> cfg, stream |-> None]
  /\ UNCHANGED <<manager, world, open, stopPoll, poll, seen>>

\* Start opens the resolved device for the generation it is about to be.
StartOpens ==
  /\ at = "starting"
  /\ at' = "opened"
  /\ \/ /\ OpenSucceeds(Resolve(held.cfg, held.devices), epoch + 1)
        /\ held' = [held EXCEPT !.stream = NewStream]
     \/ UNCHANGED <<open, held>>
  /\ UNCHANGED <<manager, world, stopPoll, poll, seen>>

\* One section publishes the generation; its poll goroutine starts after it.
StartPublishes ==
  /\ at = "opened"
  /\ at' = "idle" /\ held' = NoLocals
  /\ epoch' = epoch + 1 /\ running' = TRUE
  /\ captureStream' = held.stream
  /\ inputID' = Resolve(held.cfg, held.devices)
  /\ inputTargetID' = inputID' /\ inputAttemptCfg' = held.cfg
  /\ inputBackoff' = 0 /\ due' = TRUE
  /\ poll' = [poll EXCEPT ![epoch + 1] = "wait"]
  /\ UNCHANGED <<world, open, stopPoll, seen>>

\* Mutant: a generation is what a Start makes, so Stop leaves the epoch.
StopClaimsOnly ==
  /\ at = "idle" /\ running
  /\ at' = "closing"
  /\ running' = FALSE
  /\ UNCHANGED <<epoch, captureStream, inputID, inputTargetID, inputAttemptCfg,
                 inputBackoff, due, world, open, held, stopPoll, poll, seen>>

\* Stop gives the generation up before anything else.
StopClaims ==
  /\ at = "idle" /\ running
  /\ at' = "closing"
  /\ running' = FALSE /\ epoch' = epoch + 1
  /\ UNCHANGED <<captureStream, inputID, inputTargetID, inputAttemptCfg,
                 inputBackoff, due, world, open, held, stopPoll, poll, seen>>

\* close(stopPoll), once the DSP goroutine is joined or abandoned.
StopCloses ==
  /\ at = "closing"
  /\ at' = "joining"
  /\ stopPoll' = stopPoll \cup {e \in Epochs : poll[e] # "none"}
  /\ UNCHANGED <<manager, world, open, held, poll, seen>>

\* The poll goroutine is joined or, after stopJoinTimeout, abandoned: Stop
\* goes on either way, and takes the stream.
StopTakes ==
  /\ at = "joining"
  /\ at' = "stopping"
  /\ held' = [held EXCEPT !.stream = captureStream]
  /\ captureStream' = None
  /\ UNCHANGED <<running, epoch, inputID, inputTargetID, inputAttemptCfg,
                 inputBackoff, due, world, open, stopPoll, poll, seen>>

StopStops ==
  /\ at = "stopping"
  /\ at' = "idle" /\ held' = NoLocals
  /\ StopStream(held.stream)
  /\ UNCHANGED <<manager, world, stopPoll, poll, seen>>

-----------------------------------------------------------------------------
\* Where the poll goroutine of generation e goes next; its locals end with
\* the tick.
Goes(e, where) ==
  /\ poll' = [poll EXCEPT ![e] = where]
  /\ seen' = IF where = "wait" THEN [seen EXCEPT ![e] = NoLocals] ELSE seen

\* The select takes the tick or, if both are ready, either.  Enumerate has
\* an answer; an error ends the tick with nothing changed.
Enumerates(e) ==
  /\ poll[e] = "wait"
  /\ poll' = [poll EXCEPT ![e] = "listed"]
  /\ seen' = [seen EXCEPT ![e].devices = present]
  /\ UNCHANGED <<manager, world, open, at, held, stopPoll>>

Quits(e) ==
  /\ poll[e] = "wait" /\ e \in stopPoll
  /\ Goes(e, "done")
  /\ UNCHANGED <<manager, world, open, at, held, stopPoll>>

\* pollOnce's first section, and the configuration the rest of the tick uses.
Publishes(e) ==
  /\ poll[e] = "listed"
  /\ IF epoch # e THEN Goes(e, "wait")
     ELSE /\ poll' = [poll EXCEPT ![e] = "compare"]
          /\ seen' = [seen EXCEPT ![e].cfg = cfg]
  /\ UNCHANGED <<manager, world, open, at, held, stopPoll>>

Want(e) == Resolve(seen[e].cfg, seen[e].devices)

\* Mutant: what is open stays open, whatever is selected or plugged in.
SupersedesNothing(e) ==
  /\ poll[e] = "compare"
  /\ epoch = e /\ captureStream # None /\ Want(e) # inputID
  /\ Goes(e, "decide")
  /\ UNCHANGED <<manager, world, open, at, held, stopPoll>>

\* closeSupersededStreams with an open stream whose device is not the one
\* wanted any more: a fresh target, to be opened on this tick.
Supersedes(e) ==
  /\ poll[e] = "compare"
  /\ epoch = e /\ captureStream # None /\ Want(e) # inputID
  /\ seen' = [seen EXCEPT ![e].stream = captureStream]
  /\ poll' = [poll EXCEPT ![e] = "stopOld"]
  /\ captureStream' = None /\ inputBackoff' = 0 /\ due' = TRUE
  /\ UNCHANGED <<running, epoch, inputID, inputTargetID, inputAttemptCfg,
                 world, open, at, held, stopPoll>>

\* Mutant: a device that appears clears the backoff like a selection.
ComparesAfresh(e) ==
  /\ poll[e] = "compare"
  /\ ~(epoch = e /\ captureStream # None /\ Want(e) # inputID)
  /\ LET fresh == /\ epoch = e /\ captureStream = None
                  /\ \/ seen[e].cfg # inputAttemptCfg
                     \/ inputTargetID = System /\ Want(e) # System
     IN /\ inputBackoff' = IF fresh THEN 0 ELSE inputBackoff
        /\ due' = (due \/ fresh)
  /\ Goes(e, "decide")
  /\ UNCHANGED <<running, epoch, captureStream, inputID, inputTargetID,
                 inputAttemptCfg, world, open, at, held, stopPoll>>

\* closeSupersededStreams with nothing to close: another selection clears
\* the backoff, and a device where there was none to aim at is tried once
\* without waiting; a target that moves between two devices changes nothing.
Compares(e) ==
  /\ poll[e] = "compare"
  /\ ~(epoch = e /\ captureStream # None /\ Want(e) # inputID)
  /\ LET chosen == seen[e].cfg # inputAttemptCfg
         appeared == inputTargetID = System /\ Want(e) # System
         idle == epoch = e /\ captureStream = None
     IN /\ inputBackoff' = IF idle /\ chosen THEN 0 ELSE inputBackoff
        /\ due' = (due \/ (idle /\ (chosen \/ appeared)))
  /\ Goes(e, "decide")
  /\ UNCHANGED <<running, epoch, captureStream, inputID, inputTargetID,
                 inputAttemptCfg, world, open, at, held, stopPoll>>

\* The superseded stream is stopped outside mu.
StopsOld(e) ==
  /\ poll[e] = "stopOld"
  /\ StopStream(seen[e].stream)
  /\ seen' = [seen EXCEPT ![e].stream = None]
  /\ poll' = [poll EXCEPT ![e] = "decide"]
  /\ UNCHANGED <<manager, world, at, held, stopPoll>>

\* maybeReopenCapture's first section: ready or not, with the attempt stamped.
Decides(e) ==
  /\ poll[e] = "decide"
  /\ LET ready == captureStream = None /\ due /\ epoch = e
     IN /\ inputTargetID' = IF ready THEN Want(e) ELSE inputTargetID
        /\ inputAttemptCfg' = IF ready THEN seen[e].cfg ELSE inputAttemptCfg
        /\ Goes(e, IF ready THEN "opening" ELSE "wait")
  /\ UNCHANGED <<running, epoch, captureStream, inputID, inputBackoff, due,
                 world, open, at, held, stopPoll>>

\* OpenCapture, without mu, for as long as the device takes.
Opens(e) ==
  /\ poll[e] = "opening"
  /\ OpenSucceeds(Want(e), e)
  /\ seen' = [seen EXCEPT ![e].stream = NewStream]
  /\ poll' = [poll EXCEPT ![e] = "opened"]
  /\ UNCHANGED <<manager, world, at, held, stopPoll>>

FailsToOpen(e) ==
  /\ poll[e] = "opening"
  /\ Goes(e, "opened")
  /\ UNCHANGED <<manager, world, open, at, held, stopPoll>>

\* Mutant: the stream is stored if the manager runs, whoever opened it.
InstallsWhileRunning(e) ==
  /\ poll[e] = "opened"
  /\ Goes(e, "wait")
  /\ IF ~running
       THEN /\ StopStream(seen[e].stream)
            /\ UNCHANGED manager
       ELSE /\ IF seen[e].stream = None
                 THEN /\ inputBackoff' = NextBackoff(inputBackoff) /\ due' = FALSE
                      /\ UNCHANGED <<captureStream, inputID>>
                 ELSE /\ captureStream' = seen[e].stream /\ inputID' = Want(e)
                      /\ inputBackoff' = 0 /\ UNCHANGED due
            /\ UNCHANGED <<running, epoch, inputTargetID, inputAttemptCfg, open>>
  /\ UNCHANGED <<world, at, held, stopPoll>>

\* maybeReopenCapture's second section: the result belongs to a generation
\* that is gone, is an error, or is the stream to use.
Installs(e) ==
  /\ poll[e] = "opened"
  /\ Goes(e, "wait")
  /\ IF epoch # e
       THEN /\ StopStream(seen[e].stream)
            /\ UNCHANGED manager
       ELSE /\ IF seen[e].stream = None
                 THEN /\ inputBackoff' = NextBackoff(inputBackoff) /\ due' = FALSE
                      /\ UNCHANGED <<captureStream, inputID>>
                 ELSE /\ captureStream' = seen[e].stream /\ inputID' = Want(e)
                      /\ inputBackoff' = 0 /\ UNCHANGED due
            /\ UNCHANGED <<running, epoch, inputTargetID, inputAttemptCfg, open>>
  /\ UNCHANGED <<world, at, held, stopPoll>>

-----------------------------------------------------------------------------
\* inputRetryAt passes.
RetryFallsDue ==
  /\ ~due /\ due' = TRUE
  /\ UNCHANGED <<running, epoch, captureStream, inputID, inputTargetID,
                 inputAttemptCfg, inputBackoff, world, open, at, held,
                 stopPoll, poll, seen>>

\* The user plugs a device in or out, or picks one in the settings.
Plug ==
  /\ plugs < MaxPlugs /\ plugs' = plugs + 1
  /\ \E d \in Devices :
       present' = IF d \in present THEN present \ {d} ELSE present \cup {d}
  /\ UNCHANGED <<manager, cfg, picks, open, at, held, stopPoll, poll, seen>>

SetConfig ==
  /\ picks < MaxPicks /\ picks' = picks + 1
  /\ \E id \in Ids \ {cfg} : cfg' = id
  /\ UNCHANGED <<manager, present, plugs, open, at, held, stopPoll, poll, seen>>

-----------------------------------------------------------------------------
StartOrStop ==
  \/ StartEnumerates \/ StartOpens \/ StartPublishes
  \/ StopClaims \/ StopCloses \/ StopTakes \/ StopStops

PollSteps(e) ==
  \/ Publishes(e) \/ Supersedes(e) \/ Compares(e) \/ StopsOld(e)
  \/ Decides(e) \/ Opens(e) \/ FailsToOpen(e) \/ Installs(e)

Next ==
  \/ StartOrStop
  \/ \E e \in Epochs : Enumerates(e) \/ Quits(e) \/ PollSteps(e)
  \/ RetryFallsDue \/ Plug \/ SetConfig

Spec == Init /\ [][Next]_vars

\* The steps of one goroutine follow each other, so that it has one fairness;
\* Start and Stop alternate, and the generations of Starts are odd.
CallerStep ==
  StartOpens \/ StartPublishes \/ StopCloses \/ StopTakes \/ StopStops
PollStep(e) == Enumerates(e) \/ PollSteps(e)
Started == {e \in Epochs : e % 2 = 1}

\* Goroutines run, the ticker ticks and time passes; a backend call returns,
\* and a device that stays plugged in opens in the end.
FairSpec ==
  /\ Spec
  /\ WF_vars(CallerStep) /\ WF_vars(RetryFallsDue)
  /\ \A e \in Started : WF_vars(PollStep(e)) /\ SF_vars(Opens(e))

-----------------------------------------------------------------------------
\* An open microphone is always in somebody's hands: the manager's while it
\* runs or until Stop takes it, or those of one goroutine that is about to
\* publish or to stop it.  No stream is left open behind Stop, or behind a
\* stream stored over it (manager.go:800-812, 1413-1423).
EveryOpenStreamIsOwned ==
  /\ \A s \in Streams : open[s] # None =>
       s \in {captureStream, held.stream} \cup {seen[e].stream : e \in Epochs}
  /\ captureStream # None => running \/ at \in {"closing", "joining"}

\* The stream the manager holds feeds the ring of the generation that runs,
\* from the device it reports: an abandoned goroutine never stores its own.
StreamIsOfThisGeneration ==
  running /\ captureStream # None =>
    open[captureStream] = [device |-> inputID, gen |-> epoch]

\* The microphone of a generation: one stream, its own, and nobody else's.
MicrophoneIsOwned == EveryOpenStreamIsOwned /\ StreamIsOfThisGeneration


\* The backoff starts over only for a cause: a stream that opened or was
\* superseded, a Start, or another selection than the one the failures were
\* counted under.  A device that comes and goes keeps its retries decaying,
\* however it flaps (manager.go:1340-1365).
FlappingKeepsDecaying ==
  [][inputBackoff' < inputBackoff =>
       \/ captureStream' # captureStream
       \/ epoch' # epoch
       \/ seen[epoch].cfg # inputAttemptCfg]_vars

\* When the devices and the selection come to rest with the manager running,
\* the microphone in use is the one they resolve to: a device picked in the
\* settings, the default after a loss, or the first that was plugged in.
FollowsSelection ==
  <>[](running /\ present # {} =>
         /\ captureStream # None
         /\ open[captureStream].device = Resolve(cfg, present))
=============================================================================

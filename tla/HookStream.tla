----------------------------- MODULE HookStream -----------------------------
(* The one stream of keyboard events and its reader                        *)
(* (internal/hotkeys/registrar_gohook.go), under the registrations of      *)
(* hotkeys.Manager, whose mutex lets one caller at a time in: Apply and    *)
(* Resume unregister everything and register the bindings one by one,      *)
(* Suspend only unregisters, Close also shuts the stream down.             *)
(*                                                                         *)
(* The caller's sections of lifeMu, of the dispatcher's mutex and its wait *)
(* for the reader are steps of their own; so is each turn of a reader,     *)
(* which may stay in the application's Handler for as long as it likes.    *)
(* Streams are numbered in the order they were started.                    *)
EXTENDS Naturals, FiniteSets

CONSTANTS
  Actions,     \* the bound actions, each with a hold binding
  MaxStreams,  \* bound: streams started
  MaxCycles,   \* bound: calls of the Manager
  Wedges       \* whether a Handler may keep a reader past readerStopTimeout

StreamAssumption ==
  MaxStreams \in Nat /\ MaxCycles \in Nat /\ Wedges \in BOOLEAN

Streams == 1 .. MaxStreams

VARIABLES
  running, retryArmed, disabled, starts,  \* hookRegistrar; starts names the newest
  binds, latched,                         \* dispatcher
  source,    \* the newest stream: "none", "up", "dead", "closed", "ended"
  reader,    \* of each stream: "none", "reading", "handling", "dying", "gone"
  quit,      \* streams whose reader was told to stop
  caller,    \* what the Manager's caller is doing
  todo,      \* bindings it has still to register
  restarts,  \* restarts this call made
  cycles

registrar == <<running, retryArmed, disabled, starts>>
dispatcher == <<binds, latched>>
manager == <<caller, todo, restarts, cycles>>
vars == <<registrar, dispatcher, source, reader, quit, manager>>

Init ==
  /\ running = FALSE /\ retryArmed = TRUE /\ disabled = FALSE /\ starts = 0
  /\ binds = {} /\ latched = {}
  /\ source = "none" /\ reader = [s \in Streams |-> "none"] /\ quit = {}
  /\ caller = "idle" /\ todo = {} /\ restarts = 0 /\ cycles = 0

(* readersAlive                                                            *)
Alive == {s \in Streams : reader[s] \notin {"none", "gone"}}

(***************************************************************************)
(* The Manager's caller                                                    *)
(***************************************************************************)

(* UnregisterAll arms the retry and empties the table, which releases what *)
(* is held. Register then finds the bindings of this call in todo.         *)
Unregisters(next, S) ==
  /\ caller = "idle" /\ cycles < MaxCycles
  /\ cycles' = cycles + 1 /\ restarts' = 0
  /\ retryArmed' = TRUE
  /\ binds' = {} /\ latched' = {}
  /\ caller' = next /\ todo' = S
  /\ UNCHANGED <<running, disabled, starts, source, reader, quit>>

Apply == \E S \in SUBSET Actions : Unregisters(IF S = {} THEN "idle" ELSE "register", S)
CloseBegins == Unregisters("close", {})

(* add, and the caller goes on to the next binding.                        *)
Added(a) ==
  /\ binds' = binds \cup {a}
  /\ todo' = todo \ {a}
  /\ caller' = IF todo = {a} THEN "idle" ELSE "register"

(* Register fails; the binding is left out.                                *)
Refused(a) ==
  /\ todo' = todo \ {a}
  /\ caller' = IF todo = {a} THEN "idle" ELSE "register"
  /\ UNCHANGED <<dispatcher, restarts, cycles>>

FindsHealthy(a) ==
  /\ caller = "register" /\ a \in todo
  /\ running /\ ~disabled
  /\ Added(a)
  /\ UNCHANGED <<registrar, latched, source, reader, quit, restarts, cycles>>

FindsDead(a) ==
  /\ caller = "register" /\ a \in todo
  /\ running /\ disabled /\ ~retryArmed
  /\ Refused(a)
  /\ UNCHANGED <<registrar, source, reader, quit>>

(* Opens a stream and its reader, and registers the binding.               *)
StartsStream(a) ==
  /\ starts < MaxStreams
  /\ starts' = starts + 1
  /\ running' = TRUE /\ disabled' = FALSE
  /\ source' = "up"
  /\ reader' = [reader EXCEPT ![starts + 1] = "reading"]
  /\ Added(a)
  /\ UNCHANGED latched

Starts(a) ==
  /\ caller = "register" /\ a \in todo
  /\ ~running
  /\ StartsStream(a)
  /\ UNCHANGED <<retryArmed, quit, restarts, cycles>>

\* Mutant: the retry is not spent.
ClaimsRetryUnspent == running' = FALSE /\ UNCHANGED retryArmed
(* planRestart spends the retry and marks the stream not running.          *)
ClaimsRetry == running' = FALSE /\ retryArmed' = FALSE

BeginsRestart(a) ==
  /\ caller = "register" /\ a \in todo
  /\ running /\ disabled /\ retryArmed
  /\ ClaimsRetry
  /\ quit' = quit \cup {starts}
  /\ caller' = "teardown"
  /\ UNCHANGED <<disabled, starts, dispatcher, source, reader, todo, restarts, cycles>>

ReaderStopped == reader[starts] = "gone"

Restarts(a) ==
  /\ caller = "teardown" /\ a \in todo
  /\ ReaderStopped
  /\ StartsStream(a)
  /\ restarts' = restarts + 1
  /\ UNCHANGED <<retryArmed, quit, cycles>>

(* readerStopTimeout runs out: errStreamWedged, for this binding only.     *)
GivesUpRestart(a) ==
  /\ caller = "teardown" /\ a \in todo
  /\ Wedges /\ reader[starts] \in {"handling", "dying"}
  /\ Refused(a)
  /\ UNCHANGED <<registrar, source, reader, quit>>

(* Close: nothing to do when nothing runs; a wedged stream is left alone.  *)
ClosesNothing ==
  /\ caller = "close" /\ ~running
  /\ caller' = "idle"
  /\ UNCHANGED <<registrar, dispatcher, source, reader, quit, todo, restarts, cycles>>

ClosesStream ==
  /\ caller = "close" /\ running
  /\ running' = FALSE
  /\ quit' = quit \cup {starts}
  /\ caller' = "closing"
  /\ latched' = {} /\ binds' = {}
  /\ UNCHANGED <<retryArmed, disabled, starts, source, reader, todo, restarts, cycles>>

ClosesSource ==
  /\ caller = "closing" /\ ReaderStopped
  /\ source' = "ended"
  /\ caller' = "idle"
  /\ UNCHANGED <<registrar, dispatcher, reader, quit, todo, restarts, cycles>>

GivesUpClose ==
  /\ caller = "closing" /\ Wedges /\ reader[starts] = "handling"
  /\ caller' = "idle"
  /\ UNCHANGED <<registrar, dispatcher, source, reader, quit, todo, restarts, cycles>>

(***************************************************************************)
(* The reader                                                              *)
(***************************************************************************)

(* Readers receive from one channel: it is gohook's, and so is the choice  *)
(* of select between it and quit when both are ready.                      *)
Receives(s) == reader[s] = "reading" /\ source = "up"

(* A press of a bound key is latched and Pressed is called after the lock; *)
(* its release takes the latch and calls Released. (HookEnabled, the       *)
(* stream's first event, finds disabled clear already.)                    *)
TakesKey(s) ==
  /\ Receives(s)
  /\ \E a \in binds : latched' \in {latched \cup {a}, latched \ {a}} /\ latched' # latched
  /\ reader' = [reader EXCEPT ![s] = "handling"]
  /\ UNCHANGED <<registrar, binds, source, quit, manager>>

(* streamDied's first half: HookDisabled, or the channel closed under it.  *)
StreamDied(s) ==
  /\ Receives(s)
  /\ source' \in {"dead", "closed"}
  /\ disabled' = TRUE
  /\ reader' = [reader EXCEPT ![s] = "dying"]
  /\ UNCHANGED <<running, retryArmed, starts, dispatcher, quit, manager>>

\* Mutant: the latches of a dead stream stay.
ReleasesNothing == UNCHANGED latched
ReleaseHeld == latched' = {}

(* Its second half. After HookDisabled the reader goes on reading, and     *)
(* only quit stops it.                                                     *)
Releases(s) ==
  /\ reader[s] = "dying"
  /\ ReleaseHeld
  /\ reader' = [reader EXCEPT ![s] = IF source = "closed" THEN "gone" ELSE "handling"]
  /\ UNCHANGED <<registrar, binds, source, quit, manager>>

HandlerReturns(s) ==
  /\ reader[s] = "handling"
  /\ reader' = [reader EXCEPT ![s] = "reading"]
  /\ UNCHANGED <<registrar, dispatcher, source, quit, manager>>

Quits(s) ==
  /\ reader[s] = "reading" /\ s \in quit
  /\ ReleaseHeld
  /\ reader' = [reader EXCEPT ![s] = "gone"]
  /\ UNCHANGED <<registrar, binds, source, quit, manager>>

ManagerStep ==
  \/ Apply \/ CloseBegins \/ ClosesNothing \/ ClosesStream \/ ClosesSource \/ GivesUpClose
  \/ \E a \in Actions :
        FindsHealthy(a) \/ FindsDead(a) \/ Starts(a) \/ BeginsRestart(a)
        \/ Restarts(a) \/ GivesUpRestart(a)

ReaderStep ==
  \E s \in Streams :
     TakesKey(s) \/ StreamDied(s) \/ Releases(s) \/ HandlerReturns(s) \/ Quits(s)

Next == ManagerStep \/ ReaderStep

Spec == Init /\ [][Next]_vars

(***************************************************************************)
(* Properties                                                              *)
(***************************************************************************)

(* While a key is latched, somebody can still release it: a stream that    *)
(* delivers key-ups to a live reader, or a reader on its way to releaseHeld*)
(* (streamDied, the quit branch of read, teardown). Otherwise the          *)
(* microphone stays open until the watchdog.                               *)
HeldCanBeReleased ==
  latched # {} =>
    \E s \in Alive : source = "up" \/ reader[s] = "dying" \/ s \in quit

(* One call restarts the stream at most once, however many bindings it     *)
(* registers and however often the stream dies meanwhile: planStream       *)
(* spends the retry that UnregisterAll armed.                              *)
OneRestartPerCall == restarts <= 1

(* A stream that dies under a held key is made good, by one restart        *)
(* (streamDied, planStream).                                               *)
StreamIsMended == HeldCanBeReleased /\ OneRestartPerCall
=============================================================================

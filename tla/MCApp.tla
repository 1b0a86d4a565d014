-------------------------------- MODULE MCApp --------------------------------
(***************************************************************************)
(* The edges of the push-to-talk keys and buttons, the hydration of the    *)
(* roster, and the notification centre. The modules share no state, so     *)
(* that TLC explores them side by side instead of multiplied: "subject"    *)
(* names the component a behaviour is of, and the variables of the others  *)
(* keep their initial values.                                              *)
(***************************************************************************)
EXTENDS PushToTalk, Integers, Sequences, FiniteSets

CONSTANTS
  Clients, MaxVersion, BufMax, WireMax, HeldFails, Keys, Windowed, Contents,
  NoItem, NotifyCap, MaxCalls, MaxUser

VARIABLES
  roster, registered, since, wire, closed, ackLate, snapshot, store, buf,
  released, hand, installer, consumer, heldFails,
  items, suppressed, pending, cancelGen, pendingGen, closers, emitter, level,
  excused, silenced, notifyStopped, notifyCalls, notifyOps,
  subject  \* the component whose behaviour this is

heldVars == <<roster, registered, since, wire, closed, ackLate, snapshot, store, buf,
  released, hand, installer, consumer, heldFails>>
notifyVars == <<items, suppressed, pending, cancelGen, pendingGen, closers, emitter, level,
  excused, silenced, notifyStopped, notifyCalls, notifyOps>>

Roster == INSTANCE HeldStream WITH
  fails <- heldFails, Keys <- Clients, MaxFails <- HeldFails
Notify == INSTANCE Notify WITH
  stopped <- notifyStopped, calls <- notifyCalls, ops <- notifyOps,
  None <- NoItem, Cap <- NotifyCap

ASSUME Roster!HeldAssumption
ASSUME Notify!NotifyAssumption

AppInit ==
  /\ subject \in {"ptt", "held", "notify"}
  /\ Init /\ Roster!Init /\ Notify!Init

AppNext ==
  /\ UNCHANGED subject
  /\ \/ /\ subject = "ptt" /\ Next
        /\ UNCHANGED <<heldVars, notifyVars>>
     \/ /\ subject = "held" /\ Roster!Next
        /\ UNCHANGED <<vars, notifyVars>>
     \/ /\ subject = "notify" /\ Notify!Next
        /\ UNCHANGED <<vars, heldVars>>

appVars == <<subject, vars, heldVars, notifyVars>>

\* The fairness each module states for itself (PushToTalk, HeldStream,
\* Notify: FairSpec).
Fairness ==
  /\ \A t \in Threads : WF_vars(subject = "ptt" /\ HandlerStep(t))
  /\ WF_vars(subject = "ptt" /\ WatchdogStep)
  /\ SF_vars(subject = "ptt" /\ UiEnds)
  /\ WF_heldVars(subject = "held" /\ Roster!InstallerStep)
  /\ WF_heldVars(subject = "held" /\ Roster!ConsumerStep)
  /\ WF_heldVars(subject = "held" /\ Roster!Register /\ UNCHANGED heldFails)
  /\ WF_heldVars(subject = "held" /\ closed /\ Roster!Abandon)
  /\ \A k \in Keys :
       /\ WF_notifyVars(subject = "notify" /\ Notify!EmitterStep(k))
       /\ WF_notifyVars(subject = "notify" /\ Notify!WindowCloses(k))
  /\ WF_notifyVars(subject = "notify" /\ \E c \in closers : Notify!CloserStep(c))

AppSpec == AppInit /\ [][AppNext]_appVars /\ Fairness

\* The roster on show lacks nothing that is not on its way (hydrate), and the
\* notifications on show are those that apply (coalesce, Dismiss).
ShownIsTrue == Roster!NothingLost /\ Notify!ListIsTrue
\* The store ends up as the server's roster (resync).
Converges == Roster!Converges
\* No change stays in a window for ever (windowClosed).
EveryChangeIsApplied == Notify!EveryChangeIsApplied
=============================================================================

------------------------------ MODULE MCLinks ------------------------------
(***************************************************************************)
(* The health monitor and a voice session over a patient network, under    *)
(* fairness.                                                               *)
(* The modules share no state, so that TLC explores them side by side      *)
(* instead of multiplied: "subject" names the component a behaviour is of, *)
(* and the variables of the others keep their initial values.              *)
(***************************************************************************)
EXTENDS ConnHealth, FiniteSets

CONSTANTS
  Attempts, LossThreshold, EventMax,
  MaxGen, MaxPending, MaxFaults, Patient

VARIABLES
  state, cbQueue, cbFinal, seen, deliverer, conn, gen, closed, done, events,
  lifecycle, rebinding, attempt, unanswered, rxLoops, closer, toServer,
  toClient, bound, acked, faults,
  subject  \* the component whose behaviour this is

sideVars == <<state, cbQueue, cbFinal, seen, deliverer, conn, gen, closed, done, events,
  lifecycle, rebinding, attempt, unanswered, rxLoops, closer, toServer,
  toClient, bound, acked, faults>>

Voice == INSTANCE VoiceSession

ASSUME Voice!VoiceAssumption

SideInit ==
  /\ subject \in {"health", "voice"}
  /\ Init /\ Voice!Init

SideNext ==
  /\ UNCHANGED subject
  /\ \/ /\ subject = "health" /\ Next
        /\ UNCHANGED sideVars
     \/ /\ subject = "voice" /\ Voice!Next
        /\ UNCHANGED vars

allVars == <<subject, vars, sideVars>>

\* The fairness each module states for itself, of the component the behaviour
\* is of (ConnHealth, VoiceSession: FairSpec).
Fairness ==
  /\ WF_vars(subject = "health" /\ TickStep)
  /\ WF_vars(subject = "health" /\ SetControlState)
  /\ WF_vars(subject = "health" /\ SetVoiceState)
  /\ \A t \in Threads : WF_vars(subject = "health" /\ Deliver(t))
  /\ WF_sideVars(subject = "voice" /\ Voice!LifecycleStep)
  /\ SF_sideVars(subject = "voice" /\ Voice!Exit)
  /\ WF_sideVars(subject = "voice" /\ Voice!CloseStep)
  /\ WF_sideVars(subject = "voice" /\ Voice!DeliverStep)
  /\ \A g \in Voice!Gens : WF_sideVars(subject = "voice" /\ Voice!EndRead(g))
  /\ \A m \in Voice!Requests : WF_sideVars(subject = "voice" /\ Voice!Serve(m))
  /\ \A m \in Voice!Replies :
       /\ WF_sideVars(subject = "voice" /\ Voice!Read(m))
       /\ WF_sideVars(subject = "voice" /\ Voice!Undeliverable(m))

SideSpec == SideInit /\ [][SideNext]_allVars /\ Fairness

\* Close returns, and its transition is delivered (Close, deliverLoop).
CloseReturns == Voice!CloseReturns
\* The session is connected again when the network behaves (lifecycleLoop).
Recovers == subject = "voice" => Voice!Recovers
=============================================================================

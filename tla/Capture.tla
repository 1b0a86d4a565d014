------------------------------ MODULE Capture ------------------------------
(* The capture of a new trigger (internal/app/settings.go: BeginCapture,   *)
(* onJoystickCaptured, EndCapture and its timer, resumeCapture;            *)
(* internal/joystick/capture.go). Every call of the frontend runs on a     *)
(* goroutine of its own, the timer on another, and a joystick capture      *)
(* completes on the poll goroutine. The token each begin returns is all    *)
(* that orders them.                                                       *)
(*                                                                         *)
(* A section of sb.mu, a call of the key manager and a call of the         *)
(* joystick manager are one step each. The user's clicks are assumed to be *)
(* further apart than a BeginCapture takes, and that well under the 30     *)
(* seconds of its timer; the ends are not ordered with anything.           *)
EXTENDS Naturals

CONSTANTS
  Rows,      \* the actions whose rows can be clicked
  NoRow,     \* the empty action id, none of them
  MaxTokens  \* bound: captures begun

CaptureAssumption == MaxTokens \in Nat

Tokens == 1 .. MaxTokens
Enders == {"front", "timer"}

VARIABLES
  captureGen, captureAction,  \* settingsBridge, under sb.mu
  captureTimer,  \* the token of the timer that is armed, or 0
  hkSuspended, jmSuspended,  \* the managers
  armed,         \* the token of the joystick capture in flight, or 0
  row,           \* the action each token was begun for
  begin,         \* how far each BeginCapture has come
  resume,        \* how far each resumeCapture has come
  poll,          \* the poll goroutine with a completed capture
  bound          \* the last binding: the row of its token, and its action

settings == <<captureGen, captureAction, captureTimer>>
managers == <<hkSuspended, jmSuspended>>
vars == <<settings, managers, armed, row, begin, resume, poll, bound>>

Idle == [at |-> "idle", token |-> 0, action |-> NoRow]

Init ==
  /\ captureGen = 0 /\ captureAction = NoRow /\ captureTimer = 0
  /\ hkSuspended = FALSE /\ jmSuspended = FALSE /\ armed = 0
  /\ row = [g \in Tokens |-> NoRow]
  /\ begin = [g \in Tokens |-> "none"]
  /\ resume = [g \in Tokens |-> [e \in Enders |-> "none"]]
  /\ poll = Idle
  /\ bound = [for |-> NoRow, to |-> NoRow]

(***************************************************************************)
(* BeginCapture                                                            *)
(***************************************************************************)

\* Mutant: a timer that is armed already is left as it is.
ArmTimerOnce(g) == captureTimer' = IF captureTimer = 0 THEN g ELSE captureTimer
(* The timer carries the token of its own capture.                         *)
ArmTimer(g) == captureTimer' = g

Begin(g, r) ==
  /\ g = captureGen + 1
  /\ \A h \in 1 .. captureGen : begin[h] = "done"
  /\ captureGen' = g /\ captureAction' = r
  /\ ArmTimer(g)
  /\ row' = [row EXCEPT ![g] = r]
  /\ begin' = [begin EXCEPT ![g] = "keys"]
  /\ UNCHANGED <<managers, armed, resume, poll, bound>>

SuspendKeys(g) ==
  /\ begin[g] = "keys"
  /\ hkSuspended' = TRUE
  /\ begin' = [begin EXCEPT ![g] = "sticks"]
  /\ UNCHANGED <<settings, jmSuspended, armed, row, resume, poll, bound>>

SuspendSticks(g) ==
  /\ begin[g] = "sticks"
  /\ jmSuspended' = TRUE
  /\ begin' = [begin EXCEPT ![g] = "arm"]
  /\ UNCHANGED <<settings, hkSuspended, armed, row, resume, poll, bound>>

(* It replaces a capture in flight, whose callback is never called.        *)
ArmCapture(g) ==
  /\ begin[g] = "arm"
  /\ armed' = g
  /\ begin' = [begin EXCEPT ![g] = "done"]
  /\ UNCHANGED <<settings, managers, row, resume, poll, bound>>

(***************************************************************************)
(* The poll goroutine                                                      *)
(***************************************************************************)

(* feedCapture: what was pressed is released; the capture is taken and     *)
(* its callback called outside the manager's mutex.                        *)
Completes ==
  /\ armed # 0 /\ poll = Idle
  /\ armed' = 0
  /\ poll' = [at |-> "captured", token |-> armed, action |-> NoRow]
  /\ UNCHANGED <<settings, managers, row, begin, resume, bound>>

\* Mutant: the token is not looked at.
IsAnyCapture(g) == TRUE
IsCurrent(g) == g = captureGen

(* onJoystickCaptured: the token is checked and the action read under one  *)
(* lock; the binding is made under another.                                *)
Checks ==
  /\ poll.at = "captured"
  /\ poll' = IF IsCurrent(poll.token)
             THEN [poll EXCEPT !.at = "binding", !.action = captureAction]
             ELSE Idle
  /\ UNCHANGED <<settings, managers, armed, row, begin, resume, bound>>

Binds ==
  /\ poll.at = "binding"
  /\ bound' = [for |-> row[poll.token], to |-> poll.action]
  /\ poll' = Idle
  /\ UNCHANGED <<settings, managers, armed, row, begin, resume>>

(***************************************************************************)
(* EndCapture and the timer                                                *)
(***************************************************************************)

Moves(g, e, to) == resume' = [resume EXCEPT ![g][e] = to]

(* The frontend has the token once BeginCapture returned; the timer runs   *)
(* out long after it, and Stop cannot recall it then.                      *)
Fires(g) ==
  /\ captureTimer = g /\ begin[g] = "done" /\ resume[g]["timer"] = "none"
  /\ Moves(g, "timer", "fired")
  /\ UNCHANGED <<settings, managers, armed, row, begin, poll, bound>>

MayEnd(g, e) ==
  /\ begin[g] = "done"
  /\ resume[g][e] = IF e = "timer" THEN "fired" ELSE "none"

(* The gate of resumeCapture: a stale token is a no-op.                    *)
PassesGate(g, e) ==
  /\ MayEnd(g, e)
  /\ \/ IsCurrent(g) /\ captureTimer' = 0 /\ Moves(g, e, "keys")
     \/ ~IsCurrent(g) /\ UNCHANGED captureTimer /\ Moves(g, e, "done")
  /\ UNCHANGED <<captureGen, captureAction, managers, armed, row, begin, poll, bound>>

ResumeKeys(g, e) ==
  /\ resume[g][e] = "keys"
  /\ hkSuspended' = FALSE
  /\ Moves(g, e, "cancel")
  /\ UNCHANGED <<settings, jmSuspended, armed, row, begin, poll, bound>>

CancelCapture(g, e) ==
  /\ resume[g][e] = "cancel"
  /\ armed' = 0
  /\ Moves(g, e, "sticks")
  /\ UNCHANGED <<settings, managers, row, begin, poll, bound>>

ResumeSticks(g, e) ==
  /\ resume[g][e] = "sticks"
  /\ jmSuspended' = FALSE
  /\ Moves(g, e, "done")
  /\ UNCHANGED <<settings, hkSuspended, armed, row, begin, poll, bound>>

CaptureStep(g) ==
  \/ \E r \in Rows : Begin(g, r)
  \/ SuspendKeys(g) \/ SuspendSticks(g) \/ ArmCapture(g) \/ Fires(g)
  \/ \E e \in Enders :
        PassesGate(g, e) \/ ResumeKeys(g, e) \/ CancelCapture(g, e) \/ ResumeSticks(g, e)

Next == Completes \/ Checks \/ Binds \/ \E g \in Tokens : CaptureStep(g)

Spec == Init /\ [][Next]_vars

(***************************************************************************)
(* Properties                                                              *)
(***************************************************************************)

(* A joystick capture binds the row it was begun for, whichever row the    *)
(* user has clicked by the time the button is released                     *)
(* (onJoystickCaptured's token check).                                     *)
BindsItsOwnRow == bound.for = bound.to

(* No capture leaves the hotkeys suspended: while a manager is suspended   *)
(* or a joystick capture armed, a begin or a resume is still under way or  *)
(* the timer of the newest capture is armed. EndCapture may never come     *)
(* (the timer's reason to be).                                             *)
SuspensionEnds ==
  hkSuspended \/ jmSuspended \/ armed # 0 =>
    \/ captureTimer = captureGen
    \/ \E g \in Tokens : begin[g] \notin {"none", "done"}
    \/ \E g \in Tokens, e \in Enders : resume[g][e] \notin {"none", "done"}

(* What a capture may leave behind: one binding, of its row, and hotkeys   *)
(* that work again (BeginCapture, onJoystickCaptured, resumeCapture).      *)
CaptureIsContained == BindsItsOwnRow /\ SuspensionEnds


(* BeginCapture's comment: no end of an older row resumes the hotkeys in   *)
(* the middle of a live capture, "every interleaving is then safe". The    *)
(* gate checks the token and lets go of sb.mu before it resumes.           *)
LiveCaptureStaysSuspended ==
  \A g \in Tokens :
     /\ g = captureGen /\ begin[g] = "done"
     /\ \A e \in Enders : resume[g][e] \in {"none", "fired"}
     => hkSuspended
=============================================================================

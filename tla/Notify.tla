------------------------------- MODULE Notify -------------------------------
(***************************************************************************)
(* The notification centre: conditions raised and resolved under a key,    *)
(* coalesced per key in fixed windows whose trailing timer applies the     *)
(* last change, dismissed, cleared and suppressed by the user              *)
(* (internal/notify: coalesce.go, store.go, notify.go).                    *)
(*                                                                         *)
(* Each key has one emitter, the poll goroutine of its source.  emitMu     *)
(* covers a whole Raise or Resolve, so each is one step; a leading edge    *)
(* and a trailing timer release mu around theirs.  A fingerprint is the    *)
(* content it hashes, and the clock only says that a window may close.     *)
(***************************************************************************)
EXTENDS Integers, SequencesExt

CONSTANTS Keys,      \* conditions
          Windowed,  \* those raised with a coalescing window
          Contents,  \* what a raised condition can say
          None,
          Cap,       \* Options.Cap
          MaxCalls,  \* bound: calls of the emitters
          MaxUser    \* bound: operations of the user

NotifyAssumption ==
  /\ Windowed \subseteq Keys /\ None \notin Keys \cup Contents
  /\ Cap \in Nat \ {0} /\ MaxCalls \in Nat /\ MaxUser \in Nat

VARIABLES
  items,       \* Notifier.items, newest first
  suppressed,  \* Notifier.suppressed
  pending,     \* Notifier.pending: <<entry>>, or <<>>
  cancelGen,   \* Notifier.cancelGen
  pendingGen,  \* Notifier.pendingGen
  closers,     \* timers that are past windowClosed's first section
  emitter,     \* what each key's emitter is about
  level,       \* what the source last said of the key (history)
  excused,     \* keys whose item the user or the cap interfered with (history)
  silenced,    \* what the user dismissed and the source still says (history)
  stopped,     \* StopTimers has run
  calls, ops   \* calls of the emitters, operations of the user

vars == <<items, suppressed, pending, cancelGen, pendingGen, closers, emitter,
          level, excused, silenced, stopped, calls, ops>>

\* A change: Raise with a content, or Resolve.
Resolved == "resolved"
Change == Contents \cup {Resolved}

Item == [key : Keys \cup {None}, says : Contents, resolved : BOOLEAN, unread : BOOLEAN]
Entry == [gen : 1..pendingGen, change : Change \cup {None}, armed : BOOLEAN]
Closer == [key : Windowed, gen : 1..pendingGen, change : Change,
           at : {"apply", "rearm"}, changed : BOOLEAN]

TypeOK ==
  /\ \A i \in DOMAIN items : items[i] \in Item
  /\ Len(items) <= Cap
  /\ suppressed \in [Keys -> Contents \cup {None}]
  /\ \A k \in Keys : pending[k] = <<>> \/ (Len(pending[k]) = 1 /\ pending[k][1] \in Entry)
  /\ \A c \in closers : c \in Closer
  /\ level \in [Keys -> Change]
  /\ excused \subseteq Keys /\ silenced \in [Keys -> Contents \cup {None}]

Init ==
  /\ items = <<>> /\ suppressed = [k \in Keys |-> None]
  /\ pending = [k \in Keys |-> <<>>] /\ cancelGen = 0 /\ pendingGen = 0
  /\ closers = {} /\ stopped = FALSE /\ calls = 0 /\ ops = 0
  /\ emitter = [k \in Keys |-> [at |-> "idle", change |-> None, gen |-> 0]]
  /\ level = [k \in Keys |-> Resolved]
  /\ excused = {} /\ silenced = [k \in Keys |-> None]

----------------------------------------------------------------------------
(* Raise and Resolve.                                                      *)

\* findByKeyLocked: the newest item of k, or 0.
Newest(k) == SelectInSeq(items, LAMBDA it : it.key = k)

Live(k) == Newest(k) > 0 /\ ~items[Newest(k)].resolved

\* insertLocked: prepended, and the oldest beyond the cap is gone.
Inserted(it) ==
  LET all == <<it>> \o items
  IN  IF Len(all) > Cap THEN SubSeq(all, 1, Cap) ELSE all

\* What raiseLocked makes of a Raise.
Raises(k, c) ==
  IF suppressed[k] = c THEN "nothing"
  ELSE IF Live(k) /\ items[Newest(k)].says = c THEN "nothing"
  ELSE IF Live(k) THEN "update" ELSE "insert"

\* insertLocked drops the oldest item beyond the cap.
Evicted(k, c) ==
  IF c # Resolved /\ Raises(k, c) = "insert" /\ Len(items) = Cap /\ ~items[Cap].resolved
  THEN {items[Cap].key} \ {None} ELSE {}

\* Mutant: a new occurrence leaves an older dismissal in force.
RaiseKeepsSuppression(k, c) ==
  LET it == [key |-> k, says |-> c, resolved |-> FALSE, unread |-> TRUE]
  IN  /\ UNCHANGED suppressed
      /\ items' = CASE Raises(k, c) = "nothing" -> items
                    [] Raises(k, c) = "update" -> [items EXCEPT ![Newest(k)] = it]
                    [] Raises(k, c) = "insert" -> Inserted(it)

Raise(k, c) ==
  LET it == [key |-> k, says |-> c, resolved |-> FALSE, unread |-> TRUE]
  IN  CASE Raises(k, c) = "nothing" -> UNCHANGED <<items, suppressed>>
        [] Raises(k, c) = "update" ->
             items' = [items EXCEPT ![Newest(k)] = it] /\ UNCHANGED suppressed
        [] Raises(k, c) = "insert" ->
             items' = Inserted(it) /\ suppressed' = [suppressed EXCEPT ![k] = None]

Resolve(k) ==
  /\ suppressed' = [suppressed EXCEPT ![k] = None]
  /\ items' = IF Live(k)
              THEN [items EXCEPT ![Newest(k)].resolved = TRUE, ![Newest(k)].unread = FALSE]
              ELSE items

\* raiseReport or resolveReport ...
Apply(k, c) == IF c = Resolved THEN Resolve(k) ELSE Raise(k, c)

\* ... and whether it published.
Publishes(k, c) == IF c = Resolved THEN Live(k) ELSE Raises(k, c) # "nothing"

\* Post: a discrete event, which no key addresses.
Post(c) ==
  /\ calls < MaxCalls /\ calls' = calls + 1
  /\ items' = Inserted([key |-> None, says |-> c, resolved |-> FALSE, unread |-> TRUE])
  /\ excused' = excused \cup (IF Len(items) = Cap /\ ~items[Cap].resolved
                              THEN {items[Cap].key} \ {None} ELSE {})
  /\ UNCHANGED <<suppressed, pending, cancelGen, pendingGen, closers, emitter,
                 level, silenced, stopped, ops>>

----------------------------------------------------------------------------
(* The emitters: RaiseWindowed and ResolveWindowed.                        *)

Applying(k) == \E c \in closers : c.key = k /\ c.at = "apply"

\* The key's own emitter has just said what holds: nothing is excused any more,
\* unless an older change is still to be applied.
Excuse(k, c) == (IF Applying(k) THEN excused ELSE excused \ {k}) \cup Evicted(k, c)

\* coalesce: at once without a window, recorded in an open one, and otherwise a
\* leading edge.
Says(k, c) ==
  /\ ~stopped /\ emitter[k].at = "idle" /\ calls < MaxCalls
  /\ calls' = calls + 1
  /\ level' = [level EXCEPT ![k] = c]
  /\ silenced' = IF silenced[k] = c THEN silenced ELSE [silenced EXCEPT ![k] = None]
  /\ \/ /\ k \notin Windowed
        /\ Apply(k, c) /\ excused' = Excuse(k, c)
        /\ UNCHANGED <<pending, emitter>>
     \/ /\ k \in Windowed /\ pending[k] # <<>>
        /\ pending' = [pending EXCEPT ![k][1].change = c]
        /\ UNCHANGED <<items, suppressed, excused, emitter>>
     \/ /\ k \in Windowed /\ pending[k] = <<>>
        /\ emitter' = [emitter EXCEPT ![k] = [at |-> "apply", change |-> c, gen |-> cancelGen]]
        /\ UNCHANGED <<items, suppressed, excused, pending>>
  /\ UNCHANGED <<cancelGen, pendingGen, closers, stopped, ops>>

Idle == [at |-> "idle", change |-> None, gen |-> 0]

\* The leading edge, with no lock held in between.
LeadingEdge(k) ==
  /\ emitter[k].at = "apply"
  /\ Apply(k, emitter[k].change) /\ excused' = Excuse(k, emitter[k].change)
  /\ emitter' = [emitter EXCEPT ![k] = IF Publishes(k, emitter[k].change)
                                       THEN [@ EXCEPT !.at = "arm", !.change = None] ELSE Idle]
  /\ UNCHANGED <<pending, cancelGen, pendingGen, closers, level, silenced, stopped, calls, ops>>

\* The window opens, unless a dismissal, a clear or StopTimers came in between.
Arm(k) ==
  /\ emitter[k].at = "arm"
  /\ IF pending[k] # <<>> \/ cancelGen # emitter[k].gen
     THEN UNCHANGED <<pending, pendingGen>>
     ELSE /\ pendingGen' = pendingGen + 1
          /\ pending' = [pending EXCEPT ![k] =
                           <<[gen |-> pendingGen + 1, change |-> None, armed |-> TRUE]>>]
  /\ emitter' = [emitter EXCEPT ![k] = Idle]
  /\ UNCHANGED <<items, suppressed, cancelGen, closers, level, excused, silenced,
                 stopped, calls, ops>>

EmitterStep(k) == LeadingEdge(k) \/ Arm(k)

----------------------------------------------------------------------------
(* The trailing timers: windowClosed.                                      *)

\* The timer fires: an idle window is retired, a pending change taken.
WindowCloses(k) ==
  /\ pending[k] # <<>> /\ pending[k][1].armed
  /\ LET e == pending[k][1]
     IN  IF e.change = None
         THEN pending' = [pending EXCEPT ![k] = <<>>] /\ UNCHANGED closers
         ELSE /\ pending' = [pending EXCEPT ![k] = <<[e EXCEPT !.change = None, !.armed = FALSE]>>]
              /\ closers' = closers \cup {[key |-> k, gen |-> e.gen, change |-> e.change,
                                           at |-> "apply", changed |-> FALSE]}
  /\ UNCHANGED <<items, suppressed, cancelGen, pendingGen, emitter, level, excused, silenced,
                 stopped, calls, ops>>

CloserApplies(c) ==
  /\ c.at = "apply"
  /\ Apply(c.key, c.change)
  /\ excused' = excused \cup Evicted(c.key, c.change)
  /\ closers' = (closers \ {c})
                  \cup {[c EXCEPT !.at = "rearm", !.changed = Publishes(c.key, c.change)]}
  /\ UNCHANGED <<pending, cancelGen, pendingGen, emitter, level, silenced, stopped, calls, ops>>

Own(c) == pending[c.key] # <<>> /\ pending[c.key][1].gen = c.gen

\* Mutant: a window that closed on a no-op is retired with what came meanwhile.
RetiresOnNoop(c) == ~c.changed

\* Nothing was published and nothing came while the change was applied.
Retires(c) == ~c.changed /\ pending[c.key][1].change = None

\* Mutant: only a change that came meanwhile keeps the timer going.
CloserRearmsIfPending(c) ==
  /\ c.at = "rearm"
  /\ closers' = closers \ {c}
  /\ pending' = IF Own(c) /\ pending[c.key][1].change # None
                THEN [pending EXCEPT ![c.key][1].armed = TRUE] ELSE pending
  /\ UNCHANGED <<items, suppressed, cancelGen, pendingGen, emitter, level, excused, silenced,
                 stopped, calls, ops>>

CloserRearms(c) ==
  /\ c.at = "rearm"
  /\ closers' = closers \ {c}
  /\ pending' = IF ~Own(c) THEN pending
                ELSE IF Retires(c) THEN [pending EXCEPT ![c.key] = <<>>]
                ELSE [pending EXCEPT ![c.key][1].armed = TRUE]
  /\ UNCHANGED <<items, suppressed, cancelGen, pendingGen, emitter, level, excused, silenced,
                 stopped, calls, ops>>

CloserStep(c) == CloserApplies(c) \/ CloserRearms(c)

----------------------------------------------------------------------------
(* The user.                                                               *)

\* pendingResolveLocked
PendingResolve(k) == pending[k] # <<>> /\ pending[k][1].change = Resolved

\* Mutant: the committed item alone tells whether the condition still holds.
SuppressesCommitted(it) == it.key # None /\ ~it.resolved

\* The dismissed condition still holds, so it is suppressed as it reads.
Suppresses(it) == it.key # None /\ ~it.resolved /\ ~PendingResolve(it.key)

\* cancelPendingLocked destroys a change that matters: a Raise, or the Resolve of
\* an item that stays because an older one of its key was dismissed.
Destroys(k, gone) ==
  /\ pending[k] # <<>> /\ pending[k][1].change # None
  /\ PendingResolve(k) => Live(k) /\ items[Newest(k)] \notin gone

\* What dismissing the items of gone does to the state of their keys.
Silence(gone) ==
  LET keys == {it.key : it \in gone} \ {None}
      held == {it \in gone : Suppresses(it)}
      Of(k) == CHOOSE it \in held : it.key = k
      quiet == {k \in keys : ~Applying(k) /\ emitter[k].at = "idle"}
  IN  /\ cancelGen' = IF keys = {} THEN cancelGen ELSE cancelGen + 1
      /\ pending' = [k \in Keys |-> IF k \in keys THEN <<>> ELSE pending[k]]
      /\ suppressed' = [k \in Keys |-> IF k \in {it.key : it \in held}
                                       THEN Of(k).says ELSE suppressed[k]]
      /\ silenced' = [k \in Keys |-> IF k \in {it.key : it \in held} \cap quiet
                                     THEN Of(k).says ELSE silenced[k]]
      /\ excused' = excused \cup {k \in keys : Applying(k) \/ Destroys(k, gone)}

Dismiss(i) ==
  /\ Silence({items[i]})
  /\ items' = RemoveAt(items, i)

\* Mutant: CLEAR ALL is not told to the keys.
ClearForgets ==
  /\ items # <<>> /\ items' = <<>>
  /\ silenced' = [k \in Keys |-> IF Live(k) /\ ~Applying(k) /\ emitter[k].at = "idle"
                                 THEN items[Newest(k)].says ELSE silenced[k]]
  /\ UNCHANGED <<suppressed, pending, cancelGen, excused>>

Clear ==
  /\ items # <<>>
  /\ Silence(Range(items))
  /\ items' = <<>>

MarkRead(i) ==
  /\ items[i].unread
  /\ items' = [items EXCEPT ![i].unread = FALSE]
  /\ UNCHANGED <<suppressed, pending, cancelGen, silenced, excused>>

MarkAllRead ==
  /\ \E i \in DOMAIN items : items[i].unread
  /\ items' = [i \in DOMAIN items |-> [items[i] EXCEPT !.unread = FALSE]]
  /\ UNCHANGED <<suppressed, pending, cancelGen, silenced, excused>>

User ==
  /\ ops < MaxUser /\ ops' = ops + 1
  /\ \/ Clear \/ MarkAllRead
     \/ \E i \in DOMAIN items : Dismiss(i) \/ MarkRead(i)
  /\ UNCHANGED <<pendingGen, closers, emitter, level, stopped, calls>>

\* Shutdown: the sources have been stopped, and no timer is left to fire.
StopTimers ==
  /\ ~stopped /\ stopped' = TRUE
  /\ \A k \in Keys : emitter[k].at = "idle"
  /\ cancelGen' = cancelGen + 1
  /\ pending' = [k \in Keys |-> <<>>]
  /\ excused' = Keys
  /\ UNCHANGED <<items, suppressed, pendingGen, closers, emitter, level, silenced, calls, ops>>

Next ==
  \/ \E k \in Keys : (\E c \in Change : Says(k, c)) \/ EmitterStep(k) \/ WindowCloses(k)
  \/ \E c \in closers : CloserStep(c)
  \/ \E c \in Contents : Post(c)
  \/ User \/ StopTimers

Spec == Init /\ [][Next]_vars

\* Timers fire, and goroutines that have work run.
FairSpec ==
  /\ Spec
  /\ \A k \in Keys : WF_vars(EmitterStep(k)) /\ WF_vars(WindowCloses(k))
  /\ WF_vars(\E c \in closers : CloserStep(c))

----------------------------------------------------------------------------
(* Properties.                                                             *)

\* Nothing of k is on its way.
Quiet(k) ==
  /\ emitter[k].at = "idle"
  /\ \A c \in closers : c.key # k
  /\ pending[k] # <<>> => pending[k][1].change = None

\* coalesce and windowClosed (coalesce.go:137, :247): once nothing of a key is
\* on its way, the list shows what its source said last, or the user has
\* dismissed exactly that.  A dismissal that destroyed a pending change, or
\* overtook a timer that was applying one, excuses the key until its next
\* leading edge.
SettledIsShown ==
  \A k \in Keys : Quiet(k) /\ k \notin excused =>
    IF level[k] = Resolved THEN ~Live(k) /\ suppressed[k] = None
    ELSE suppressed[k] = level[k] \/ (Live(k) /\ items[Newest(k)].says = level[k])

\* raiseLocked (store.go:196): a suppression and an unresolved item of its key
\* never coexist, and only the newest item of a key is unresolved.
OneOccurrence ==
  \A k \in Keys :
    /\ suppressed[k] # None => ~Live(k)
    /\ \A i \in DOMAIN items : items[i].key = k /\ ~items[i].resolved => i = Newest(k)

\* Dismiss and Clear (store.go:369, :429): what the user dismissed does not come
\* back while its source keeps saying the same.
DismissedStaysAway ==
  \A k \in Keys : silenced[k] # None =>
    ~(Live(k) /\ items[Newest(k)].says = silenced[k])

\* What the list shows, and what it keeps away (Post, Dismiss, coalesce).
ListIsTrue == SettledIsShown /\ OneOccurrence /\ DismissedStaysAway

\* What store.go:352-359 says of dismissing a resolved item: it does not silence
\* the same condition's next occurrence.
DismissalSilencesNoRelapse ==
  \A k \in Keys : ~stopped /\ Quiet(k) /\ Len(items) < Cap /\ level[k] # Resolved =>
    Live(k) \/ suppressed[k] # None

\* The trailing timer (coalesce.go:137, :247): whatever happens, a key comes to
\* rest, with no change left in a window that has no timer.
EveryChangeIsApplied == \A k \in Windowed : []<>Quiet(k)
=============================================================================

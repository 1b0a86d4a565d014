------------------------------- MODULE Hydrate -------------------------------
(***************************************************************************)
(* The guards of a window's one-shot fetches: hydrateSnapshot and          *)
(* hydrateDelta (frontend/src/shared/store/hydrate.ts).                    *)
(*                                                                         *)
(* A fetch is asked, answered with what Go holds when it is read, and then *)
(* settles in the window.  Pushes land in between.  A step of the window's *)
(* one thread is atomic.                                                   *)
(***************************************************************************)
EXTENDS Integers, Sequences

CONSTANT maxAttempts  \* of hydrateDelta

HydrateAssumption == maxAttempts \in Nat \ {0}

Asked == [at |-> "asked", dirty |-> FALSE, disposed |-> FALSE, attempt |-> 1]
Settled == [at |-> "settled", dirty |-> FALSE, disposed |-> FALSE, attempt |-> 0]

Answered(h, v) ==
  [at |-> "answered", answer |-> v, dirty |-> h.dirty, disposed |-> h.disposed,
   attempt |-> h.attempt]

InFlight(h) == h.at # "settled"

\* Mutant: a push that lands during the fetch is forgotten.
PushedUnmarked(h) == h

\* pushed(): what is under way is older than the push.
Pushed(h) == IF InFlight(h) THEN [h EXCEPT !.dirty = TRUE] ELSE h

\* Mutant: a handle that was given up still settles.
DisposedLate(h) == h

\* dispose(): a late answer lands nowhere.
Disposed(h) == [h EXCEPT !.disposed = TRUE]

\* A snapshot channel drops an answer that a push has overtaken.
AppliesSnapshot(h) == ~h.dirty /\ ~h.disposed

\* Mutant: a delta channel drops nothing and asks no more than once.
AsksOnce(h) == FALSE

\* A delta channel asks again, a bounded number of times, and then applies
\* the answer all the same.
AsksAgain(h) == h.dirty /\ ~h.disposed /\ h.attempt < maxAttempts
NextAttempt(h) == [Asked EXCEPT !.attempt = h.attempt + 1]
AppliesDelta(h) == ~h.disposed /\ ~AsksAgain(h)
\* The last answer, applied over newer pushes.
Forced(h) == AppliesDelta(h) /\ h.dirty /\ h.attempt = maxAttempts

\* A handle is that of the last of the hydrates started so far: null before
\* the first, and as good as null once the last one is given up.
Marked(s) == IF s = <<>> THEN s ELSE [s EXCEPT ![Len(s)] = Pushed(@)]
GivenUp(s) == IF s = <<>> THEN s ELSE [s EXCEPT ![Len(s)] = Disposed(@)]
Hydrated(s) == Append(GivenUp(s), Asked)
=============================================================================

---------------------------- MODULE WindowHistory ----------------------------
(***************************************************************************)
(* The transmission log in a window: rows are logged and broadcast, the    *)
(* log is cleared, and the History screen fetches it once and applies what *)
(* is pushed (internal/app/history.go, frontend/src/windows/main/screens/  *)
(* History.tsx, frontend/src/shared/store/history.ts).                     *)
(*                                                                         *)
(* A row is a number.  Events reach a window in the order in which they    *)
(* were emitted; between a change and its event, and between an answer and *)
(* its arrival, anything may happen.                                       *)
(***************************************************************************)
EXTENDS Hydrate

CONSTANTS Writers,    \* goroutines that log rows
          user,       \* the call of ClearHistory
          Cap,        \* of the log, and of the store
          MaxRows,    \* bound: rows logged
          MaxClears   \* bound: the user clears the log

WindowHistoryAssumption ==
  HydrateAssumption /\ Cap \in Nat \ {0} /\ user \notin Writers

VARIABLES
  log,      \* Log.entries, newest first
  owed,     \* the event each goroutine has still to emit
  wire,     \* events emitted and not delivered (external)
  fetch,    \* the hydrate of the screen
  entries,  \* useHistory.entries
  rows, clears,
  crossed,  \* history: an event was emitted ahead of that of an older change
  forced    \* history: the last attempt was applied over newer rows

go == <<log, owed, rows, clears, crossed>>
screen == <<fetch, entries, forced>>
vars == <<go, wire, screen>>

Nothing == [type |-> "none"]
Unmounted == [Settled EXCEPT !.at = "unmounted"]

Init ==
  /\ log = <<>> /\ owed = [w \in Writers \cup {user} |-> Nothing] /\ wire = <<>>
  /\ fetch = Unmounted /\ entries = <<>>
  /\ rows = 0 /\ clears = 0 /\ crossed = FALSE /\ forced = FALSE

Newest(s) == SubSeq(s, 1, IF Len(s) < Cap THEN Len(s) ELSE Cap)

-----------------------------------------------------------------------------
\* appendHistory: the log first, the broadcast after it.
Logs(w) ==
  /\ owed[w] = Nothing /\ rows < MaxRows
  /\ rows' = rows + 1
  /\ log' = Newest(<<rows + 1>> \o log)
  /\ owed' = [owed EXCEPT ![w] =
                [type |-> "row", row |-> rows + 1, made |-> rows + clears]]
  /\ UNCHANGED <<wire, screen, clears, crossed>>

ClearHistory ==
  /\ owed[user] = Nothing /\ clears < MaxClears
  /\ clears' = clears + 1
  /\ log' = <<>>
  /\ owed' = [owed EXCEPT ![user] = [type |-> "clear", made |-> rows + clears]]
  /\ UNCHANGED <<wire, screen, rows, crossed>>

\* A screen that is not mounted hears nothing.
Emits(w) ==
  /\ owed[w] # Nothing
  /\ wire' = IF fetch = Unmounted THEN wire ELSE Append(wire, owed[w])
  /\ owed' = [owed EXCEPT ![w] = Nothing]
  /\ crossed' = (crossed \/ \E v \in Writers \cup {user} :
                    owed[v] # Nothing /\ owed[v].made < owed[w].made)
  /\ UNCHANGED <<log, rows, clears, screen>>

-----------------------------------------------------------------------------
Mounts ==
  /\ fetch = Unmounted
  /\ fetch' = Asked
  /\ UNCHANGED <<go, wire, entries, forced>>

\* GetHistory.
GetHistory ==
  /\ fetch.at = "asked"
  /\ fetch' = Answered(fetch, log)
  /\ UNCHANGED <<go, wire, entries, forced>>

AnswerArrives ==
  /\ fetch.at = "answered"
  /\ IF AsksAgain(fetch)
       THEN fetch' = NextAttempt(fetch) /\ UNCHANGED <<entries, forced>>
       ELSE /\ fetch' = Settled
            /\ entries' = Newest(fetch.answer)
            /\ forced' = (forced \/ Forced(fetch))
  /\ UNCHANGED <<go, wire>>

\* Mutant: the row is prepended to an answer that is to come.
AppendsUnmarked(e) == entries' = Newest(<<e.row>> \o entries) /\ UNCHANGED fetch

Appends(e) == entries' = Newest(<<e.row>> \o entries) /\ fetch' = Pushed(fetch)

\* Mutant: the cleared log is filled again by an older answer.
ClearsUnmarked == entries' = <<>> /\ UNCHANGED fetch

Clears == entries' = <<>> /\ fetch' = Pushed(fetch)

Deliver ==
  /\ wire # <<>>
  /\ wire' = Tail(wire)
  /\ \/ Head(wire).type = "row" /\ Appends(Head(wire))
     \/ Head(wire).type = "clear" /\ Clears
  /\ UNCHANGED <<go, forced>>

Next ==
  \/ \E w \in Writers : Logs(w)
  \/ ClearHistory
  \/ \E w \in Writers \cup {user} : Emits(w)
  \/ Mounts \/ GetHistory \/ AnswerArrives \/ Deliver

Spec == Init /\ [][Next]_vars

-----------------------------------------------------------------------------
AtRest ==
  /\ fetch = Settled /\ wire = <<>>
  /\ \A w \in Writers \cup {user} : owed[w] = Nothing

\* A row is listed once (History.tsx:39-41): an append during the hydrate
\* neither wipes nor duplicates it.
NoRowTwice == \A i, j \in DOMAIN entries : entries[i] = entries[j] => i = j

\* At rest the screen lists the log: no row that was pushed while the fetch
\* was under way is wiped by its answer, and no row that was cleared comes
\* back.  Excepted are events that overtook those of older changes, an answer
\* that was applied after the last attempt, and rows that are listed twice
\* (hydrate.ts:64-98, History.tsx:38-56).
ScreenListsTheLog == AtRest /\ ~crossed /\ ~forced /\ NoRowTwice => entries = log
=============================================================================

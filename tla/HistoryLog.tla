------------------------------ MODULE HistoryLog ------------------------------
(***************************************************************************)
(* The transmission log and its file: rows are appended and the log is     *)
(* cleared while a flush, by the ticker or at shutdown, writes a snapshot  *)
(* without the lock (internal/history, internal/app/history.go, app.go).   *)
(*                                                                         *)
(* A row is a number; its contents are left out, and so is the debounce of *)
(* the ticker, which only delays a write.                                  *)
(***************************************************************************)
EXTENDS Integers, Sequences

CONSTANTS Cap,        \* Log.cap
          MaxRows,    \* bound: transmissions
          MaxClears,  \* bound: the user clears the log
          MaxFails    \* bound: writes and renames that fail

LogAssumption ==
  Cap \in Nat \ {0} /\ MaxRows \in Nat /\ MaxClears \in Nat /\ MaxFails \in Nat

VARIABLES
  entries, dirty, rev,  \* of Log
  file, tmp,   \* what is at path, and at path + ".tmp" (external)
  flush,       \* where the ticker's flush and the shutdown's are
  stopped,     \* histStop is closed
  shutdown,    \* where ServiceShutdown is
  rowsSoFar, clears, fails

log == <<entries, dirty, rev>>
disk == <<file, tmp, fails>>
vars == <<log, rowsSoFar, clears, disk, flush, stopped, shutdown>>

None == [at |-> "none"]
AtRest == [at |-> "idle"]
Flushers == {"ticker", "shutdown"}

Init ==
  /\ entries = <<>> /\ dirty = FALSE /\ rev = 0
  /\ file = <<>> /\ tmp = None
  /\ flush = [f \in Flushers |-> AtRest] /\ stopped = FALSE /\ shutdown = "running"
  /\ rowsSoFar = 0 /\ clears = 0 /\ fails = 0

-----------------------------------------------------------------------------
\* Append: a full ring loses its oldest row.  Rows come from the delivery
\* goroutine, from the press path and from the voice session's Close.
AppendRow ==
  /\ shutdown = "running" /\ rowsSoFar < MaxRows
  /\ rowsSoFar' = rowsSoFar + 1
  /\ entries' = Append(IF Len(entries) = Cap THEN Tail(entries) ELSE entries, rowsSoFar + 1)
  /\ dirty' = TRUE /\ rev' = rev + 1
  /\ UNCHANGED <<clears, disk, flush, stopped, shutdown>>

Clear ==
  /\ shutdown = "running" /\ clears < MaxClears
  /\ clears' = clears + 1
  /\ entries' = <<>> /\ dirty' = TRUE /\ rev' = rev + 1
  /\ UNCHANGED <<rowsSoFar, disk, flush, stopped, shutdown>>

-----------------------------------------------------------------------------
(* Flush.                                                                  *)

Goes(f, state) == flush' = [flush EXCEPT ![f] = state]

\* The end of a flush: the ticker will tick again, the shutdown goes on.
Ends(f, how) == Goes(f, IF f = "ticker" THEN AtRest ELSE [at |-> how])

\* The snapshot and its revision, in one section.
Snapshots(f) ==
  /\ flush[f] = AtRest /\ dirty
  /\ IF f = "ticker" THEN ~stopped ELSE shutdown = "flush"
  /\ Goes(f, [at |-> "write", snap |-> entries, rev |-> rev])
  /\ UNCHANGED <<log, rowsSoFar, clears, disk, stopped, shutdown>>

\* WriteFile and Rename, without the lock.  A failure removes tmp.
Fails(f) ==
  /\ flush[f].at \in {"write", "rename"}
  /\ fails < MaxFails /\ fails' = fails + 1
  /\ tmp' = None /\ Ends(f, "failed")
  /\ UNCHANGED <<log, rowsSoFar, clears, file, stopped, shutdown>>

Writes(f) ==
  /\ flush[f].at = "write"
  /\ tmp' = [at |-> "there", content |-> flush[f].snap]
  /\ Goes(f, [flush[f] EXCEPT !.at = "rename"])
  /\ UNCHANGED <<log, rowsSoFar, clears, file, fails, stopped, shutdown>>

Renames(f) ==
  /\ flush[f].at = "rename"
  /\ tmp' = None
  /\ IF tmp = None THEN Ends(f, "failed") /\ UNCHANGED file
     ELSE file' = tmp.content /\ Goes(f, [flush[f] EXCEPT !.at = "mark"])
  /\ UNCHANGED <<log, rowsSoFar, clears, fails, stopped, shutdown>>

\* Mutant: what was written is taken for what is there.
MarksCleanAnyway(f) ==
  /\ flush[f].at = "mark"
  /\ dirty' = FALSE /\ Ends(f, "written")
  /\ UNCHANGED <<entries, rev, rowsSoFar, clears, disk, stopped, shutdown>>

\* Clean only if nothing was appended or cleared since the snapshot.
MarksClean(f) ==
  /\ flush[f].at = "mark"
  /\ dirty' = (dirty /\ rev # flush[f].rev) /\ Ends(f, "written")
  /\ UNCHANGED <<entries, rev, rowsSoFar, clears, disk, stopped, shutdown>>

-----------------------------------------------------------------------------
(* ServiceShutdown.                                                        *)

\* The voice session is closed, its rows are in the log: close(histStop).
StopsTicker ==
  /\ shutdown = "running"
  /\ shutdown' = "joining" /\ stopped' = TRUE
  /\ UNCHANGED <<log, rowsSoFar, clears, disk, flush>>

\* Mutant: the ticker is told to stop and not waited for.
JoinsNothing ==
  /\ shutdown = "joining" /\ shutdown' = "flush"
  /\ UNCHANGED <<log, rowsSoFar, clears, disk, flush, stopped>>

\* <-histDone: no flush of the ticker is under way any more.
JoinsTicker ==
  /\ shutdown = "joining" /\ flush["ticker"] = AtRest
  /\ shutdown' = "flush"
  /\ UNCHANGED <<log, rowsSoFar, clears, disk, flush, stopped>>

\* The final flush had nothing to write, has written, or has failed.
Exits ==
  /\ shutdown = "flush"
  /\ \/ flush["shutdown"] = AtRest /\ ~dirty
     \/ flush["shutdown"].at \in {"written", "failed"}
  /\ shutdown' = "exited"
  /\ UNCHANGED <<log, rowsSoFar, clears, disk, flush, stopped>>

Next ==
  \/ AppendRow \/ Clear
  \/ \E f \in Flushers : Snapshots(f) \/ Fails(f) \/ Writes(f) \/ Renames(f) \/ MarksClean(f)
  \/ StopsTicker \/ JoinsTicker \/ Exits

Spec == Init /\ [][Next]_vars

-----------------------------------------------------------------------------
(* Properties.                                                             *)

\* A log that counts as clean is what is in its file, although rows are
\* appended and the log is cleared while a flush writes (store.go:120-156).
CleanMeansOnFile == ~dirty => file = entries

\* After a shutdown the file holds the whole log unless the disk failed: no
\* flush of the ticker is behind the final one or takes its temporary file
\* from under it (app.go:335-341, history.go:41-45 and 71-80).
QuitKeepsTheLog ==
  shutdown = "exited" =>
    file = entries \/ (fails > 0 /\ flush["shutdown"].at = "failed")

\* The log outlives the program (Store.Flush, flushHistory).
LogIsKept == CleanMeansOnFile /\ QuitKeepsTheLog
=============================================================================

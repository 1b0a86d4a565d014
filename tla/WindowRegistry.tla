--------------------------- MODULE WindowRegistry ---------------------------
(* The pop-out windows and their geometry (internal/app/windows.go).       *)
(*                                                                         *)
(* mu guards which handle of a window is open and the recorded geometry;   *)
(* it is never held across a call into the window system or across the     *)
(* write of windows.json, which saveMu serialises. Toggle's calls, the     *)
(* debounce timers and the profile that sets a size run on goroutines of   *)
(* their own. Handles are numbered in the order they are created, places   *)
(* on the screen in the order they are taken up.                           *)
EXTENDS Naturals

CONSTANTS
  Ids,         \* the windows that can be popped out
  MaxHandles,  \* bound: windows created
  MaxMoves,    \* bound: moves and resizes
  MaxFails     \* bound: saves that fail

Handles == 1 .. MaxHandles
Closed == 0

VARIABLES
  open,      \* the handle of each window, or Closed
  place,     \* where each window is on the screen, or was when it closed
  geom,      \* Registry.geom
  file,      \* windows.json
  handles,   \* handles created
  timers,    \* handles whose debounce timer is armed
  settling,  \* settleBounds calls that have read the bounds, and what
  closing,   \* Close calls that have unregistered, and what they read
  owed,      \* calls that changed geom and have still to persist
  placing,   \* SetGeometry calls that have still to move the window they found
  clones,    \* the copies of geom that are being written, under saveMu
  moves, fails,
  unsaved,   \* the last save failed
  overtaken  \* windows opened or placed while their Close was under way, and
             \* not settled since

windows == <<open, place, handles>>
vars == <<windows, geom, file, timers, settling, closing, placing, owed, clones, moves, fails,
          unsaved, overtaken>>

Init ==
  /\ open = [i \in Ids |-> Closed]
  /\ place = [i \in Ids |-> 0] /\ geom = place /\ file = place
  /\ handles = 0 /\ timers = {} /\ settling = {} /\ closing = {} /\ placing = {}
  /\ owed = 0 /\ clones = {} /\ moves = 0 /\ fails = 0
  /\ unsaved = FALSE /\ overtaken = {}

Closing(i) == \E c \in closing : c.id = i
Overtakes(i) == overtaken' = IF Closing(i) THEN overtaken \cup {i} ELSE overtaken

(* Open: at the recorded geometry; an open window is only focused.         *)
Open(i) ==
  /\ open[i] = Closed /\ handles < MaxHandles
  /\ handles' = handles + 1
  /\ open' = [open EXCEPT ![i] = handles + 1]
  /\ place' = [place EXCEPT ![i] = geom[i]]
  /\ Overtakes(i)
  /\ UNCHANGED <<geom, file, timers, settling, closing, placing, owed, clones, moves, fails, unsaved>>

(* The user moves a window; scheduleBounds re-arms its timer.              *)
UserMoves(i) ==
  /\ open[i] # Closed /\ moves < MaxMoves
  /\ moves' = moves + 1
  /\ place' = [place EXCEPT ![i] = moves + 1]
  /\ timers' = timers \cup {open[i]}
  /\ UNCHANGED <<open, handles, geom, file, settling, closing, placing, owed, clones, fails, unsaved,
                 overtaken>>

Settling(i) == \E s \in settling : s.id = i /\ s.of = open[i]

(* The timer runs out: the bounds are read before mu is taken. A settle is *)
(* assumed to be over before the next one, a debounce of 300 ms later.     *)
ReadsBounds(i) ==
  /\ open[i] \in timers /\ ~Settling(i)
  /\ timers' = timers \ {open[i]}
  /\ settling' = settling \cup {[id |-> i, of |-> open[i], g |-> place[i]]}
  /\ UNCHANGED <<windows, geom, file, closing, placing, owed, clones, moves, fails, unsaved, overtaken>>

\* Mutant: the bounds of a handle that has been closed are recorded too.
IsAnyHandle(s) == TRUE
IsOpenHandle(s) == open[s.id] = s.of

Settles(s) ==
  /\ settling' = settling \ {s}
  /\ \/ IsOpenHandle(s)
        /\ geom' = [geom EXCEPT ![s.id] = s.g]
        /\ owed' = owed + 1
        /\ overtaken' = IF Closing(s.id) THEN overtaken ELSE overtaken \ {s.id}
     \/ ~IsOpenHandle(s) /\ UNCHANGED <<geom, owed, overtaken>>
  /\ UNCHANGED <<windows, file, timers, closing, placing, clones, moves, fails, unsaved>>

(* Close: unregistered first, the bounds read and the window closed with   *)
(* mu released, the geometry recorded then.                                *)
Unregisters(i) ==
  /\ open[i] # Closed
  /\ open' = [open EXCEPT ![i] = Closed]
  /\ timers' = timers \ {open[i]}
  /\ closing' = closing \cup {[id |-> i, of |-> open[i], g |-> place[i]]}
  /\ UNCHANGED <<place, handles, geom, file, settling, placing, owed, clones, moves, fails, unsaved,
                 overtaken>>

Records(c) ==
  /\ closing' = closing \ {c}
  /\ geom' = [geom EXCEPT ![c.id] = c.g]
  /\ owed' = owed + 1
  /\ UNCHANGED <<windows, file, timers, settling, placing, clones, moves, fails, unsaved, overtaken>>

(* SetGeometry: a profile places a window, open or not. The place is       *)
(* recorded under mu, and the window that was open then is moved after it  *)
(* has been released.                                                      *)
SetGeometry(i) ==
  /\ moves < MaxMoves
  /\ moves' = moves + 1
  /\ geom' = [geom EXCEPT ![i] = moves + 1]
  /\ \/ /\ open[i] = Closed
        /\ place' = [place EXCEPT ![i] = moves + 1]
        /\ owed' = owed + 1 /\ UNCHANGED placing
     \/ /\ open[i] # Closed
        /\ placing' = placing \cup {[id |-> i, of |-> open[i], g |-> moves + 1]}
        /\ UNCHANGED <<place, owed>>
  /\ Overtakes(i)
  /\ UNCHANGED <<open, handles, file, timers, settling, closing, clones, fails, unsaved>>

(* An open window reports the move like one of the user's; one that has    *)
(* been unregistered meanwhile is where Close finds it.                    *)
SetsBounds(p) ==
  /\ placing' = placing \ {p} /\ owed' = owed + 1
  /\ IF open[p.id] = p.of
       THEN place' = [place EXCEPT ![p.id] = p.g] /\ timers' = timers \cup {p.of}
       ELSE UNCHANGED <<place, timers>>
  /\ UNCHANGED <<open, handles, geom, file, settling, closing, clones, moves, fails, unsaved, overtaken>>

\* Mutant: the copy is made before saveMu is taken.
NobodyWaits == TRUE
SaveMuFree == clones = {}

(* persist: the copy is made under both locks and written under saveMu.    *)
Clones ==
  /\ owed > 0 /\ SaveMuFree
  /\ owed' = owed - 1
  /\ clones' = clones \cup {geom}
  /\ UNCHANGED <<windows, geom, file, timers, settling, closing, placing, moves, fails, unsaved,
                 overtaken>>

Writes(m) ==
  /\ clones' = clones \ {m}
  /\ \/ file' = m /\ unsaved' = FALSE /\ UNCHANGED fails
     \/ fails < MaxFails /\ fails' = fails + 1 /\ unsaved' = TRUE /\ UNCHANGED file
  /\ UNCHANGED <<windows, geom, timers, settling, closing, placing, owed, moves, overtaken>>

Next ==
  \/ \E i \in Ids : Open(i) \/ UserMoves(i) \/ ReadsBounds(i) \/ Unregisters(i) \/ SetGeometry(i)
  \/ \E s \in settling : Settles(s)
  \/ \E c \in closing : Records(c)
  \/ \E p \in placing : SetsBounds(p)
  \/ Clones \/ \E m \in clones : Writes(m)

Spec == Init /\ [][Next]_vars

(***************************************************************************)
(* Properties                                                              *)
(***************************************************************************)

Settled(i) ==
  /\ open[i] \notin timers /\ ~Closing(i)
  /\ \A s \in settling : s.id # i
  /\ placing = {} /\ owed = 0 /\ clones = {} /\ ~unsaved

(* Once the drags, closes and writes are over, windows.json has the place  *)
(* the user or a profile last put each window, open or closed, in whatever *)
(* order the timers, Close and the writers ran (settleBounds' look at the  *)
(* handle, Close's unregistering first, saveMu). A window opened or placed *)
(* while its own Close waits for the window system is excepted until it is *)
(* moved again: Close then records the older place.                        *)
PlaceIsKept ==
  \A i \in Ids : Settled(i) => file[i] = place[i] \/ i \in overtaken
=============================================================================

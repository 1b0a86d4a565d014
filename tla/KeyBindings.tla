---------------------------- MODULE KeyBindings ----------------------------
(* The keybinding store (internal/keybinds/store.go), the calls that change *)
(* it (internal/app/settings.go: AddTrigger, RemoveTrigger, ClearKeybind,   *)
(* onJoystickCaptured) and the way back when a change cannot be saved.      *)
(*                                                                          *)
(* A trigger is a keyboard chord or a joystick button; an action has a list *)
(* of them. A press of a trigger must fire one action, and the registrar    *)
(* takes one chord per action: so a trigger is in one list only and a list  *)
(* has one chord at most. Add sees to it by stealing and replacing, Load by *)
(* dropping what a config.toml edited by hand has too much of. Load also is *)
(* the undo: a change that cannot be saved is taken back by loading the     *)
(* snapshot made before it.                                                 *)
(*                                                                          *)
(* Actions are numbered in the order of their names. A list that is not     *)
(* there and an empty one are the same here. Load runs under the lock of    *)
(* the store and a change under writeMu from its snapshot to its end; both  *)
(* are taken apart into steps to see what stands after each of them.        *)
EXTENDS Naturals, Sequences

CONSTANTS
  NIds,      \* actions a file can name
  Known,     \* those this version knows
  Keys, Joys,  \* chords and joystick buttons
  Texts,     \* what can stand in the file
  Parse, String,  \* trigger.Parse and Trigger.String
  Bad,       \* what Parse makes of anything else
  Defaults,  \* keybinds.Defaults, as text
  Edits      \* what a user can leave in the file

Ids == 1 .. NIds
Triggers == Keys \cup Joys
NoKeybinds == [a \in Ids |-> <<>>]

\* The spelling of a chord is the user's, the one written is canonical.
KeyAssumption ==
  /\ NIds \in Nat /\ Known \subseteq Ids
  /\ Bad \notin Triggers
  /\ Parse \in [Texts -> Triggers \cup {Bad}]
  /\ String \in [Triggers -> Texts]
  /\ \A t \in Triggers : Parse[String[t]] = t
  /\ Defaults \in [Ids -> Seq(Texts)]
  /\ Edits \subseteq [Ids -> Seq(Texts)]

VARIABLES
  file,     \* config.toml's keybinds
  binds, unknown,  \* the store
  phase,    \* what the application is doing
  raw,      \* what Load was given, or will be if the save fails
  id, pos,  \* where Load is
  kept,     \* history: the store that was last saved, or loaded from a foreign file
  foreign   \* history: the file was not written by Save

place == <<id, pos>>
vars == <<file, binds, unknown, phase, raw, place, kept, foreign>>

Phases == {"down", "loading", "ready", "changed", "restoring"}

TypeOK ==
  /\ file \in [Ids -> Seq(Texts)] /\ raw \in [Ids -> Seq(Texts)]
  /\ binds \in [Ids -> Seq(Triggers)] /\ unknown \in [Ids -> Seq(Texts)]
  /\ phase \in Phases
  /\ id \in 1 .. NIds + 1 /\ pos \in Nat \ {0}
  /\ kept \in [binds : [Ids -> Seq(Triggers)], unknown : [Ids -> Seq(Texts)]]
  /\ foreign \in BOOLEAN

Holds(list, t) == \E n \in DOMAIN list : list[n] = t
Chords(list) == {n \in DOMAIN list : list[n] \in Keys}
Without(list, n) == [m \in 1 .. Len(list) - 1 |-> IF m < n THEN list[m] ELSE list[m + 1]]

Written(list) == [n \in 1 .. Len(list) |-> String[list[n]]]
Snapshot(b, u) == [a \in Ids |-> IF a \in Known THEN Written(b[a]) ELSE u[a]]

Init ==
  /\ file \in Edits \cup {NoKeybinds}
  /\ binds = NoKeybinds /\ unknown = NoKeybinds
  /\ phase = "down" /\ raw = NoKeybinds /\ id = 1 /\ pos = 1
  /\ kept = [binds |-> NoKeybinds, unknown |-> NoKeybinds]
  /\ foreign = TRUE

(***************************************************************************)
(* Load                                                                    *)
(***************************************************************************)

LoadBegins(source) ==
  /\ raw' = source /\ binds' = NoKeybinds /\ unknown' = NoKeybinds
  /\ id' = 1 /\ pos' = 1

\* A file without keybindings stands for the defaults.
Start ==
  /\ phase = "down"
  /\ phase' = "loading"
  /\ LoadBegins(IF file = NoKeybinds THEN Defaults ELSE file)
  /\ foreign' = (foreign \/ file = NoKeybinds)
  /\ UNCHANGED <<file, kept>>

Loading == phase \in {"loading", "restoring"} /\ id \in Ids

Claimed(t) == \E a \in 1 .. id : Holds(binds[a], t)
\* Mutant: a trigger is only looked for in the list being read.
TakesWithinList(t) == t # Bad /\ ~Holds(binds[id], t) /\ (t \in Keys => Chords(binds[id]) = {})
\* Mutant: the one chord of an action is the first in its list, taken or not.
TakesFirstChord(t) ==
  /\ t # Bad /\ ~Claimed(t)
  /\ t \in Keys => \A n \in 1 .. pos - 1 : Parse[raw[id][n]] \notin Keys
\* What is malformed, claimed by an action before this one, or a second
\* chord is dropped; what is claimed does not use up the place of the chord.
Takes(t) == t # Bad /\ ~Claimed(t) /\ (t \in Keys => Chords(binds[id]) = {})

LoadEntry ==
  /\ Loading /\ id \in Known /\ pos \in DOMAIN raw[id]
  /\ LET t == Parse[raw[id][pos]]
     IN binds' = IF Takes(t) THEN [binds EXCEPT ![id] = Append(@, t)] ELSE binds
  /\ pos' = pos + 1
  /\ UNCHANGED <<file, unknown, phase, raw, id, kept, foreign>>

LoadNextId ==
  /\ Loading /\ (id \in Known => pos \notin DOMAIN raw[id])
  /\ unknown' = IF id \in Known THEN unknown ELSE [unknown EXCEPT ![id] = raw[id]]
  /\ id' = id + 1 /\ pos' = 1
  /\ UNCHANGED <<file, binds, phase, raw, kept, foreign>>

Loaded ==
  /\ phase \in {"loading", "restoring"} /\ id = NIds + 1
  /\ phase' = "ready"
  /\ kept' = IF phase = "loading" /\ foreign
              THEN [binds |-> binds, unknown |-> unknown] ELSE kept
  /\ raw' = NoKeybinds /\ id' = 1
  /\ UNCHANGED <<file, binds, unknown, pos, foreign>>

(***************************************************************************)
(* The calls                                                               *)
(***************************************************************************)

Call ==
  /\ phase = "ready" /\ phase' = "changed"
  /\ raw' = Snapshot(binds, unknown)
  /\ UNCHANGED <<file, unknown, place, kept, foreign>>

\* Mutant: a second chord is added to the first.
AnyRoom(list, t) == {list}
\* A chord takes the place of the chord of the action; there is one at most.
Room(list, t) ==
  IF t \in Keys /\ Chords(list) # {} THEN {Without(list, n) : n \in Chords(list)} ELSE {list}

\* Mutant: a trigger stays with the action that has it.
NoHolders(a, t) == {}
Holders(a, t) == {o \in Known \ {a} : Holds(binds[o], t)}

Add(a, t) ==
  /\ Call
  /\ \/ Holds(binds[a], t) /\ UNCHANGED binds
     \/ /\ ~Holds(binds[a], t)
        /\ \E list \in Room(binds[a], t) :
             \/ /\ Holders(a, t) = {}
                /\ binds' = [binds EXCEPT ![a] = Append(list, t)]
             \/ \E o \in Holders(a, t) : \E n \in DOMAIN binds[o] :
                  /\ binds[o][n] = t
                  /\ binds' = [binds EXCEPT ![o] = Without(@, n), ![a] = Append(list, t)]

RemoveAt(a, n) ==
  /\ Call
  /\ n \in DOMAIN binds[a]
  /\ binds' = [binds EXCEPT ![a] = Without(@, n)]

Clear(a) ==
  /\ Call
  /\ binds' = [binds EXCEPT ![a] = <<>>]

(* persistKeybinds.                                                        *)
Saves ==
  /\ phase = "changed" /\ phase' = "ready"
  /\ file' = Snapshot(binds, unknown) /\ foreign' = FALSE
  /\ kept' = [binds |-> binds, unknown |-> unknown]
  /\ raw' = NoKeybinds
  /\ UNCHANGED <<binds, unknown, place>>

\* Mutant: the store keeps what could not be saved.
KeepsChange == phase' = "ready" /\ raw' = NoKeybinds /\ UNCHANGED <<binds, unknown, place>>
TakesBack == phase' = "restoring" /\ LoadBegins(raw)

SaveFails ==
  /\ phase = "changed"
  /\ TakesBack
  /\ UNCHANGED <<file, kept, foreign>>

(* The application quits or dies, at any moment.                           *)
Stops ==
  /\ phase # "down" /\ phase' = "down"
  /\ binds' = NoKeybinds /\ unknown' = NoKeybinds
  /\ raw' = NoKeybinds /\ id' = 1 /\ pos' = 1
  /\ UNCHANGED <<file, kept, foreign>>

HandEdit ==
  /\ phase = "down"
  /\ file' \in Edits /\ foreign' = TRUE
  /\ UNCHANGED <<binds, unknown, phase, raw, place, kept>>

Next ==
  \/ Start \/ LoadEntry \/ LoadNextId \/ Loaded
  \/ \E a \in Known :
       \/ \E t \in Triggers : Add(a, t)
       \/ \E n \in DOMAIN binds[a] : RemoveAt(a, n)
       \/ Clear(a)
  \/ Saves \/ SaveFails \/ Stops \/ HandEdit

Spec == Init /\ [][Next]_vars

(***************************************************************************)
(* Properties                                                              *)
(***************************************************************************)

Single(b) ==
  \A a, o \in Ids : \A n \in DOMAIN b[a], m \in DOMAIN b[o] :
    b[a][n] = b[o][m] => a = o /\ n = m

OneChordEach(b) == \A a \in Ids : \A n, m \in Chords(b[a]) : n = m

(* A trigger is in one list and there once, after any calls, whatever the  *)
(* file says: Add looks no further than the first action it steals from    *)
(* (store.go: "a trigger belongs to at most one action, and the invariant  *)
(* is inductive over every mutator").                                      *)
OneOwner == Single(binds)

(* An action never has two chords, of which the registrar would drop one   *)
(* (Load, Add).                                                            *)
OneChord == OneChordEach(binds)

(* Outside of a call the store is what was saved last: a change that could *)
(* not be saved leaves no trace, not in the action it stole from, not in   *)
(* the order of a list, not in the entries of actions only another version *)
(* knows; and a restart loads what was saved (AddTrigger, kb.Load(before), *)
(* SetSettingsBackend).                                                    *)
StoreIsWhatWasSaved ==
  phase = "ready" => binds = kept.binds /\ unknown = kept.unknown

(* Load drops an entry only for what makes it superfluous: its trigger is  *)
(* an earlier action's, or its action has a chord. What the file has for   *)
(* an action of another version is there unchanged (Load).                 *)
LoadDropsNoMore ==
  phase \in {"loading", "restoring"} =>
    \A a \in 1 .. id : a \in Ids =>
      IF a \in Known
       THEN \A n \in DOMAIN raw[a] :
              (a < id \/ n < pos) /\ Parse[raw[a][n]] # Bad =>
                \/ \E o \in 1 .. a : Holds(binds[o], Parse[raw[a][n]])
                \/ Parse[raw[a][n]] \in Keys /\ Chords(binds[a]) # {}
       ELSE a < id => unknown[a] = raw[a]

(* A press fires one action, the one the user saved it for (store.go,      *)
(* persistKeybinds).                                                       *)
KeysAreKept == OneOwner /\ OneChord /\ StoreIsWhatWasSaved /\ LoadDropsNoMore
=============================================================================

------------------------------ MODULE Settings ------------------------------
(* The configuration in memory and on disk (internal/app/persistcfg.go and *)
(* its callers in settings.go, voice.go and profiles.go).                  *)
(*                                                                         *)
(* Three locks, in the order writeMu, saveMu, mu: a writer of the settings *)
(* or the keybindings holds writeMu for its whole call, the writer of a    *)
(* file holds saveMu from its snapshot to its commit, and mu is held for   *)
(* one look at the configuration at a time, never across the write. What   *)
(* is only edited in memory (the Comms layout) takes mu alone, and so can  *)
(* land in the middle of any write.                                        *)
(*                                                                         *)
(* A value is the number of the request that made it. "other" stands for   *)
(* the fields whose writers do what the others do and nothing more         *)
(* (rememberDevice without writeMu; SetSettings, persistRadios and the     *)
(* profiles' with it). config.Save writes a temporary file and renames it: *)
(* it happens or it fails.                                                 *)
EXTENDS Integers

CONSTANTS
  MaxKeys,     \* bound: changes of the keybindings
  MaxSelects,  \* bound: radios selected
  MaxEdits,    \* bound: edits of the layout
  MaxOthers,   \* bound: writes of other fields
  MaxFails     \* bound: saves that fail

Fields == {"keybinds", "selected", "layout", "other"}
Factory == [f \in Fields |-> 0]

VARIABLES
  cfg, file,         \* the configuration, and config.toml
  layoutPending,     \* the layout has changed since the last flush
  persistedSeq,      \* radioSelectPersistedSeq
  kb,                \* the keybinding store
  writeMu,           \* "free", or the caller in it
  tx,                \* the write under saveMu
  flush,             \* flushConfig, at shutdown
  keys, selects, edits, others,  \* requests made so far
  queued,            \* selections whose goroutine has still to write
  lost, fails        \* selections whose save failed; failures

config == <<cfg, layoutPending, persistedSeq>>
user == <<keys, selects, edits, others>>
vars == <<config, file, kb, writeMu, tx, flush, user, queued, lost, fails>>

NoTx == [by |-> "none"]
Begun(by, f, v, next) ==
  [by |-> by, field |-> f, val |-> v, next |-> next, at |-> "saving"]

Init ==
  /\ cfg = Factory /\ file = Factory
  /\ layoutPending = FALSE /\ persistedSeq = 0
  /\ kb = 0 /\ writeMu = "free" /\ tx = NoTx /\ flush = "none"
  /\ keys = 0 /\ selects = 0 /\ edits = 0 /\ others = 0
  /\ queued = {} /\ lost = {} /\ fails = 0

(***************************************************************************)
(* Requests                                                                *)
(***************************************************************************)

(* SetCommsLayout, captureCommsWindowSize: in memory only.                 *)
EditLayout ==
  /\ edits < MaxEdits
  /\ edits' = edits + 1
  /\ cfg' = [cfg EXCEPT !.layout = edits + 1]
  /\ layoutPending' = TRUE
  /\ UNCHANGED <<persistedSeq, file, kb, writeMu, tx, flush, keys, selects, others, queued, lost, fails>>

(* SelectRadio and the hotkey take a sequence number on the caller's       *)
(* goroutine; who writes first is open.                                    *)
SelectRadio ==
  /\ selects < MaxSelects
  /\ selects' = selects + 1
  /\ queued' = queued \cup {selects + 1}
  /\ UNCHANGED <<config, file, kb, writeMu, tx, flush, keys, edits, others, lost, fails>>

(* AddTrigger, RemoveTrigger, ClearKeybind and a captured joystick button: *)
(* the store changes first, under writeMu.                                 *)
ChangeKeys ==
  /\ writeMu = "free" /\ keys < MaxKeys
  /\ writeMu' = "keys"
  /\ keys' = keys + 1 /\ kb' = keys + 1
  /\ UNCHANGED <<config, file, tx, flush, selects, edits, others, queued, lost, fails>>

(***************************************************************************)
(* persistCfg                                                              *)
(***************************************************************************)

(* saveMu is taken and the mutated snapshot made.                          *)
Snapshot(by, f, v) ==
  /\ tx = NoTx
  /\ tx' = Begun(by, f, v, [cfg EXCEPT ![f] = v])

PersistKeys ==
  /\ writeMu = "keys" /\ Snapshot("keys", "keybinds", kb)
  /\ UNCHANGED <<config, file, kb, writeMu, flush, user, queued, lost, fails>>

PersistOther ==
  /\ others < MaxOthers /\ others' = others + 1
  /\ Snapshot("other", "other", others + 1)
  /\ UNCHANGED <<config, file, kb, writeMu, flush, keys, selects, edits, queued, lost, fails>>

\* Mutant: selections are written in the order their goroutines run.
IsAnySelection(seq) == TRUE
(* The check of persistSelectedRadioSeq: not older than what is on disk.   *)
IsNewest(seq) == seq >= persistedSeq

PersistSelected(seq) ==
  /\ seq \in queued /\ writeMu = "free" /\ tx = NoTx
  /\ queued' = queued \ {seq}
  /\ \/ IsNewest(seq) /\ Snapshot("select", "selected", seq) /\ writeMu' = "select"
     \/ ~IsNewest(seq) /\ UNCHANGED <<tx, writeMu>>
  /\ UNCHANGED <<config, file, kb, flush, user, lost, fails>>

Saves ==
  /\ tx # NoTx /\ tx.at = "saving"
  /\ \/ file' = tx.next /\ tx' = [tx EXCEPT !.at = "saved"] /\ UNCHANGED fails
     \/ fails < MaxFails /\ fails' = fails + 1
        /\ tx' = [tx EXCEPT !.at = "failed"] /\ UNCHANGED file
  /\ UNCHANGED <<config, kb, writeMu, flush, user, queued, lost>>

\* Mutant: what was saved replaces what is there.
AppliesSnapshot == cfg' = tx.next
(* The change is made once more, to the configuration as it is now.        *)
Reapplies == cfg' = [cfg EXCEPT ![tx.field] = tx.val]

Release == writeMu' = IF tx.by = "other" THEN writeMu ELSE "free"

Commits ==
  /\ tx # NoTx /\ tx.by # "flush" /\ tx.at = "saved"
  /\ Reapplies
  /\ persistedSeq' = IF tx.by = "select" THEN tx.val ELSE persistedSeq
  /\ tx' = NoTx /\ Release
  /\ UNCHANGED <<layoutPending, file, kb, flush, user, queued, lost, fails>>

\* Mutant: the store keeps what could not be saved.
KeepsStore == UNCHANGED kb
(* kb.Load(before): nobody else has changed the store, writeMu is held.    *)
RollsBack == kb' = IF tx.by = "keys" THEN cfg.keybinds ELSE kb

GivesUp ==
  /\ tx # NoTx /\ tx.by # "flush" /\ tx.at = "failed"
  /\ RollsBack
  /\ lost' = IF tx.by = "select" THEN lost \cup {tx.val} ELSE lost
  /\ tx' = NoTx /\ Release
  /\ UNCHANGED <<config, file, flush, user, queued, fails>>

(***************************************************************************)
(* flushConfig                                                             *)
(***************************************************************************)

(* Nothing was edited in memory: the file is left alone, corrupt or not.   *)
FlushLooks ==
  /\ flush = "none"
  /\ flush' = IF layoutPending THEN "waiting" ELSE "done"
  /\ UNCHANGED <<config, file, kb, writeMu, tx, user, queued, lost, fails>>

(* The flag is cleared with the snapshot, so that a later edit sets it     *)
(* again.                                                                  *)
FlushSnapshots ==
  /\ flush = "waiting" /\ writeMu = "free"
  /\ Snapshot("flush", "layout", cfg.layout)
  /\ layoutPending' = FALSE
  /\ writeMu' = "flush" /\ flush' = "saving"
  /\ UNCHANGED <<cfg, persistedSeq, file, kb, user, queued, lost, fails>>

\* Mutant: the flag is cleared when the file has been written.
ClearsAfterSave == layoutPending' = (tx.at = "failed")
(* A failed flush sets it; nothing clears it here.                         *)
Restores == layoutPending' = (tx.at = "failed" \/ layoutPending)

FlushEnds ==
  /\ tx # NoTx /\ tx.by = "flush" /\ tx.at # "saving"
  /\ Restores
  /\ flush' = "done"
  /\ tx' = NoTx /\ Release
  /\ UNCHANGED <<cfg, persistedSeq, file, kb, user, queued, lost, fails>>

Next ==
  \/ EditLayout \/ SelectRadio \/ ChangeKeys
  \/ PersistKeys \/ PersistOther \/ \E seq \in 1 .. MaxSelects : PersistSelected(seq)
  \/ Saves \/ Commits \/ GivesUp
  \/ FlushLooks \/ FlushSnapshots \/ FlushEnds

Spec == Init /\ [][Next]_vars

(***************************************************************************)
(* Properties                                                              *)
(***************************************************************************)

(* Between two writes memory, disk and the keybinding store agree in       *)
(* everything but a layout that is still to be flushed, after any number   *)
(* of failed saves; and the layout in memory is the last one the user      *)
(* made, whatever was being written meanwhile (persistCfg's second run of  *)
(* mutate, the rollback of AddTrigger, the flag of flushConfig).           *)
FileFollowsMemory ==
  /\ cfg.layout = edits
  /\ tx = NoTx =>
       /\ \A f \in Fields : cfg[f] # file[f] => f = "layout" /\ layoutPending
       /\ writeMu # "keys" => kb = file.keybinds

(* The file ends up with the newest selected radio, in whatever order the  *)
(* goroutines of queueSelectedRadioPersist come to write: none that was    *)
(* written, or given up for a newer one, is newer than what is on disk.    *)
NewestSelectionIsKept ==
  tx = NoTx => \A seq \in 1 .. selects : seq \in queued \cup lost \/ seq <= file.selected

(* No setting is lost to a failed save or to one that came too late        *)
(* (persistCfg, persistSelectedRadioSeq).                                  *)
SettingsAreKept == FileFollowsMemory /\ NewestSelectionIsKept
=============================================================================

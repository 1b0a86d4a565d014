------------------------------ MODULE Profiles ------------------------------
(* The comms profiles: files with a set of radios and a layout              *)
(* (internal/profile) and the calls that make one of them the live setup    *)
(* and the live setup one of them (internal/app/profiles.go). Whether the   *)
(* live setup differs from the active profile's file is computed from both  *)
(* whenever it is asked for, so that everything on the way from a file to   *)
(* the configuration and the window and back must come to the same.         *)
(*                                                                          *)
(* One call runs at a time, in steps; meanwhile radios and blocks are       *)
(* edited, the window is resized and answers, files are edited by hand and  *)
(* the application ends. Of the window's two sizes one is modelled, a radio *)
(* stands with its settings, persistCfg is one step (it is the subject of   *)
(* Settings), and no size settles between applyProfile's save and its       *)
(* SetGeometry.                                                             *)
EXTENDS Integers, Sequences, FiniteSets

CONSTANTS
  Stems,      \* what the names come to as file names
  Variants,   \* what a block may be shown as; "" in a file that does not say
  RadioSets,  \* sequences of radios
  BlockSets,  \* sequences of blocks as the view sends them
  Widths,     \* of the window, as the user sets it
  HandMade,   \* documents of a user's making
  DefaultW, windowEchoTolerancePx,
  MaxChanges  \* bound: edits, resizes, hand edits and ends of the process

DefaultVariant == "vertical"
Radio == [id : Nat, khz : Nat]  \* the frequency stands for its settings
Block == [radio : Nat, variant : Variants]
\* Validate refuses two radios of one id.
AreRadios(rs) ==
  rs \in Seq(Radio) /\ \A m, n \in DOMAIN rs : rs[m].id = rs[n].id => m = n
Paths == Stems \X (1 .. 2)  \* a stem, and the number behind it when it is taken
NoPath == <<>>
Missing == [state |-> "missing"]
Unreadable == [state |-> "refused"]  \* malformed, too new, or refused by Validate
Doc(radios, blocks, width) ==
  [state |-> "ok", radios |-> radios, blocks |-> blocks, width |-> width]

ProfilesAssumption ==
  /\ DefaultVariant \in Variants
  /\ DefaultW \in Nat \ {0} /\ windowEchoTolerancePx \in Nat /\ Widths \subseteq Int
  /\ \A rs \in RadioSets : AreRadios(rs)
  /\ BlockSets \subseteq Seq(Block)
  /\ \A d \in HandMade :
       /\ d = Doc(d.radios, d.blocks, d.width)
       /\ AreRadios(d.radios) /\ d.blocks \in Seq(Block) /\ d.width \in Int

VARIABLES
  files,    \* the profiles folder
  live,     \* sb.cfg: radios, blocks, width, active
  disk,     \* config.toml
  pending,  \* layoutPending
  call,     \* the call that runs
  window,   \* the width of the Comms window until it has settled, or AtRest
  same,     \* history: the profile loaded or saved last, nothing edited since
  calm,     \* history: ... or since the running call took its document
  overwritten, \* history: a new profile has taken the place of a file
  changes

setup == <<live, disk, pending>>
history == <<same, calm, overwritten>>
vars == <<files, setup, call, window, history, changes>>

(***************************************************************************)
(* Documents                                                               *)
(***************************************************************************)

Ids(radios) == {radios[n].id : n \in DOMAIN radios}
BlockOf(radio) == [radio |-> radio, variant |-> DefaultVariant]
Named(b) == IF b.variant = "" THEN BlockOf(b.radio) ELSE b

\* Positions, the lower ones first.
InOrder(places) ==
  CHOOSE s \in [1 .. Cardinality(places) -> places] :
    \A i, j \in DOMAIN s : i < j => s[i] < s[j]

\* What is kept of the blocks, and a block for each radio that has none.
Mended(radios, blocks, kept, lacking) ==
  [n \in 1 .. Cardinality(kept) |-> Named(blocks[InOrder(kept)[n]])]
    \o [n \in 1 .. Cardinality(lacking) |-> BlockOf(radios[InOrder(lacking)[n]].id)]
WithRadio(radios, blocks) == {n \in DOMAIN blocks : blocks[n].radio \in Ids(radios)}
Lacking(radios, blocks) ==
  {m \in DOMAIN radios : \A n \in DOMAIN blocks : blocks[n].radio # radios[m].id}
IsFirst(blocks, n) == \A m \in 1 .. n - 1 : blocks[m].radio # blocks[n].radio

\* Mutant: a second block of a radio stays.
ReconcileOrphans(radios, blocks) ==
  Mended(radios, blocks, WithRadio(radios, blocks), Lacking(radios, blocks))
\* The first block of every radio keeps its place; radios without one follow.
ReconcileBlocks(radios, blocks) ==
  Mended(radios, blocks, {n \in WithRadio(radios, blocks) : IsFirst(blocks, n)},
         Lacking(radios, blocks))

Reconcile(d) ==
  Doc(d.radios, ReconcileBlocks(d.radios, d.blocks),
      IF d.width <= 0 THEN DefaultW ELSE d.width)

Readable(p) == files[p].state = "ok"
\* Mutant: a file is taken as it is.
ReadUnmended(p) == files[p]
Read(p) == Reconcile(files[p])

Live(c) == Doc(c.radios, c.blocks, c.width)
Captured == Reconcile(Live(live))

Dirty ==
  /\ live.active # NoPath
  /\ Readable(live.active) => Captured # Read(live.active)

(***************************************************************************)
(* The initial state: a start with a folder and a configuration            *)
(***************************************************************************)

AtRest == 0
NoCall == [op |-> "none", at |-> "none", path |-> NoPath, doc |-> Missing]
Called(op, at, p, d) == [op |-> op, at |-> at, path |-> p, doc |-> d]
At(op, at) == call.op = op /\ call.at = at

Init ==
  /\ files \in [Paths -> HandMade \cup {Missing, Unreadable}]
  /\ \A s \in Stems : files[<<s, 2>>] = Missing
  /\ live = [radios |-> <<>>, blocks |-> <<>>, width |-> DefaultW, active |-> NoPath]
  /\ disk = live
  /\ pending = FALSE /\ call = NoCall
  /\ window = AtRest
  /\ same = NoPath /\ calm = TRUE /\ overwritten = FALSE /\ changes = 0

(***************************************************************************)
(* What the calls share                                                    *)
(***************************************************************************)

Persist(c) == live' = c /\ disk' = c /\ UNCHANGED pending

(* ResetLayout, applyProfile: the window is given the size, and will say   *)
(* what it has made of it, give or take what code allows.                  *)
SetGeometry(w) ==
  \E r \in {-windowEchoTolerancePx, 0, windowEchoTolerancePx} : window' = w + r

\* Mutant: the stored width survives a load.
TakesAllButWidth(d, p) ==
  Persist([radios |-> d.radios, blocks |-> d.blocks, width |-> live.width, active |-> p])
Takes(d, p) ==
  Persist([radios |-> d.radios, blocks |-> d.blocks, width |-> d.width, active |-> p])

(* applyProfile: one save; nothing is changed when it fails.               *)
Applies ==
  /\ call.at = "apply"
  /\ Takes(Reconcile(call.doc), call.path)
  /\ SetGeometry(Reconcile(call.doc).width)
  /\ call' = NoCall
  /\ same' = IF calm THEN call.path ELSE NoPath
  /\ calm' = TRUE
  /\ UNCHANGED <<files, overwritten, changes>>

\* Mutant: a tolerance too small by one.
TooNear(w) == live.width - w < windowEchoTolerancePx /\ w - live.width < windowEchoTolerancePx
IsEcho(w) == live.width - w <= windowEchoTolerancePx /\ w - live.width <= windowEchoTolerancePx

(* A file cannot be written, or the configuration cannot be saved.         *)
Fails ==
  /\ call.at \in {"write", "apply"}
  /\ call' = NoCall /\ calm' = TRUE
  /\ UNCHANGED <<files, setup, window, same, overwritten, changes>>

\* Mutant: a taken name is used again.
Stem(s) == <<s, 1>>
uniqueProfilePath(s) ==
  IF files[<<s, 1>>] = Missing THEN <<s, 1>>
  ELSE IF files[<<s, 2>>] = Missing THEN <<s, 2>> ELSE NoPath

(***************************************************************************)
(* The calls                                                               *)
(***************************************************************************)

(* LoadProfile, and RevertProfile, which loads the active one.             *)
Load(p) ==
  /\ call = NoCall /\ Readable(p)
  /\ call' = Called("load", "apply", p, Read(p))
  /\ calm' = TRUE
  /\ UNCHANGED <<files, setup, window, same, overwritten, changes>>

(* SaveProfile, up to the capture. A file that cannot be read is left.     *)
Save ==
  /\ call = NoCall
  /\ live.active # NoPath /\ Readable(live.active)
  /\ call' = Called("save", "write", live.active, Captured)
  /\ calm' = (window = AtRest \/ IsEcho(window))
  /\ UNCHANGED <<files, setup, window, same, overwritten, changes>>

SaveAs(s) ==
  /\ call = NoCall /\ uniqueProfilePath(s) # NoPath
  /\ call' = Called("saveas", "write", uniqueProfilePath(s), Captured)
  /\ calm' = TRUE
  /\ UNCHANGED <<files, setup, window, same, overwritten, changes>>

(* ImportProfile: a document from elsewhere, under a name of its own.      *)
Import(s, d) ==
  /\ call = NoCall /\ uniqueProfilePath(s) # NoPath
  /\ call' = Called("import", "write", uniqueProfilePath(s), Reconcile(d))
  /\ UNCHANGED <<files, setup, window, history, changes>>

(* RenameProfile: the document goes back into its file under another name. *)
Rename(p) ==
  /\ call = NoCall /\ Readable(p)
  /\ call' = Called("rename", "write", p, Read(p))
  /\ UNCHANGED <<files, setup, window, history, changes>>

(* profile.Write, and what the call does next.                             *)
Writes ==
  /\ call.at = "write"
  /\ files' = [files EXCEPT ![call.path] = Reconcile(call.doc)]
  /\ call' = IF call.op = "saveas" THEN [call EXCEPT !.at = "apply"] ELSE NoCall
  /\ same' = IF call.op # "save" THEN same ELSE IF calm THEN call.path ELSE NoPath
  /\ calm' = (calm \/ call.op # "saveas")
  /\ overwritten' = (overwritten \/ (call.op \in {"saveas", "import"} /\ files[call.path] # Missing))
  /\ UNCHANGED <<setup, window, changes>>

(* DeleteProfile; if the active path cannot be cleared it names no file.   *)
Delete(p) ==
  /\ call = NoCall /\ files[p] # Missing
  /\ files' = [files EXCEPT ![p] = Missing]
  /\ IF live.active = p
       THEN \/ Persist([live EXCEPT !.active = NoPath])
            \/ UNCHANGED setup
       ELSE UNCHANGED setup
  /\ same' = IF same = p THEN NoPath ELSE same
  /\ UNCHANGED <<call, window, calm, overwritten, changes>>

(* ResetLayout.                                                            *)
ResetLayout ==
  /\ call = NoCall
  /\ Persist([live EXCEPT !.width = DefaultW,
       !.blocks = [n \in DOMAIN live.radios |-> BlockOf(live.radios[n].id)]])
  /\ same' = NoPath
  /\ SetGeometry(DefaultW)
  /\ UNCHANGED <<files, call, calm, overwritten, changes>>

(***************************************************************************)
(* What happens meanwhile                                                  *)
(***************************************************************************)

\* What is live is no longer what a profile was loaded from or is saved to.
Edited ==
  /\ changes < MaxChanges /\ changes' = changes + 1
  /\ same' = NoPath
  /\ calm' = (calm /\ call.op # "save")
  /\ UNCHANGED overwritten

(* persistRadios, when it is saved.                                        *)
EditRadios(rs) ==
  /\ Edited
  /\ Persist([live EXCEPT !.radios = rs])
  /\ UNCHANGED <<files, call, window>>

(* SetCommsLayout: in memory only, and the width is not the view's to say. *)
SetCommsLayout(bs) ==
  /\ Edited
  /\ live' = [live EXCEPT !.blocks = bs] /\ pending' = TRUE
  /\ UNCHANGED <<files, disk, call, window>>

Resize(w) ==
  /\ Edited
  /\ window' = w
  /\ UNCHANGED <<files, setup, call>>

(* captureCommsWindowSize, once the window has come to rest.               *)
Settles ==
  /\ window # AtRest
  /\ window' = AtRest
  /\ IF IsEcho(window) THEN UNCHANGED <<live, pending>>
       ELSE live' = [live EXCEPT !.width = window] /\ pending' = TRUE
  /\ UNCHANGED <<files, disk, call, history, changes>>

(* A file is written by hand. (Not the one a call is about to write: both  *)
(* cannot win.)                                                            *)
HandEdit(p, d) ==
  /\ changes < MaxChanges /\ changes' = changes + 1
  /\ ~(call.at = "write" /\ call.path = p)
  /\ files' = [files EXCEPT ![p] = d]
  /\ same' = IF same = p THEN NoPath ELSE same
  /\ calm' = (calm /\ call.path # p)
  /\ UNCHANGED <<setup, call, window, overwritten>>

(* The end of the process and the next start: orderly, with flushConfig,   *)
(* or not. A layout that was never saved is lost with it.                  *)
\* Mutant: nothing is saved at the end.
FlushNothing == disk
Flushed == IF pending THEN live ELSE disk
Restart(orderly) ==
  /\ changes < MaxChanges /\ changes' = changes + 1
  /\ disk' = IF orderly THEN Flushed ELSE disk
  /\ live' = disk' /\ pending' = FALSE
  /\ call' = NoCall
  /\ window' = AtRest
  /\ same' = IF orderly \/ live = disk THEN same ELSE NoPath
  /\ calm' = TRUE
  /\ UNCHANGED <<files, overwritten>>

Next ==
  \/ Applies \/ Fails \/ Writes \/ Save \/ ResetLayout \/ Settles
  \/ \E p \in Paths : Load(p) \/ Rename(p) \/ Delete(p)
  \/ \E s \in Stems : SaveAs(s)
  \/ \E s \in Stems, d \in HandMade : Import(s, d)
  \/ \E rs \in RadioSets : EditRadios(rs)
  \/ \E bs \in BlockSets : SetCommsLayout(bs)
  \/ \E w \in Widths : Resize(w)
  \/ \E p \in Paths, d \in HandMade \cup {Unreadable} : HandEdit(p, d)
  \/ \E orderly \in BOOLEAN : Restart(orderly)

Spec == Init /\ [][Next]_vars

(***************************************************************************)
(* Properties                                                              *)
(***************************************************************************)

TypeOK ==
  /\ \A p \in Paths : Readable(p) =>
       /\ AreRadios(files[p].radios) /\ files[p].blocks \in Seq(Block)
       /\ files[p].width \in Int
  /\ pending \in BOOLEAN /\ calm \in BOOLEAN /\ overwritten \in BOOLEAN
  /\ window \in Int
  /\ same \in Paths \cup {NoPath} /\ changes \in 0 .. MaxChanges

(* A profile just loaded or saved is not dirty, and stays clean until      *)
(* somebody edits something: neither the window's own rounding of its      *)
(* size, nor a file that lacked blocks or named none of a radio, nor a     *)
(* rename, nor the next start makes it so (profileDirty, applyProfile).    *)
CleanUntilEdited == same # NoPath => live.active = same /\ ~Dirty

(* Whatever a file holds, what is read of it has one block for each of its *)
(* radios, and none for another (Reconcile).                               *)
OneBlockPerRadio ==
  \A p \in Paths : Readable(p) =>
    /\ Len(Read(p).blocks) = Len(files[p].radios)
    /\ {Read(p).blocks[n].radio : n \in DOMAIN Read(p).blocks} = Ids(files[p].radios)

(* No new profile takes the place of a file (uniqueProfilePath).           *)
NothingIsOverwritten == ~overwritten

ProfilesAreKept == CleanUntilEdited /\ OneBlockPerRadio /\ NothingIsOverwritten
=============================================================================

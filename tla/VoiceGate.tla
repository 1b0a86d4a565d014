----------------------------- MODULE VoiceGate -----------------------------
(* The microphone gate (internal/audio/gate.go): once per frame it decides  *)
(* from the talk key, the level and the mute whether the frame is sent. A   *)
(* press opens it after a start delay and leaves a release tail, a loud     *)
(* signal opens it after a minimal length and leaves a hang; latches see to *)
(* it that a setting changed meanwhile does not cut a transmission off.     *)
(*                                                                          *)
(* The gate is checked against a definition that has no state: it looks at  *)
(* the frames so far and the settings each was judged by.                   *)
EXTENDS Integers, Sequences, FiniteSets

CONSTANTS
  Configs,   \* settings, with durations in milliseconds
  FrameMS,   \* a frame's duration
  MaxFrames, MaxConfigs  \* bounds: frames, and changes of the settings

msToFrames(ms) == IF ms <= 0 THEN 0 ELSE ms \div FrameMS

Durations == {"PTTStartDelayMS", "PTTReleaseDelayMS", "VOXMinLengthMS", "VOXHangMS"}

GateAssumption ==
  /\ FrameMS \in Nat \ {0}
  /\ \A c \in Configs : c.VOXEnabled \in BOOLEAN /\ \A d \in Durations : c[d] \in Int

VARIABLES
  cfg, pttHeld, tail, voxSustain, voxHangLeft, pttLatched, voxLatched, open,  \* Gate
  changes,
  muted,  \* history: the last frame's
  inputs  \* history: the frames and the settings they were judged by

gate == <<cfg, pttHeld, tail, voxSustain, voxHangLeft, pttLatched, voxLatched, open>>
vars == <<gate, changes, muted, inputs>>

TypeOK ==
  /\ cfg \in Configs /\ open \in BOOLEAN
  /\ pttHeld \in Nat /\ tail \in Nat /\ voxSustain \in Nat /\ voxHangLeft \in Nat
  /\ pttLatched \in BOOLEAN /\ voxLatched \in BOOLEAN
  /\ changes \in 0 .. MaxConfigs
  /\ muted \in BOOLEAN
  /\ inputs \in Seq([PTT : BOOLEAN, loud : BOOLEAN, cfg : Configs])

Init ==
  /\ cfg \in Configs
  /\ pttHeld = 0 /\ tail = 0 /\ voxSustain = 0 /\ voxHangLeft = 0
  /\ pttLatched = FALSE /\ voxLatched = FALSE /\ open = FALSE
  /\ changes = 0 /\ muted = FALSE /\ inputs = <<>>

\* Nothing of the running state is reset.
SetConfig(c) ==
  /\ changes < MaxConfigs /\ c # cfg
  /\ cfg' = c /\ changes' = changes + 1
  /\ UNCHANGED <<pttHeld, tail, voxSustain, voxHangLeft, pttLatched, voxLatched, open, muted, inputs>>

\* Mutant: what counts is the delay of now.
RejudgesPress == pttHeld' > msToFrames(cfg.PTTStartDelayMS)
KeepsPress == pttLatched \/ pttHeld' > msToFrames(cfg.PTTStartDelayMS)

\* Mutant: a tail also runs out while the key is down.
TailRuns == IF tail > 0 THEN tail - 1 ELSE 0
TailOfPress == tail

Press(in) ==
  IF in.PTT
   THEN /\ pttHeld' = pttHeld + 1
        /\ pttLatched' = KeepsPress
        /\ tail' = IF pttLatched' THEN msToFrames(cfg.PTTReleaseDelayMS) ELSE TailOfPress
   ELSE /\ pttHeld' = 0 /\ pttLatched' = FALSE
        /\ tail' = IF tail > 0 THEN tail - 1 ELSE 0
PttOpen(in) == IF in.PTT THEN pttLatched' ELSE tail > 0

\* Mutant: the settings switch VOX off and leave its hang.
KeepsHang == voxHangLeft
NoHang == 0

Vox(in) ==
  \/ /\ cfg.VOXEnabled /\ in.loud
     /\ voxSustain' = voxSustain + 1
     /\ voxLatched' = (voxLatched \/ voxSustain' >= msToFrames(cfg.VOXMinLengthMS))
     /\ voxHangLeft' = IF voxLatched' THEN msToFrames(cfg.VOXHangMS) ELSE voxHangLeft
  \/ /\ cfg.VOXEnabled /\ ~in.loud
     /\ voxSustain' = 0 /\ voxLatched' = FALSE
     /\ voxHangLeft' = IF voxHangLeft > 0 THEN voxHangLeft - 1 ELSE 0
  \/ /\ ~cfg.VOXEnabled
     /\ voxSustain' = 0 /\ voxLatched' = FALSE /\ voxHangLeft' = NoHang
VoxOpen(in) == cfg.VOXEnabled /\ IF in.loud THEN voxLatched' ELSE voxHangLeft > 0

Step(in) ==
  /\ Len(inputs) < MaxFrames
  /\ Press(in) /\ Vox(in)
  /\ open' = ((PttOpen(in) \/ VoxOpen(in)) /\ ~in.Muted)
  /\ muted' = in.Muted
  /\ inputs' = Append(inputs, [PTT |-> in.PTT, loud |-> in.loud, cfg |-> cfg])
  /\ UNCHANGED <<cfg, changes>>

Next ==
  \/ \E c \in Configs : SetConfig(c)
  \/ \E in \in [PTT : BOOLEAN, Muted : BOOLEAN, loud : BOOLEAN] : Step(in)

Spec == Init /\ [][Next]_vars

(***************************************************************************)
(* Properties                                                              *)
(***************************************************************************)

\* The frames of the run that frame n is in, and has lasted so far.
KeyRun(n) == {m \in 1 .. n : \A k \in m .. n : inputs[k].PTT}
Loud(k) == inputs[k].loud /\ inputs[k].cfg.VOXEnabled
LoudRun(n) == {m \in 1 .. n : \A k \in m .. n : Loud(k)}

\* The key, or the level, has opened the gate: in one of the frames of its run
\* the run was as long as the settings of that frame asked for.
ByKey(n) ==
  \E k \in KeyRun(n) :
    Cardinality(KeyRun(k)) > msToFrames(inputs[k].cfg.PTTStartDelayMS)
ByVoice(n) ==
  \E k \in LoudRun(n) :
    Cardinality(LoudRun(k)) >= msToFrames(inputs[k].cfg.VOXMinLengthMS)

\* The key is up, but not for longer than the settings of the last frame it
\* had the gate open; and the same for a level that has fallen.
InTail(n) ==
  /\ ~inputs[n].PTT
  /\ \E k \in 1 .. n :
       /\ ByKey(k) /\ \A m \in k + 1 .. n : ~ByKey(m)
       /\ Cardinality({m \in k .. n : ~inputs[m].PTT})
          <= msToFrames(inputs[k].cfg.PTTReleaseDelayMS)
InHang(n) ==
  /\ ~inputs[n].loud
  /\ \E k \in 1 .. n :
       /\ ByVoice(k) /\ \A m \in k + 1 .. n : ~ByVoice(m)
       /\ \A m \in k .. n : inputs[m].cfg.VOXEnabled
       /\ Cardinality({m \in k .. n : ~inputs[m].loud})
          <= msToFrames(inputs[k].cfg.VOXHangMS)

(* The gate is open exactly when the frames and the settings so far say    *)
(* so: no change of a delay cuts off a key that is held or a voice that    *)
(* lasts ("cannot re-close the gate out from under the user", SetConfig),  *)
(* a mute wins over all, and no frame of a tail or a hang is lost or added.*)
GateIsExact ==
  LET n == Len(inputs)
  IN n > 0 =>
       (open <=> ~muted /\ (ByKey(n) \/ InTail(n) \/ ByVoice(n) \/ InHang(n)))
=============================================================================

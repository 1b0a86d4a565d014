---------------------------- MODULE CapturePath ----------------------------
(* The way of a sample from the microphone to the sinks: the accumulator    *)
(* that cuts what the device delivers into frames                           *)
(* (internal/audio/frame_buffer.go), the ring between the device's callback *)
(* and the DSP goroutine (ring.go), and the goroutine's bounded catch-up    *)
(* (dspLoop, manager.go). The ring has no lock: either side stores its own  *)
(* index only, after it has copied; every load and store of the other       *)
(* side's data and every copied sample is a step here.                      *)
(*                                                                          *)
(* A sample is its number in the order of recording, an empty slot 0. The   *)
(* indices, 64 bits wide, do not wrap.                                      *)
EXTENDS Naturals, Sequences

CONSTANTS
  FrameSamples,
  CapacityFrames,    \* NewRing's argument
  Capacity,          \* the samples it makes room for
  MaxCatchUpFrames,
  MaxChunk,          \* samples the device delivers at once
  MaxSamples         \* bound: samples recorded

Nothing == 0
Samples == 1 .. MaxSamples

\* NewRing takes the least power of two that holds the frames.
Powers == {2 ^ k : k \in 0 .. CapacityFrames * FrameSamples}
Holds(c) == c >= CapacityFrames * FrameSamples
Slot(n) == n % Capacity

PathAssumption ==
  /\ FrameSamples \in Nat \ {0} /\ CapacityFrames \in Nat \ {0}
  /\ MaxCatchUpFrames \in Nat /\ MaxChunk \in Nat \ {0} /\ MaxSamples \in Nat
  /\ Capacity \in Nat /\ Capacity \in Powers /\ Holds(Capacity)
  /\ \A c \in Powers : Holds(c) => Capacity <= c

VARIABLES
  buf, w, r, dropped,  \* Ring
  recorded,   \* samples the device has recorded
  pending,    \* the accumulator's, with what is left of the chunk
  producer,   \* where the callback is
  frame,      \* the frame it writes
  copied,     \* samples of it in the ring
  dsp,        \* where the goroutine is
  lastDropped, end,  \* its locals: drops seen, the w that Drain loaded
  frames,     \* frames to read in this tick
  present,    \* whole frames Available found, up to the bound
  inFrame, want,
  newest,     \* history: the newest sample dropped, and dropped and seen
  heard,      \* history: the last sample the sinks got
  lost        \* history: samples dropped and drained since

ring == <<buf, w, r, dropped>>
callback == <<recorded, pending, producer, frame, copied>>
loop == <<dsp, lastDropped, end, frames, present, inFrame, want>>
history == <<newest, heard, lost>>
vars == <<ring, callback, loop, history>>

TypeOK ==
  /\ buf \in [0 .. Capacity - 1 -> {Nothing} \cup Samples]
  /\ w \in Nat /\ r \in Nat /\ dropped \in Nat /\ lastDropped \in Nat /\ end \in Nat
  /\ recorded \in 0 .. MaxSamples
  /\ pending \in Seq(Samples) /\ frame \in Seq(Samples)
  /\ inFrame \in Seq({Nothing} \cup Samples)
  /\ copied \in 0 .. FrameSamples /\ want \in 0 .. FrameSamples
  /\ producer \in {"idle", "cut", "load", "copy"}
  /\ dsp \in {"idle", "drain", "jump", "plan", "read", "copy", "store"}
  /\ frames \in 0 .. MaxCatchUpFrames + 1 /\ present \in 0 .. MaxCatchUpFrames + 1
  /\ newest \in [dropped : 0 .. MaxSamples, seen : 0 .. MaxSamples]
  /\ heard \in 0 .. MaxSamples /\ lost \subseteq Samples

Init ==
  /\ buf = [n \in 0 .. Capacity - 1 |-> Nothing] /\ w = 0 /\ r = 0 /\ dropped = 0
  /\ recorded = 0 /\ pending = <<>> /\ producer = "idle" /\ frame = <<>> /\ copied = 0
  /\ dsp = "idle" /\ lastDropped = 0 /\ end = 0 /\ frames = 0 /\ present = 0
  /\ inFrame = <<>> /\ want = 0
  /\ newest = [dropped |-> 0, seen |-> 0] /\ heard = 0 /\ lost = {}

(***************************************************************************)
(* The callback of the device                                              *)
(***************************************************************************)

\* A chunk of any length (push).
Deliver(n) ==
  /\ producer = "idle" /\ recorded + n <= MaxSamples
  /\ pending' = pending \o [m \in 1 .. n |-> recorded + m]
  /\ recorded' = recorded + n
  /\ producer' = "cut"
  /\ UNCHANGED <<ring, frame, copied, loop, history>>

\* Mutant: what is left of a chunk is forgotten.
NoRemainder == <<>>
Remainder == SubSeq(pending, FrameSamples + 1, Len(pending))

\* Whole frames go to Write, the rest waits for the next chunk.
Cut ==
  /\ producer = "cut"
  /\ IF Len(pending) < FrameSamples
      THEN producer' = "idle" /\ UNCHANGED <<frame, pending>>
      ELSE /\ frame' = SubSeq(pending, 1, FrameSamples)
           /\ pending' = Remainder
           /\ producer' = "load"
  /\ UNCHANGED <<ring, recorded, copied, loop, history>>

\* Mutant: a frame may begin in the last free slot.
FreeSlot == Capacity - (w - r) > 0
Free == FrameSamples <= Capacity - (w - r)

\* Write, up to its loads.
LoadRead ==
  /\ producer = "load"
  /\ \/ Free /\ producer' = "copy" /\ UNCHANGED <<dropped, newest, lost, frame>>
     \/ /\ ~Free
        /\ dropped' = dropped + FrameSamples
        /\ newest' = [newest EXCEPT !.dropped = frame[FrameSamples]]
        /\ lost' = lost \cup {frame[m] : m \in 1 .. FrameSamples}
        /\ frame' = <<>> /\ producer' = "cut"
  /\ UNCHANGED <<buf, w, r, recorded, pending, copied, loop, heard>>

\* Mutant: the index is stored before the last sample is there.
LastMissing == copied = FrameSamples - 1
Complete == copied = FrameSamples

CopyIn ==
  /\ producer = "copy" /\ ~Complete
  /\ buf' = [buf EXCEPT ![Slot(w + copied)] = frame[copied + 1]]
  /\ copied' = copied + 1
  /\ UNCHANGED <<w, r, dropped, recorded, pending, producer, frame, loop, history>>

StoreWrite ==
  /\ producer = "copy" /\ Complete
  /\ w' = w + FrameSamples
  /\ producer' = "cut" /\ frame' = <<>> /\ copied' = 0
  /\ UNCHANGED <<buf, r, dropped, recorded, pending, loop, history>>

(***************************************************************************)
(* The DSP goroutine                                                       *)
(***************************************************************************)

\* A drop since the last tick is answered by a Drain.
Tick ==
  /\ dsp = "idle"
  /\ dsp' = IF dropped # lastDropped THEN "drain" ELSE "plan"
  /\ lastDropped' = dropped
  /\ newest' = [newest EXCEPT !.seen = newest.dropped]
  /\ UNCHANGED <<ring, callback, end, frames, present, inFrame, want, heard, lost>>

\* Mutant: Drain leaves the newest frame.
DrainsToLast == IF w > r THEN w - FrameSamples ELSE w
DrainsTo == w

LoadWrite ==
  /\ dsp = "drain" /\ dsp' = "jump"
  /\ end' = DrainsTo
  /\ UNCHANGED <<ring, callback, lastDropped, frames, present, inFrame, want, history>>

Jump ==
  /\ dsp = "jump" /\ dsp' = "plan"
  /\ r' = end /\ end' = 0
  /\ lost' = lost \cup {buf[Slot(n)] : n \in r .. end - 1}
  /\ UNCHANGED <<buf, w, dropped, callback, lastDropped, frames, present, inFrame, want,
       newest, heard>>

Within(n) == IF n > MaxCatchUpFrames + 1 THEN MaxCatchUpFrames + 1 ELSE n

\* Mutant: one frame on top of those that are there.
PlansOneMore(n) == Within(n + 1)
\* At least one frame, for the gate and the meters go on in silence.
Plans(n) == IF n = 0 THEN 1 ELSE Within(n)

Plan ==
  /\ dsp = "plan" /\ dsp' = "read"
  /\ LET available == (w - r) \div FrameSamples
     IN frames' = Plans(available) /\ present' = Within(available)
  /\ UNCHANGED <<ring, callback, lastDropped, end, inFrame, want, history>>

ReadBegins ==
  /\ dsp = "read"
  /\ want' = IF w - r < FrameSamples THEN w - r ELSE FrameSamples
  /\ dsp' = "copy"
  /\ UNCHANGED <<ring, callback, lastDropped, end, frames, present, inFrame, history>>

CopyOut ==
  /\ dsp = "copy"
  /\ IF Len(inFrame) < want
      THEN inFrame' = Append(inFrame, buf[Slot(r + Len(inFrame))]) /\ UNCHANGED dsp
      ELSE dsp' = "store" /\ UNCHANGED inFrame
  /\ UNCHANGED <<ring, callback, lastDropped, end, frames, present, want, history>>

\* Mutant: the index goes over what a short read did not find.
WholeFrame == FrameSamples
Taken == want

\* The frame is taken; the sinks get it, with silence for what it lacks.
StoreRead ==
  /\ dsp = "store"
  /\ r' = r + Taken
  /\ frames' = frames - 1
  /\ dsp' = IF frames = 1 THEN "idle" ELSE "read"
  /\ heard' = IF want = 0 THEN heard ELSE inFrame[want]
  /\ lost' = {n \in lost : n > heard'}
  /\ inFrame' = <<>> /\ want' = 0
  /\ UNCHANGED <<buf, w, dropped, callback, lastDropped, end, present, newest>>

Next ==
  \/ \E n \in 1 .. MaxChunk : Deliver(n)
  \/ Cut \/ LoadRead \/ CopyIn \/ StoreWrite
  \/ Tick \/ LoadWrite \/ Jump \/ Plan \/ ReadBegins \/ CopyOut \/ StoreRead

Spec == Init /\ [][Next]_vars

(***************************************************************************)
(* Properties                                                              *)
(***************************************************************************)

Reads == dsp = "store"

(* A frame read is one the accumulator cut, with every sample of it, or    *)
(* nothing: no frame is torn by a full ring, by the wrap, or by a Write    *)
(* that runs meanwhile (Write: "the incoming chunk is dropped whole or not *)
(* at all").                                                               *)
FramesAreWhole ==
  Reads /\ inFrame # <<>> =>
    /\ inFrame[1] % FrameSamples = 1 % FrameSamples
    /\ inFrame = [m \in 1 .. FrameSamples |-> inFrame[1] + m - 1]

(* Nothing is heard twice or out of order, and what is skipped was dropped *)
(* by a full ring or drained.                                              *)
NothingVanishes ==
  Reads /\ inFrame # <<>> =>
    inFrame[1] > heard /\ heard + 1 .. inFrame[1] - 1 \subseteq lost

(* Where there is a frame to read, no silence is put behind it: a catch-up *)
(* "must never plan to read more frames than are really there"             *)
(* (Available).                                                            *)
NoSilenceInBetween ==
  Reads /\ inFrame = <<>> => present = 0

(* Once a drop is seen, what was recorded before it is not heard any more, *)
(* so that a full ring does not stay a delay for ever (dspLoop).           *)
BacklogIsCleared ==
  Reads /\ inFrame # <<>> => inFrame[1] > newest.seen

CaptureIsFaithful ==
  FramesAreWhole /\ NothingVanishes /\ NoSilenceInBetween /\ BacklogIsCleared
=============================================================================

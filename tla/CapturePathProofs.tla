------------------------- MODULE CapturePathProofs -------------------------
(* The ring between the device and the DSP goroutine has no lock, and yet   *)
(* no frame is torn, heard twice or lost unnoticed, for any frame, ring and *)
(* chunk size: an index is stored after the samples it publishes, and the   *)
(* slots the callback fills are none the goroutine has still to read.       *)
EXTENDS CapturePath, Integers, SequenceTheorems, TLAPS

(***************************************************************************)
(* The inductive invariant                                                 *)
(***************************************************************************)

\* A number of whole frames.
Whole(n) == n % FrameSamples = 0

\* The sample an index stands for.
At(n) == buf[Slot(n)]

InHand == producer \in {"load", "copy"}

\* The samples up to this one are in the ring or have been in it or dropped.
Done == recorded - Len(pending) - (IF InHand THEN FrameSamples ELSE 0)

\* The callback has the frame after those in its hand, and the rest waits.
CallbackInv ==
  /\ Done >= 0 /\ Whole(Done)
  /\ pending = [m \in 1 .. Len(pending) |-> recorded - Len(pending) + m]
  /\ frame = IF InHand THEN [m \in 1 .. FrameSamples |-> Done + m] ELSE <<>>
  /\ producer # "copy" => copied = 0

\* Either side's index is of whole frames, and what the callback writes is free.
IndexInv ==
  /\ Whole(r) /\ Whole(w) /\ r <= w /\ w <= r + Capacity
  /\ producer = "copy" => w + FrameSamples <= r + Capacity
  /\ dsp = "jump" => r <= end /\ end <= w /\ Whole(end)

\* Between the indices are whole frames, in order and newer than what was heard;
\* what was recorded since and is not there is lost.
ContentInv ==
  /\ heard <= Done
  /\ \A n \in r .. w - 1 : At(n) \in heard + 1 .. Done
  /\ \A m, n \in r .. w - 1 : m < n => At(m) < At(n)
  /\ \A n \in r .. w - 1 :
       Whole(n) => Whole(At(n) - 1) /\ \A i \in 0 .. FrameSamples - 1 : At(n + i) = At(n) + i
  /\ producer = "copy" => \A i \in 0 .. copied - 1 : At(w + i) = Done + 1 + i
  /\ \A x \in heard + 1 .. Done : x \in lost \/ \E n \in r .. w - 1 : At(n) = x

\* What was recorded before a drop that is seen is behind the goroutine, or is
\* about to be.
DropInv ==
  /\ lastDropped <= dropped
  /\ newest.seen <= newest.dropped /\ newest.dropped <= Done
  /\ dropped = lastDropped => newest.seen = newest.dropped
  /\ dsp \notin {"drain", "jump"} => \A n \in r .. w - 1 : At(n) > newest.seen
  /\ dsp = "jump" => \A n \in end .. w - 1 : At(n) > newest.seen

\* The goroutine reads whole frames that are there, or none.
ReadInv ==
  /\ dsp \in {"read", "copy", "store"} =>
       frames > 0 /\ (present > 0 => r + FrameSamples * frames <= w)
  /\ IF dsp \in {"copy", "store"}
       THEN /\ want \in {0, FrameSamples} /\ r + want <= w
            /\ present > 0 => want = FrameSamples
            /\ Len(inFrame) <= want
            /\ \A i \in 1 .. Len(inFrame) : inFrame[i] = At(r + i - 1)
       ELSE inFrame = <<>> /\ want = 0
  /\ dsp = "store" => Len(inFrame) = want

IInv == TypeOK /\ CallbackInv /\ IndexInv /\ ContentInv /\ DropInv /\ ReadInv

(***************************************************************************)
(* Indices and frames                                                      *)
(***************************************************************************)

\* A number is a multiple of another and what remains (the mask of the ring).
LEMMA Division ==
  ASSUME NEW a \in Nat, NEW b \in Nat \ {0}
  PROVE  /\ a = b * (a \div b) + (a % b)
         /\ a \div b \in Nat /\ a % b \in 0 .. b - 1
OBVIOUS

\* Multiples that differ do so by one whole at least.
LEMMA Multiples ==
  ASSUME NEW b \in Nat \ {0}, NEW p \in Int, NEW q \in Int, p < q
  PROVE  b * p + b <= b * q
<1>1. PICK d \in Nat \ {0} : q = p + d
  <2>1. q - p \in Nat \ {0} /\ q = p + (q - p)
    OBVIOUS
  <2> QED  BY <2>1
<1>2. b * q = b * p + b * d
  BY <1>1
<1>3. b * d >= b
  BY <1>1
<1> QED  BY <1>1, <1>2, <1>3

\* What remains of a multiple and a number below it is that number.
LEMMA Remainder2 ==
  ASSUME NEW b \in Nat \ {0}, NEW q \in Nat, NEW e \in 0 .. b - 1
  PROVE  (b * q + e) % b = e
<1> DEFINE a == b * q + e
<1>1. a \in Nat
  OBVIOUS
<1>2. a = b * (a \div b) + (a % b) /\ a \div b \in Nat /\ a % b \in 0 .. b - 1
  BY <1>1, Division
<1>3. CASE a \div b < q
  BY <1>2, <1>3, Multiples
<1>4. CASE a \div b > q
  BY <1>2, <1>4, Multiples
<1>5. CASE a \div b = q
  BY <1>2, <1>5
<1> QED  BY <1>2, <1>3, <1>4, <1>5

\* The samples after a later one are among those after an earlier one (dspLoop).
LEMMA Later ==
  ASSUME NEW a \in Nat, NEW b \in Nat, NEW d \in Nat, a <= b
  PROVE  \A x \in b + 1 .. d : x \in a + 1 .. d /\ x > b
OBVIOUS

\* The ring has room for a frame (NewRing).
LEMMA CapacityType ==
  ASSUME PathAssumption
  PROVE  Capacity \in Nat \ {0} /\ FrameSamples \in Nat \ {0}
<1>1. CapacityFrames * FrameSamples >= 1
  BY DEF PathAssumption
<1>2. CapacityFrames * FrameSamples \in Nat /\ Capacity \in Nat /\ Capacity >= CapacityFrames * FrameSamples
  BY DEF PathAssumption, Holds
<1> QED  BY <1>1, <1>2 DEF PathAssumption

\* Indices less than a ring apart have slots of their own (Write, Read).
LEMMA SlotsDiffer ==
  ASSUME PathAssumption, NEW m \in Nat, NEW n \in Nat, m < n, n < m + Capacity
  PROVE  Slot(m) # Slot(n)
<1>1. Capacity \in Nat \ {0}
  BY CapacityType
<1>2. /\ m = Capacity * (m \div Capacity) + Slot(m) /\ m \div Capacity \in Nat
      /\ n = Capacity * (n \div Capacity) + Slot(n) /\ n \div Capacity \in Nat
      /\ Slot(m) \in Nat /\ Slot(n) \in Nat
  BY <1>1, Division DEF Slot
<1> DEFINE p == m \div Capacity
           q == n \div Capacity
<1>3. CASE p < q
  <2>1. Capacity * p + Capacity <= Capacity * q
    BY <1>1, <1>2, <1>3, Multiples
  <2>2. Capacity * p \in Nat /\ Capacity * q \in Nat
    BY <1>1, <1>2
  <2> HIDE DEF p, q
  <2> QED  BY <1>1, <1>2, <2>1, <2>2 DEF p, q
<1>4. CASE q < p
  <2>1. Capacity * q + Capacity <= Capacity * p
    BY <1>1, <1>2, <1>4, Multiples
  <2>2. Capacity * p \in Nat /\ Capacity * q \in Nat /\ Slot(n) < Capacity
    BY <1>1, <1>2, Division DEF Slot
  <2> QED  BY <1>1, <1>2, <2>1, <2>2
<1>5. CASE p = q
  BY <1>2, <1>5
<1> QED  BY <1>2, <1>3, <1>4, <1>5

\* A slot is one of the ring's (Write, Read).
LEMMA SlotType ==
  ASSUME PathAssumption, NEW n \in Nat
  PROVE  Slot(n) \in 0 .. Capacity - 1
BY CapacityType, Division DEF Slot

\* Numbers of whole frames: the sum of one and a frame is one, what is left of
\* one without a frame is one, and two of them differ by a frame at least.
LEMMA WholeFrames ==
  ASSUME PathAssumption
  PROVE  /\ Whole(0)
         /\ \A n \in Nat : Whole(n) => Whole(n + FrameSamples)
         /\ \A m, n \in Nat : Whole(m) /\ Whole(n) /\ m < n => m + FrameSamples <= n
         /\ \A n \in Nat : Whole(n) => (n + 1) % FrameSamples = 1 % FrameSamples
<1>1. FrameSamples \in Nat \ {0}
  BY CapacityType
<1>2. \A n \in Nat : Whole(n) => n = FrameSamples * (n \div FrameSamples) /\ n \div FrameSamples \in Nat
  BY <1>1, Division DEF Whole
<1>3. \A q \in Nat : Whole(FrameSamples * q)
  <2> TAKE q \in Nat
  <2>1. (FrameSamples * q + 0) % FrameSamples = 0
    BY <1>1, Remainder2
  <2>2. FrameSamples * q + 0 = FrameSamples * q
    BY <1>1
  <2> QED  BY <2>1, <2>2 DEF Whole
<1>4. Whole(0)
  <2>1. FrameSamples * 0 = 0
    BY <1>1
  <2> QED  BY <1>3, <2>1
<1>5. ASSUME NEW n \in Nat, Whole(n) PROVE Whole(n + FrameSamples)
  <2>1. n + FrameSamples = FrameSamples * ((n \div FrameSamples) + 1)
    BY <1>1, <1>2, <1>5
  <2> QED  BY <1>2, <1>3, <1>5, <2>1
<1>6. ASSUME NEW m \in Nat, NEW n \in Nat, Whole(m), Whole(n), m < n PROVE m + FrameSamples <= n
  <2> DEFINE p == m \div FrameSamples
             q == n \div FrameSamples
  <2>1. m = FrameSamples * p /\ n = FrameSamples * q /\ p \in Nat /\ q \in Nat
    BY <1>2, <1>6
  <2> HIDE DEF p, q
  <2>2. CASE p < q
    BY <1>1, <2>1, <2>2, Multiples
  <2>3. CASE q < p
    <3>1. FrameSamples * q + FrameSamples <= FrameSamples * p
      BY <1>1, <2>1, <2>3, Multiples
    <3> QED  BY <1>1, <1>6, <2>1, <3>1
  <2> QED  BY <1>6, <2>1, <2>2, <2>3
<1>7. ASSUME NEW n \in Nat, Whole(n) PROVE (n + 1) % FrameSamples = 1 % FrameSamples
  <2>1. n = FrameSamples * (n \div FrameSamples) /\ n \div FrameSamples \in Nat
    BY <1>2, <1>7
  <2>2. CASE FrameSamples = 1
    BY <2>2
  <2>3. CASE FrameSamples # 1
    <3>1. (FrameSamples * (n \div FrameSamples) + 1) % FrameSamples = 1
      BY <1>1, <2>1, <2>3, Remainder2
    <3>2. (FrameSamples * 0 + 1) % FrameSamples = 1 /\ FrameSamples * 0 + 1 = 1
      BY <1>1, <2>3, Remainder2
    <3>3. (n + 1) % FrameSamples = 1
      BY <2>1, <3>1
    <3> QED  BY <3>2, <3>3
  <2> QED  BY <2>2, <2>3
<1> QED  BY <1>4, <1>5, <1>6, <1>7

(***************************************************************************)
(* What a step leaves alone                                                *)
(***************************************************************************)

\* How far the callback is lies within what was recorded (push, Write).
LEMMA DoneType ==
  ASSUME PathAssumption, TypeOK, CallbackInv
  PROVE  /\ Done \in 0 .. MaxSamples /\ Len(pending) \in Nat
         /\ Done + Len(pending) + (IF InHand THEN FrameSamples ELSE 0) = recorded
<1>1. /\ pending \in Seq(Samples) /\ recorded \in 0 .. MaxSamples /\ MaxSamples \in Nat /\ Done >= 0
      /\ FrameSamples \in Nat \ {0}
  BY CapacityType DEF TypeOK, CallbackInv, PathAssumption
<1>2. Len(pending) \in Nat
  BY <1>1, LenProperties
<1>3. CASE InHand
  <2>1. Done = recorded - Len(pending) - FrameSamples
    BY <1>3 DEF Done
  <2> QED  BY <1>1, <1>2, <1>3, <2>1
<1>4. CASE ~InHand
  <2>1. Done = recorded - Len(pending) - 0
    BY <1>4 DEF Done
  <2> QED  BY <1>1, <1>2, <1>4, <2>1
<1> QED  BY <1>3, <1>4

\* The samples between the indices stand, and no index and no dropped sample
\* has moved.
RingKept == r' = r /\ w' = w /\ \A n \in r .. w - 1 : At(n)' = At(n)

\* The callback goes on with the same samples done (push, Write).
LEMMA CallbackSteps ==
  ASSUME PathAssumption, IInv, RingKept, Done' = Done, UNCHANGED <<dropped, loop, history>>,
         producer' = "copy" => /\ w + FrameSamples <= r + Capacity
                               /\ \A i \in 0 .. copied' - 1 : At(w + i)' = Done + 1 + i
  PROVE  IndexInv' /\ ContentInv' /\ DropInv' /\ ReadInv'
<1> USE DEF IInv, RingKept
<1>1. w \in Nat /\ r \in Nat /\ Done \in Nat
  BY DoneType DEF TypeOK
<1>2. IndexInv'
  BY DEF IndexInv, loop
<1>3. ContentInv'
  <2>1. \A n \in r .. w - 1 :
          Whole(n) => Whole(At(n) - 1) /\ \A i \in 0 .. FrameSamples - 1 : n + i \in r .. w - 1
    <3> TAKE n \in r .. w - 1
    <3> SUFFICES ASSUME Whole(n) PROVE Whole(At(n) - 1) /\ \A i \in 0 .. FrameSamples - 1 : n + i \in r .. w - 1
      OBVIOUS
    <3>1. n \in Nat /\ n < w /\ Whole(w) /\ FrameSamples \in Nat \ {0}
      BY <1>1, CapacityType DEF IndexInv
    <3>2. n + FrameSamples <= w
      BY <1>1, <3>1, WholeFrames
    <3>3. Whole(At(n) - 1)
      BY DEF ContentInv
    <3> QED  BY <1>1, <3>1, <3>2, <3>3
  <2> QED  BY <1>1, <2>1 DEF ContentInv, history
<1>4. DropInv'
  <2>1. \A n \in end .. w - 1 : dsp = "jump" => n \in r .. w - 1
    BY <1>1 DEF IndexInv, TypeOK
  <2> QED  BY <2>1 DEF DropInv, loop, history
<1>5. ReadInv'
  <2>1. dsp \in {"copy", "store"} => \A i \in 1 .. Len(inFrame) : r + i - 1 \in r .. w - 1
    <3>1. inFrame \in Seq({Nothing} \cup Samples) /\ Len(inFrame) \in Nat /\ want \in Nat
      BY LenProperties DEF TypeOK
    <3> QED  BY <1>1, <3>1 DEF ReadInv
  <2> QED  BY <2>1 DEF ReadInv, loop
<1> QED  BY <1>2, <1>3, <1>4, <1>5

(***************************************************************************)
(* The callback of the device                                              *)
(***************************************************************************)

\* An empty ring, nothing recorded (NewRing).
LEMMA InitInv == ASSUME PathAssumption, Init PROVE IInv
<1> USE CapacityType
<1>1. Len(pending) = 0 /\ ~InHand /\ Done = 0
  <2>1. Len(pending) = 0
    BY DEF Init
  <2>2. ~InHand
    BY DEF Init, InHand
  <2>3. Done = recorded - Len(pending) - 0
    BY <2>2 DEF Done
  <2> QED  BY <2>1, <2>2, <2>3 DEF Init
<1>2. TypeOK
  <2>1. /\ pending \in Seq(Samples) /\ frame \in Seq(Samples) /\ inFrame \in Seq({Nothing} \cup Samples)
    BY DEF Init
  <2>2. newest \in [dropped : 0 .. MaxSamples, seen : 0 .. MaxSamples]
    BY DEF Init, PathAssumption
  <2>3. buf \in [0 .. Capacity - 1 -> {Nothing} \cup Samples]
    BY DEF Init
  <2>4. /\ recorded \in 0 .. MaxSamples /\ heard \in 0 .. MaxSamples
        /\ frames \in 0 .. MaxCatchUpFrames + 1 /\ present \in 0 .. MaxCatchUpFrames + 1
        /\ copied \in 0 .. FrameSamples /\ want \in 0 .. FrameSamples
    BY DEF Init, PathAssumption
  <2> QED  BY <2>1, <2>2, <2>3, <2>4 DEF Init, TypeOK
<1>3. CallbackInv
  <2>1. pending = [m \in 1 .. Len(pending) |-> recorded - Len(pending) + m]
    BY <1>1 DEF Init
  <2> QED  BY <1>1, <2>1, WholeFrames DEF Init, CallbackInv
<1>4. IndexInv
  BY WholeFrames DEF Init, IndexInv
<1>5. ContentInv
  BY <1>1 DEF Init, ContentInv
<1>6. DropInv
  BY <1>1 DEF Init, DropInv
<1>7. ReadInv
  BY DEF Init, ReadInv
<1> QED  BY <1>2, <1>3, <1>4, <1>5, <1>6, <1>7 DEF IInv

\* A chunk goes to the accumulator, behind what waits there (push).
LEMMA DeliverKeeps ==
  ASSUME PathAssumption, IInv, NEW c \in 1 .. MaxChunk, Deliver(c)
  PROVE  IInv'
<1> DEFINE chunk == [m \in 1 .. c |-> recorded + m]
<1>1. /\ producer = "idle" /\ recorded + c <= MaxSamples /\ recorded' = recorded + c
      /\ pending' = pending \o chunk /\ producer' = "cut"
      /\ UNCHANGED <<ring, frame, copied, loop, history>>
  BY DEF Deliver
<1>2. /\ pending \in Seq(Samples) /\ recorded \in 0 .. MaxSamples /\ Len(pending) \in Nat
      /\ Done \in Nat /\ Done + Len(pending) = recorded /\ ~InHand /\ c \in Nat /\ MaxSamples \in Nat
      /\ frame = <<>>
  BY <1>1, DoneType DEF IInv, TypeOK, InHand, PathAssumption, CallbackInv
<1>3. chunk \in Seq(Samples) /\ Len(chunk) = c
  BY <1>1, <1>2 DEF Samples
<1> HIDE DEF chunk
<1>4. /\ pending' \in Seq(Samples) /\ Len(pending') = Len(pending) + c
      /\ \A m \in 1 .. Len(pending) : pending'[m] = pending[m]
      /\ \A m \in Len(pending) + 1 .. Len(pending) + c : pending'[m] = chunk[m - Len(pending)]
  <2>1. /\ pending \o chunk \in Seq(Samples) /\ Len(pending \o chunk) = Len(pending) + c
        /\ \A m \in 1 .. Len(pending) + c :
             (pending \o chunk)[m] = IF m <= Len(pending) THEN pending[m] ELSE chunk[m - Len(pending)]
    BY <1>2, <1>3, ConcatProperties
  <2>2. /\ \A m \in 1 .. Len(pending) : (pending \o chunk)[m] = pending[m]
        /\ \A m \in Len(pending) + 1 .. Len(pending) + c : (pending \o chunk)[m] = chunk[m - Len(pending)]
    BY <1>2, <2>1
  <2> QED  BY <1>1, <2>1, <2>2
<1>5. Done' = Done /\ ~InHand'
  <2>1. ~InHand'
    BY <1>1 DEF InHand
  <2>2. Done' = recorded' - Len(pending') - 0
    BY <2>1 DEF Done
  <2>3. recorded' = recorded + c /\ Len(pending') = Len(pending) + c /\ Done = recorded - Len(pending)
    BY <1>1, <1>2, <1>4
  <2>4. recorded \in Nat /\ Len(pending) \in Nat /\ c \in Nat
    BY <1>2
  <2>5. Done' = Done
    BY <2>2, <2>3, <2>4
  <2> QED  BY <2>1, <2>5
<1>6. CallbackInv'
  <2>1. \A m \in 1 .. Len(pending') : pending'[m] = recorded' - Len(pending') + m
    <3> TAKE m \in 1 .. Len(pending')
    <3>1. CASE m <= Len(pending)
      BY <1>1, <1>2, <1>4, <3>1 DEF IInv, CallbackInv
    <3>2. CASE m > Len(pending)
      <4>1. pending'[m] = chunk[m - Len(pending)] /\ m - Len(pending) \in 1 .. c
        <5>1. Len(pending) \in Nat /\ c \in Nat /\ Len(pending') = Len(pending) + c
          BY <1>2, <1>4
        <5>2. m \in Len(pending) + 1 .. Len(pending) + c /\ m - Len(pending) \in 1 .. c
          BY <3>2, <5>1
        <5> QED  BY <1>4, <5>2
      <4>2. chunk[m - Len(pending)] = recorded + (m - Len(pending))
        BY <4>1 DEF chunk
      <4> QED  BY <1>1, <1>2, <1>4, <4>1, <4>2
    <3> QED  BY <1>2, <1>4, <3>1, <3>2
  <2>2. pending' = [m \in 1 .. Len(pending') |-> recorded' - Len(pending') + m]
    <3>1. pending' = [m \in 1 .. Len(pending') |-> pending'[m]]
      BY <1>4, LenProperties
    <3> QED  BY <2>1, <3>1
  <2>3. frame' = <<>> /\ copied' = copied /\ copied = 0
    BY <1>1, <1>2 DEF IInv, CallbackInv
  <2>4. Done' >= 0 /\ Whole(Done')
    BY <1>5 DEF IInv, CallbackInv
  <2> QED  BY <1>5, <2>2, <2>3, <2>4 DEF CallbackInv, Whole
<1>7. IndexInv' /\ ContentInv' /\ DropInv' /\ ReadInv'
  <2>1. RingKept /\ UNCHANGED dropped
    BY <1>1 DEF RingKept, ring, At
  <2> QED  BY <1>1, <1>5, <2>1, CallbackSteps
<1>8. TypeOK'
  BY <1>1, <1>2, <1>4 DEF IInv, TypeOK, ring, loop, history
<1> QED  BY <1>6, <1>7, <1>8 DEF IInv

\* The first frame of what waits is taken in hand, the rest waits (push).
LEMMA CutKeeps == ASSUME PathAssumption, IInv, Cut PROVE IInv'
<1>1. /\ producer = "cut" /\ ~InHand /\ frame = <<>> /\ copied = 0
      /\ UNCHANGED <<ring, recorded, copied, loop, history>>
  BY DEF Cut, IInv, CallbackInv, InHand
<1>2. /\ pending \in Seq(Samples) /\ Len(pending) \in Nat /\ Done \in Nat /\ recorded \in Nat
      /\ Done + Len(pending) = recorded /\ FrameSamples \in Nat \ {0}
  BY <1>1, DoneType, CapacityType DEF IInv, TypeOK
<1>3. \A m \in 1 .. Len(pending) : pending[m] = Done + m
  <2>1. \A m \in 1 .. Len(pending) : pending[m] = recorded - Len(pending) + m
    BY DEF IInv, CallbackInv
  <2>2. recorded - Len(pending) = Done
    BY <1>2
  <2> QED  BY <2>1, <2>2
<1>4. CASE Len(pending) < FrameSamples
  <2>1. producer' = "idle" /\ UNCHANGED <<frame, pending>>
    BY <1>4 DEF Cut
  <2>2. ~InHand' /\ Done' = Done
    BY <1>1, <2>1 DEF InHand, Done
  <2>3. CallbackInv'
    BY <1>1, <2>1, <2>2 DEF IInv, CallbackInv, Whole
  <2>4. RingKept /\ UNCHANGED dropped
    BY <1>1 DEF RingKept, ring, At
  <2>5. IndexInv' /\ ContentInv' /\ DropInv' /\ ReadInv'
    BY <1>1, <2>1, <2>2, <2>4, CallbackSteps
  <2>6. TypeOK'
    BY <1>1, <2>1 DEF IInv, TypeOK, ring, loop, history
  <2> QED  BY <2>3, <2>5, <2>6 DEF IInv
<1>5. CASE ~(Len(pending) < FrameSamples)
  <2>1. /\ frame' = SubSeq(pending, 1, FrameSamples)
        /\ pending' = SubSeq(pending, FrameSamples + 1, Len(pending)) /\ producer' = "load"
    BY <1>5 DEF Cut, Remainder
  <2>2. InHand' /\ FrameSamples <= Len(pending)
    BY <1>2, <1>5, <2>1 DEF InHand
  <2>3. /\ frame' \in Seq(Samples) /\ Len(frame') = FrameSamples
        /\ \A m \in 1 .. FrameSamples : frame'[m] = Done + m
    <3>1. \A m \in 1 .. FrameSamples : m \in 1 .. Len(pending) /\ 1 + m - 1 = m /\ FrameSamples - 1 + 1 = FrameSamples
      BY <1>2, <2>2
    <3>2. \A m \in 1 .. FrameSamples : pending[m] \in Samples
      BY <1>2, <3>1, ElementOfSeq
    <3>3. /\ SubSeq(pending, 1, FrameSamples) \in Seq(Samples)
          /\ Len(SubSeq(pending, 1, FrameSamples)) = FrameSamples
          /\ \A m \in 1 .. FrameSamples : SubSeq(pending, 1, FrameSamples)[m] = pending[m]
      BY <1>2, <3>1, <3>2, SubSeqProperties
    <3> QED  BY <1>3, <2>1, <3>1, <3>3
  <2>4. /\ pending' \in Seq(Samples) /\ Len(pending') = Len(pending) - FrameSamples
        /\ \A m \in 1 .. Len(pending') : pending'[m] = Done + FrameSamples + m
    <3> DEFINE rest == SubSeq(pending, FrameSamples + 1, Len(pending))
    <3>1. \A m \in FrameSamples + 1 .. Len(pending) : m \in 1 .. Len(pending)
      BY <1>2, <2>2
    <3>2. \A m \in FrameSamples + 1 .. Len(pending) : pending[m] \in Samples
      BY <1>2, <3>1, ElementOfSeq
    <3>3. /\ rest \in Seq(Samples)
          /\ Len(rest) = IF FrameSamples + 1 <= Len(pending) THEN Len(pending) - (FrameSamples + 1) + 1 ELSE 0
          /\ \A m \in 1 .. Len(pending) - (FrameSamples + 1) + 1 : rest[m] = pending[FrameSamples + 1 + m - 1]
      BY <1>2, <3>2, SubSeqProperties
    <3> HIDE DEF rest
    <3>4. Len(rest) = Len(pending) - FrameSamples
      BY <1>2, <2>2, <3>3
    <3>5. ASSUME NEW m \in 1 .. Len(rest) PROVE rest[m] = Done + FrameSamples + m
      <4>1. /\ m \in 1 .. Len(pending) - (FrameSamples + 1) + 1
            /\ FrameSamples + 1 + m - 1 = FrameSamples + m /\ FrameSamples + m \in 1 .. Len(pending)
        BY <1>2, <2>2, <3>4
      <4>2. rest[m] = pending[FrameSamples + m] /\ pending[FrameSamples + m] = Done + (FrameSamples + m)
        BY <1>3, <3>3, <4>1
      <4> QED  BY <1>2, <4>1, <4>2
    <3> QED  BY <2>1, <3>3, <3>4, <3>5 DEF rest
  <2>5. Done' = Done
    <3>1. Done' = recorded' - Len(pending') - FrameSamples
      BY <2>2 DEF Done
    <3>2. recorded' = recorded /\ Len(pending') = Len(pending) - FrameSamples
      BY <1>1, <2>4
    <3> QED  BY <1>2, <3>1, <3>2
  <2>6. CallbackInv'
    <3>1. \A m \in 1 .. Len(pending') : pending'[m] = recorded' - Len(pending') + m
      <4>1. recorded' - Len(pending') = Done + FrameSamples
        <5>1. recorded' = recorded /\ Len(pending') = Len(pending) - FrameSamples
          BY <1>1, <2>4
        <5> QED  BY <1>2, <5>1
      <4> QED  BY <2>4, <4>1
    <3>2. pending' = [m \in 1 .. Len(pending') |-> recorded' - Len(pending') + m]
      <4>1. pending' = [m \in 1 .. Len(pending') |-> pending'[m]]
        BY <2>4, LenProperties
      <4> QED  BY <3>1, <4>1
    <3>3. frame' = [m \in 1 .. FrameSamples |-> Done' + m]
      <4>1. frame' = [m \in 1 .. FrameSamples |-> frame'[m]]
        BY <2>3, LenProperties
      <4> QED  BY <2>3, <2>5, <4>1
    <3>4. Done' >= 0 /\ Whole(Done') /\ copied' = 0
      BY <1>1, <1>2, <2>5 DEF IInv, CallbackInv
    <3> QED  BY <2>2, <3>2, <3>3, <3>4 DEF CallbackInv, Whole
  <2>7. IndexInv' /\ ContentInv' /\ DropInv' /\ ReadInv'
    <3>1. RingKept /\ UNCHANGED dropped
      BY <1>1 DEF RingKept, ring, At
    <3> QED  BY <1>1, <2>1, <2>5, <3>1, CallbackSteps
  <2>8. TypeOK'
    BY <1>1, <2>1, <2>3, <2>4 DEF IInv, TypeOK, ring, loop, history
  <2> QED  BY <2>6, <2>7, <2>8 DEF IInv
<1> QED  BY <1>4, <1>5

\* Write begins: there is room for the frame, or it is dropped whole (Write).
LEMMA LoadReadKeeps == ASSUME PathAssumption, IInv, LoadRead PROVE IInv'
<1>1. /\ producer = "load" /\ InHand /\ copied = 0 /\ copied' = 0
      /\ UNCHANGED <<buf, w, r, recorded, pending, loop, heard>>
  BY DEF LoadRead, IInv, CallbackInv, InHand
<1>2. /\ w \in Nat /\ r \in Nat /\ Done \in Nat /\ FrameSamples \in Nat \ {0} /\ Capacity \in Nat
      /\ Len(pending) \in Nat /\ recorded \in Nat /\ recorded <= MaxSamples
      /\ Done + Len(pending) + FrameSamples = recorded
  BY <1>1, DoneType, CapacityType DEF IInv, TypeOK
<1>3. RingKept
  BY <1>1 DEF RingKept, At
<1>4. CASE Free
  <2>1. producer' = "copy" /\ UNCHANGED <<dropped, newest, lost, frame>>
    BY <1>4 DEF LoadRead
  <2>2. InHand' /\ Done' = Done
    BY <1>1, <2>1 DEF InHand, Done
  <2>3. CallbackInv'
    BY <1>1, <2>1, <2>2 DEF IInv, CallbackInv, Whole
  <2>4. w + FrameSamples <= r + Capacity
    BY <1>2, <1>4 DEF Free
  <2>5. IndexInv' /\ ContentInv' /\ DropInv' /\ ReadInv'
    <3>1. \A i \in 0 .. copied' - 1 : At(w + i)' = Done + 1 + i
      BY <1>1
    <3> QED  BY <1>1, <1>3, <2>1, <2>2, <2>4, <3>1, CallbackSteps DEF history
  <2>6. TypeOK'
    BY <1>1, <2>1 DEF IInv, TypeOK, loop
  <2> QED  BY <2>3, <2>5, <2>6 DEF IInv
<1>5. CASE ~Free
  <2>1. /\ dropped' = dropped + FrameSamples
        /\ newest' = [newest EXCEPT !.dropped = frame[FrameSamples]]
        /\ lost' = lost \cup {frame[m] : m \in 1 .. FrameSamples}
        /\ frame' = <<>> /\ producer' = "cut"
    BY <1>5 DEF LoadRead
  <2>2. ~InHand'
    BY <2>1 DEF InHand
  <2>3. Done' = Done + FrameSamples
    <3>1. Done' = recorded' - Len(pending') - 0
      BY <2>2 DEF Done
    <3>2. recorded' = recorded /\ Len(pending') = Len(pending)
      BY <1>1
    <3> QED  BY <1>2, <3>1, <3>2
  <2>4. \A m \in 1 .. FrameSamples : frame[m] = Done + m /\ frame[m] \in Samples
    <3>1. frame = [m \in 1 .. FrameSamples |-> Done + m]
      BY <1>1 DEF IInv, CallbackInv
    <3>2. MaxSamples \in Nat
      BY DEF PathAssumption
    <3>3. \A m \in 1 .. FrameSamples : Done + m \in Samples
      BY <1>2, <3>2 DEF Samples
    <3> QED  BY <3>1, <3>3
  <2>5. CallbackInv'
    <3>1. Done' >= 0 /\ Whole(Done')
      BY <1>2, <2>3, WholeFrames DEF IInv, CallbackInv
    <3>2. pending' = [m \in 1 .. Len(pending') |-> recorded' - Len(pending') + m]
      BY <1>1 DEF IInv, CallbackInv
    <3> QED  BY <1>1, <2>1, <2>2, <3>1, <3>2 DEF CallbackInv, Whole
  <2>6. IndexInv'
    BY <1>1, <2>1 DEF IInv, IndexInv, Whole, loop
  <2>7. ContentInv'
    <3>1. \A n \in r .. w - 1 : At(n) \in heard + 1 .. Done'
      <4>1. \A n \in r .. w - 1 : At(n) \in heard + 1 .. Done
        BY DEF IInv, ContentInv
      <4>2. heard \in Nat
        BY DEF IInv, TypeOK
      <4> QED  BY <1>2, <2>3, <4>1, <4>2
    <3>2. \A x \in heard + 1 .. Done' : x \in lost' \/ \E n \in r .. w - 1 : At(n) = x
      <4> TAKE x \in heard + 1 .. Done'
      <4>1. heard \in Nat
        BY DEF IInv, TypeOK
      <4>2. CASE x <= Done
        <5>1. x \in heard + 1 .. Done
          BY <1>2, <2>3, <4>1, <4>2
        <5> QED  BY <2>1, <5>1 DEF IInv, ContentInv
      <4>3. CASE x > Done
        <5>1. x - Done \in 1 .. FrameSamples /\ Done + (x - Done) = x
          BY <1>2, <2>3, <4>1, <4>3
        <5>2. frame[x - Done] = x
          BY <2>4, <5>1
        <5> QED  BY <2>1, <5>1, <5>2
      <4> QED  BY <1>2, <2>3, <4>1, <4>2, <4>3
    <3>3. heard <= Done'
      BY <1>2, <2>3 DEF IInv, ContentInv, TypeOK
    <3>4. \A n \in r .. w - 1 :
            Whole(n) => Whole(At(n) - 1) /\ \A i \in 0 .. FrameSamples - 1 : At(n + i) = At(n) + i
      BY DEF IInv, ContentInv
    <3>5. \A m, n \in r .. w - 1 : m < n => At(m) < At(n)
      BY DEF IInv, ContentInv
    <3>6. \A n : At(n)' = At(n) /\ Whole(n)' = Whole(n)
      BY <1>1 DEF At, Whole
    <3> QED  BY <1>1, <2>1, <3>1, <3>2, <3>3, <3>4, <3>5 DEF ContentInv, At
  <2>8. newest'.seen = newest.seen /\ newest'.dropped = Done'
    <3>1. newest'.seen = newest.seen /\ newest'.dropped = frame[FrameSamples]
      BY <2>1 DEF IInv, TypeOK
    <3>2. frame[FrameSamples] = Done + FrameSamples
      BY <1>2, <2>4
    <3> QED  BY <2>3, <3>1, <3>2
  <2>9. DropInv'
    <3>1. newest.seen \in Nat /\ newest.dropped \in Nat /\ dropped \in Nat /\ lastDropped \in Nat
      BY DEF IInv, TypeOK
    <3>2. newest.seen <= newest.dropped /\ newest.dropped <= Done /\ lastDropped <= dropped
      BY DEF IInv, DropInv
    <3>3. lastDropped' = lastDropped /\ dsp' = dsp /\ end' = end
      BY <1>1 DEF loop
    <3>4. lastDropped' <= dropped' /\ dropped' # lastDropped' /\ newest'.seen <= newest'.dropped
      BY <1>2, <2>1, <2>3, <2>8, <3>1, <3>2, <3>3
    <3>5. newest'.dropped <= Done'
      BY <1>2, <2>3, <2>8
    <3>6. /\ dsp \notin {"drain", "jump"} => \A n \in r .. w - 1 : At(n) > newest.seen
          /\ dsp = "jump" => \A n \in end .. w - 1 : At(n) > newest.seen
      BY DEF IInv, DropInv
    <3> QED  BY <1>1, <2>8, <3>3, <3>4, <3>5, <3>6 DEF DropInv, At
  <2>10. ReadInv'
    BY <1>1 DEF IInv, ReadInv, At, loop
  <2>11. TypeOK'
    <3>1. newest' \in [dropped : 0 .. MaxSamples, seen : 0 .. MaxSamples]
      <4>1. frame[FrameSamples] \in 0 .. MaxSamples
        BY <1>2, <2>4 DEF Samples
      <4> QED  BY <2>1, <4>1 DEF IInv, TypeOK
    <3>2. lost' \subseteq Samples
      BY <2>1, <2>4 DEF IInv, TypeOK
    <3>3. dropped' \in Nat
      <4>1. dropped \in Nat /\ dropped' = dropped + FrameSamples
        BY <2>1 DEF IInv, TypeOK
      <4> QED  BY <1>2, <4>1
    <3>4. frame' \in Seq(Samples)
      BY <2>1
    <3> QED  BY <1>1, <2>1, <3>1, <3>2, <3>3, <3>4 DEF IInv, TypeOK, loop
  <2> QED  BY <2>5, <2>6, <2>7, <2>9, <2>10, <2>11 DEF IInv
<1> QED  BY <1>4, <1>5

\* A sample is copied to a slot behind all that is still to be read (Write).
LEMMA CopyInKeeps == ASSUME PathAssumption, IInv, CopyIn PROVE IInv'
<1>1. /\ producer = "copy" /\ copied # FrameSamples
      /\ buf' = [buf EXCEPT ![Slot(w + copied)] = frame[copied + 1]] /\ copied' = copied + 1
      /\ UNCHANGED <<w, r, dropped, recorded, pending, producer, frame, loop, history>>
  BY DEF CopyIn, Complete
<1>2. /\ w \in Nat /\ r \in Nat /\ Done \in Nat /\ FrameSamples \in Nat \ {0} /\ Capacity \in Nat
      /\ r <= w /\ w + FrameSamples <= r + Capacity /\ copied \in 0 .. FrameSamples - 1
      /\ Len(pending) \in Nat /\ recorded \in Nat
  <2>1. copied \in 0 .. FrameSamples /\ FrameSamples \in Nat \ {0}
    BY CapacityType DEF IInv, TypeOK
  <2>2. copied \in 0 .. FrameSamples - 1
    BY <1>1, <2>1
  <2>3. Done \in Nat /\ Len(pending) \in Nat
    <3>1. Done \in 0 .. MaxSamples /\ Len(pending) \in Nat
      BY DoneType DEF IInv
    <3> QED  BY <3>1
  <2>4. /\ w \in Nat /\ r \in Nat /\ r <= w /\ recorded \in Nat /\ Capacity \in Nat
        /\ w + FrameSamples <= r + Capacity
    BY <1>1, CapacityType DEF IInv, TypeOK, IndexInv
  <2> QED  BY <2>1, <2>2, <2>3, <2>4
<1>3. InHand /\ InHand' /\ Done' = Done
  BY <1>1 DEF InHand, Done
<1>4. frame[copied + 1] = Done + 1 + copied /\ frame[copied + 1] \in Samples
  <2>1. frame = [m \in 1 .. FrameSamples |-> Done + m]
    BY <1>3 DEF IInv, CallbackInv
  <2>2. copied + 1 \in 1 .. FrameSamples
    BY <1>2
  <2>3. frame[copied + 1] = Done + (copied + 1)
    BY <2>1, <2>2
  <2>4. Done + (copied + 1) \in 1 .. MaxSamples
    <3>1. Done + Len(pending) + FrameSamples = recorded /\ recorded <= MaxSamples /\ MaxSamples \in Nat
      BY <1>3, DoneType DEF IInv, TypeOK, PathAssumption
    <3> QED  BY <1>2, <3>1
  <2> QED  BY <1>2, <2>3, <2>4 DEF Samples
<1>5. /\ buf \in [0 .. Capacity - 1 -> {Nothing} \cup Samples]
      /\ Slot(w + copied) \in 0 .. Capacity - 1
  <2>1. w + copied \in Nat
    BY <1>2
  <2> QED  BY <2>1, SlotType DEF IInv, TypeOK
<1>6. buf'[Slot(w + copied)] = Done + 1 + copied
  BY <1>1, <1>4, <1>5
<1>7. ASSUME NEW n \in r .. w + copied - 1 PROVE At(n)' = At(n)
  <2>1. n \in Nat /\ w + copied \in Nat /\ n < w + copied /\ w + copied < n + Capacity
    BY <1>2
  <2>2. Slot(n) # Slot(w + copied) /\ Slot(n) \in 0 .. Capacity - 1
    BY <2>1, SlotsDiffer, SlotType
  <2> QED  BY <1>1, <1>5, <2>2 DEF At
<1>8. RingKept
  <2>1. \A n \in r .. w - 1 : n \in r .. w + copied - 1
    BY <1>2
  <2> QED  BY <1>1, <1>7, <2>1 DEF RingKept
<1>9. \A i \in 0 .. copied' - 1 : At(w + i)' = Done + 1 + i
  <2> TAKE i \in 0 .. copied' - 1
  <2>1. i \in 0 .. copied
    BY <1>1, <1>2
  <2>2. CASE i = copied
    BY <1>1, <1>6, <2>2 DEF At
  <2>3. CASE i # copied
    <3>1. i \in 0 .. copied - 1 /\ w + i \in r .. w + copied - 1
      BY <1>2, <2>1, <2>3
    <3>2. At(w + i) = Done + 1 + i
      BY <1>1, <3>1 DEF IInv, ContentInv
    <3>3. \A n \in r .. w + copied - 1 : buf'[Slot(n)] = buf[Slot(n)]
      BY <1>7 DEF At
    <3>4. buf'[Slot(w + i)] = buf[Slot(w + i)]
      BY <3>1, <3>3
    <3> QED  BY <1>1, <3>2, <3>4 DEF At
  <2> QED  BY <2>2, <2>3
<1>10. IndexInv' /\ ContentInv' /\ DropInv' /\ ReadInv'
  BY <1>1, <1>2, <1>3, <1>8, <1>9, CallbackSteps
<1>11. CallbackInv'
  <2>1. producer' = "copy" /\ frame' = frame /\ recorded' = recorded /\ pending' = pending
    BY <1>1
  <2> QED  BY <1>3, <2>1 DEF IInv, CallbackInv, Whole
<1>12. TypeOK'
  <2>1. buf' \in [0 .. Capacity - 1 -> {Nothing} \cup Samples]
    BY <1>1, <1>4, <1>5
  <2>2. copied' \in 0 .. FrameSamples
    BY <1>1, <1>2
  <2> QED  BY <1>1, <2>1, <2>2 DEF IInv, TypeOK, loop, history
<1> QED  BY <1>10, <1>11, <1>12 DEF IInv

\* The index is stored behind a frame whose every sample is there (Write).
LEMMA StoreWriteKeeps == ASSUME PathAssumption, IInv, StoreWrite PROVE IInv'
<1> DEFINE F == FrameSamples
<1>1. /\ producer = "copy" /\ copied = F /\ w' = w + F
      /\ producer' = "cut" /\ frame' = <<>> /\ copied' = 0
      /\ UNCHANGED <<buf, r, dropped, recorded, pending, loop, history>>
  BY DEF StoreWrite, Complete
<1>2. /\ w \in Nat /\ r \in Nat /\ F \in Nat \ {0} /\ heard \in Nat
      /\ r <= w /\ w + F <= r + Capacity /\ Capacity \in Nat /\ Whole(w) /\ Whole(r)
  BY <1>1, CapacityType DEF IInv, TypeOK, IndexInv
<1>3. InHand /\ ~InHand'
  BY <1>1 DEF InHand
<1>4. Done \in Nat /\ Len(pending) \in Nat /\ recorded \in Nat /\ recorded <= MaxSamples /\ Done + Len(pending) + F = recorded
  <2>1. Done \in 0 .. MaxSamples /\ Len(pending) \in Nat
    BY DoneType DEF IInv
  <2>2. Done + Len(pending) + F = recorded
    BY <1>3, DoneType DEF IInv
  <2>3. recorded \in 0 .. MaxSamples /\ MaxSamples \in Nat
    BY DEF IInv, TypeOK, PathAssumption
  <2> QED  BY <2>1, <2>2, <2>3
<1>5. Done' = Done + F
  <2>1. Done' = recorded' - Len(pending') - 0
    BY <1>3 DEF Done
  <2>2. recorded' = recorded /\ Len(pending') = Len(pending)
    BY <1>1
  <2> QED  BY <1>2, <1>4, <2>1, <2>2
<1>6. \A n : At(n)' = At(n) /\ (Whole(n)' <=> Whole(n))
  BY <1>1 DEF At, Whole
<1>7. \A n \in w .. w + F - 1 : At(n) = Done + 1 + (n - w)
  <2> TAKE n \in w .. w + F - 1
  <2>1. n - w \in 0 .. copied - 1 /\ w + (n - w) = n
    BY <1>1, <1>2
  <2>2. At(w + (n - w)) = Done + 1 + (n - w)
    BY <1>1, <2>1 DEF IInv, ContentInv
  <2> QED  BY <2>1, <2>2
<1>8. \A n \in r .. w + F - 1 : n \in r .. w - 1 \/ n \in w .. w + F - 1
  BY <1>2
<1>9. CallbackInv'
  <2>1. Done' >= 0 /\ Whole(Done')
    BY <1>2, <1>4, <1>5, WholeFrames DEF IInv, CallbackInv
  <2>2. pending' = [m \in 1 .. Len(pending') |-> recorded' - Len(pending') + m]
    BY <1>1 DEF IInv, CallbackInv
  <2> QED  BY <1>1, <1>3, <2>1, <2>2 DEF CallbackInv, Whole
<1>10. IndexInv'
  <2>1. Whole(w + F) /\ w + F \in Nat /\ r <= w + F
    BY <1>2, WholeFrames
  <2>2. dsp = "jump" => r <= end /\ end <= w /\ Whole(end) /\ end \in Nat
    BY DEF IInv, IndexInv, TypeOK
  <2>3. dsp = "jump" => end <= w + F
    BY <1>2, <2>2
  <2>4. /\ w' = w + F /\ r' = r /\ producer' = "cut" /\ dsp' = dsp /\ end' = end
    BY <1>1 DEF loop
  <2> QED  BY <1>2, <2>1, <2>2, <2>3, <2>4 DEF IndexInv, Whole
<1>11. ContentInv'
  <2>1. \A n \in r .. w - 1 : At(n) \in heard + 1 .. Done
    BY DEF IInv, ContentInv
  <2>2. heard <= Done
    BY DEF IInv, ContentInv
  <2>3. \A n \in r .. w + F - 1 : At(n) \in heard + 1 .. Done + F
    <3> TAKE n \in r .. w + F - 1
    <3>1. CASE n \in r .. w - 1
      BY <1>2, <1>4, <2>1, <3>1
    <3>2. CASE n \in w .. w + F - 1
      <4>1. At(n) = Done + 1 + (n - w) /\ n - w \in 0 .. F - 1
        BY <1>2, <1>7, <3>2
      <4> QED  BY <1>2, <1>4, <2>2, <4>1
    <3> QED  BY <1>8, <3>1, <3>2
  <2>4. \A m, n \in r .. w + F - 1 : m < n => At(m) < At(n)
    <3> SUFFICES ASSUME NEW m \in r .. w + F - 1, NEW n \in r .. w + F - 1, m < n PROVE At(m) < At(n)
      OBVIOUS
    <3>1. CASE n \in r .. w - 1
      <4>1. m \in r .. w - 1
        BY <1>2, <3>1
      <4> QED  BY <3>1, <4>1 DEF IInv, ContentInv
    <3>2. CASE n \in w .. w + F - 1 /\ m \in r .. w - 1
      <4>1. At(n) = Done + 1 + (n - w) /\ n - w \in Nat
        BY <1>2, <1>7, <3>2
      <4>2. At(m) \in heard + 1 .. Done
        BY <2>1, <3>2
      <4> QED  BY <1>2, <1>4, <4>1, <4>2
    <3>3. CASE n \in w .. w + F - 1 /\ m \in w .. w + F - 1
      <4>1. At(n) = Done + 1 + (n - w) /\ At(m) = Done + 1 + (m - w)
        BY <1>7, <3>3
      <4> QED  BY <1>2, <1>4, <4>1
    <3> QED  BY <1>8, <3>1, <3>2, <3>3
  <2>5. \A n \in r .. w + F - 1 : Whole(n) => Whole(At(n) - 1) /\ \A i \in 0 .. F - 1 : At(n + i) = At(n) + i
    <3> SUFFICES ASSUME NEW n \in r .. w + F - 1, Whole(n)
                 PROVE  Whole(At(n) - 1) /\ \A i \in 0 .. F - 1 : At(n + i) = At(n) + i
      OBVIOUS
    <3>1. CASE n \in r .. w - 1
      BY <3>1 DEF IInv, ContentInv
    <3>2. CASE n \in w .. w + F - 1
      <4>1. n = w
        BY <1>2, <3>2, WholeFrames
      <4>2. \A i \in 0 .. F - 1 : At(w + i) = Done + 1 + i
        BY <1>1 DEF IInv, ContentInv
      <4>3. At(w) = Done + 1
        <5>1. At(w + 0) = Done + 1 + 0 /\ w + 0 = w
          BY <1>2, <4>2
        <5> QED  BY <1>4, <5>1
      <4>4. At(w) - 1 = Done
        BY <1>4, <4>3
      <4>5. Whole(Done)
        BY DEF IInv, CallbackInv
      <4> QED  BY <4>1, <4>2, <4>3, <4>4, <4>5
    <3> QED  BY <1>8, <3>1, <3>2
  <2>6. \A x \in heard + 1 .. Done + F : x \in lost \/ \E n \in r .. w + F - 1 : At(n) = x
    <3> TAKE x \in heard + 1 .. Done + F
    <3>1. CASE x <= Done
      <4>1. x \in heard + 1 .. Done
        BY <1>2, <1>4, <3>1
      <4>2. x \in lost \/ \E n \in r .. w - 1 : At(n) = x
        BY <4>1 DEF IInv, ContentInv
      <4>3. \A n \in r .. w - 1 : n \in r .. w + F - 1
        BY <1>2
      <4> QED  BY <4>2, <4>3
    <3>2. CASE x > Done
      <4> DEFINE n == w + (x - Done - 1)
      <4>1. n \in w .. w + F - 1 /\ n \in r .. w + F - 1 /\ Done + 1 + (n - w) = x
        BY <1>2, <1>4, <3>2
      <4>2. At(n) = x
        BY <1>7, <4>1
      <4> QED  BY <4>1, <4>2
    <3> QED  BY <1>2, <1>4, <3>1, <3>2
  <2>7. heard' = heard /\ lost' = lost /\ r' = r /\ heard <= Done + F
    BY <1>1, <1>2, <1>4, <2>2 DEF history
  <2>8. producer' # "copy" /\ w' = w + F
    BY <1>1
  <2>9. buf' = buf
    BY <1>1
  <2>10. heard' <= Done' /\ \A n \in r' .. w' - 1 : At(n)' \in heard' + 1 .. Done'
    BY <1>2, <1>4, <1>5, <2>3, <2>7, <2>8, <2>9 DEF At
  <2>11. \A m, n \in r' .. w' - 1 : m < n => At(m)' < At(n)'
    BY <1>2, <1>4, <2>4, <2>7, <2>8, <2>9 DEF At
  <2>12. \A n \in r' .. w' - 1 :
           Whole(n) => Whole(At(n)' - 1) /\ \A i \in 0 .. F - 1 : At(n + i)' = At(n)' + i
    BY <1>2, <1>4, <2>5, <2>7, <2>8, <2>9 DEF At
  <2>13. \A x \in heard' + 1 .. Done' : x \in lost' \/ \E n \in r' .. w' - 1 : At(n)' = x
    BY <1>2, <1>4, <1>5, <2>6, <2>7, <2>8, <2>9 DEF At
  <2> QED  BY <2>8, <2>10, <2>11, <2>12, <2>13 DEF ContentInv, At, Whole
<1>12. DropInv'
  <2>1. /\ newest.seen \in Nat /\ newest.dropped \in Nat
        /\ newest.seen <= newest.dropped /\ newest.dropped <= Done
        /\ dsp \notin {"drain", "jump"} => \A n \in r .. w - 1 : At(n) > newest.seen
        /\ dsp = "jump" => \A n \in end .. w - 1 : At(n) > newest.seen
        /\ dsp = "jump" => end \in Nat /\ r <= end
    BY DEF IInv, DropInv, TypeOK, IndexInv
  <2>2. \A n \in w .. w + F - 1 : At(n) > newest.seen
    <3> TAKE n \in w .. w + F - 1
    <3>1. At(n) = Done + 1 + (n - w) /\ n - w \in Nat
      BY <1>2, <1>7
    <3> QED  BY <1>4, <2>1, <3>1
  <2>3. dsp \notin {"drain", "jump"} => \A n \in r .. w + F - 1 : At(n) > newest.seen
    BY <1>8, <2>1, <2>2
  <2>4. dsp = "jump" => \A n \in end .. w + F - 1 : At(n) > newest.seen
    <3> SUFFICES ASSUME dsp = "jump", NEW n \in end .. w + F - 1 PROVE At(n) > newest.seen
      OBVIOUS
    <3>1. n \in end .. w - 1 \/ n \in w .. w + F - 1
      BY <1>2, <2>1
    <3> QED  BY <2>1, <2>2, <3>1
  <2>5. newest.dropped <= Done + F
    BY <1>2, <1>4, <2>1
  <2>6. newest' = newest /\ dsp' = dsp /\ end' = end /\ lastDropped' = lastDropped /\ dropped' = dropped
        /\ w' = w + F /\ r' = r
    BY <1>1 DEF loop, history
  <2>7. /\ lastDropped <= dropped /\ newest.seen <= newest.dropped
        /\ dropped = lastDropped => newest.seen = newest.dropped
    BY DEF IInv, DropInv
  <2>8. buf' = buf
    BY <1>1
  <2>9. /\ dsp' \notin {"drain", "jump"} => \A n \in r' .. w' - 1 : At(n)' > newest'.seen
        /\ dsp' = "jump" => \A n \in end' .. w' - 1 : At(n)' > newest'.seen
    BY <1>2, <1>4, <2>3, <2>4, <2>6, <2>8 DEF At
  <2>10. /\ lastDropped' <= dropped' /\ newest'.seen <= newest'.dropped /\ newest'.dropped <= Done'
         /\ dropped' = lastDropped' => newest'.seen = newest'.dropped
    BY <1>5, <2>5, <2>6, <2>7
  <2> QED  BY <2>9, <2>10 DEF DropInv
<1>13. ReadInv'
  <2>1. w' = w + F /\ r' = r /\ UNCHANGED loop
    BY <1>1
  <2>2. /\ frames \in Nat /\ want \in Nat /\ F * frames \in Nat
    BY <1>2 DEF IInv, TypeOK, PathAssumption
  <2>3. /\ r + F * frames <= w => r + F * frames <= w + F
        /\ r + want <= w => r + want <= w + F
    BY <1>2, <2>2
  <2>4. \A n : At(n)' = At(n)
    BY <1>6
  <2> QED  BY <2>1, <2>3, <2>4 DEF IInv, ReadInv, loop, At
<1>14. TypeOK'
  <2>1. w' \in Nat /\ copied' \in 0 .. F /\ frame' \in Seq(Samples)
    BY <1>1, <1>2
  <2> QED  BY <1>1, <2>1 DEF IInv, TypeOK, loop, history
<1> QED  BY <1>9, <1>10, <1>11, <1>12, <1>13, <1>14 DEF IInv

(***************************************************************************)
(* The DSP goroutine                                                       *)
(***************************************************************************)

\* The goroutine touches nothing of the callback's (dspLoop).
LEMMA LoopFrames ==
  ASSUME PathAssumption, IInv, UNCHANGED <<buf, w, callback>>
  PROVE  /\ Done' = Done /\ CallbackInv'
         /\ UNCHANGED <<r, heard, lost>> => ContentInv'
         /\ r' = r /\ dsp' # "jump" => IndexInv'
<1>1. Done' = Done /\ (InHand' <=> InHand)
  BY DEF Done, InHand, callback
<1>2. CallbackInv'
  BY <1>1 DEF IInv, CallbackInv, Whole, callback
<1>3. ASSUME UNCHANGED <<r, heard, lost>> PROVE ContentInv'
  <2>1. producer' = producer /\ copied' = copied
    BY DEF callback
  <2> QED  BY <1>1, <1>3, <2>1 DEF IInv, ContentInv, At, Whole
<1>4. ASSUME r' = r, dsp' # "jump" PROVE IndexInv'
  <2>1. producer' = producer
    BY DEF callback
  <2> QED  BY <1>4, <2>1 DEF IInv, IndexInv, Whole
<1> QED  BY <1>1, <1>2, <1>3, <1>4

\* A drop that is new starts a drain (dspLoop).
LEMMA TickKeeps == ASSUME PathAssumption, IInv, Tick PROVE IInv'
<1>1. /\ dsp = "idle" /\ dsp' \in {"drain", "plan"} /\ (dropped = lastDropped => dsp' = "plan")
      /\ (dropped # lastDropped => dsp' = "drain")
      /\ lastDropped' = dropped /\ newest' = [newest EXCEPT !.seen = newest.dropped]
      /\ UNCHANGED <<ring, callback, end, frames, present, inFrame, want, heard, lost>>
  BY DEF Tick
<1>2. CallbackInv' /\ ContentInv' /\ IndexInv' /\ Done' = Done
  BY <1>1, LoopFrames DEF ring
<1>3. newest' \in [dropped : 0 .. MaxSamples, seen : 0 .. MaxSamples]
      /\ newest'.seen = newest.dropped /\ newest'.dropped = newest.dropped
  BY <1>1 DEF IInv, TypeOK
<1>4. DropInv'
  <2>1. newest'.dropped <= Done' /\ newest'.seen <= newest'.dropped /\ newest'.seen = newest'.dropped
    BY <1>2, <1>3 DEF IInv, DropInv
  <2>2. dropped' = dropped /\ dropped \in Nat /\ lastDropped' <= dropped'
    BY <1>1 DEF IInv, TypeOK, ring
  <2>3. dsp' \notin {"drain", "jump"} => \A n \in r .. w - 1 : At(n) > newest'.seen
    BY <1>1, <1>3 DEF IInv, DropInv
  <2>4. dsp' # "jump" /\ r' = r /\ w' = w /\ buf' = buf
    BY <1>1 DEF ring
  <2> QED  BY <2>1, <2>2, <2>3, <2>4 DEF DropInv, At
<1>5. ReadInv'
  BY <1>1 DEF IInv, ReadInv, At, ring
<1>6. TypeOK'
  BY <1>1, <1>3 DEF IInv, TypeOK, ring, callback
<1> QED  BY <1>2, <1>4, <1>5, <1>6 DEF IInv

\* Drain: the goroutine loads how far the callback is, and goes there (Drain).
LEMMA LoadWriteKeeps == ASSUME PathAssumption, IInv, LoadWrite PROVE IInv'
<1>1. /\ dsp = "drain" /\ dsp' = "jump" /\ end' = w
      /\ UNCHANGED <<ring, callback, lastDropped, frames, present, inFrame, want, history>>
  BY DEF LoadWrite, DrainsTo
<1>2. CallbackInv' /\ ContentInv' /\ Done' = Done
  BY <1>1, LoopFrames DEF ring, history
<1>3. w \in Nat /\ r \in Nat
  BY DEF IInv, TypeOK
<1>4. IndexInv'
  BY <1>1, <1>3 DEF IInv, IndexInv, Whole, ring, callback
<1>5. DropInv'
  <2>1. \A n \in end' .. w' - 1 : FALSE
    BY <1>1, <1>3 DEF ring
  <2> QED  BY <1>1, <1>2, <2>1 DEF IInv, DropInv, ring, history
<1>6. ReadInv'
  BY <1>1 DEF IInv, ReadInv, At, ring
<1>7. TypeOK'
  BY <1>1, <1>3 DEF IInv, TypeOK, ring, callback, history
<1> QED  BY <1>2, <1>4, <1>5, <1>6, <1>7 DEF IInv

\* What it leaps over is lost (Drain).
LEMMA JumpKeeps == ASSUME PathAssumption, IInv, Jump PROVE IInv'
<1>1. /\ dsp = "jump" /\ dsp' = "plan" /\ r' = end /\ end' = 0
      /\ lost' = lost \cup {buf[Slot(n)] : n \in r .. end - 1}
      /\ UNCHANGED <<buf, w, dropped, callback, lastDropped, frames, present, inFrame, want, newest, heard>>
  BY DEF Jump
<1>2. /\ w \in Nat /\ r \in Nat /\ end \in Nat /\ r <= end /\ end <= w /\ Whole(end)
      /\ heard \in Nat /\ Capacity \in Nat
  BY <1>1, CapacityType DEF IInv, TypeOK, IndexInv
<1>3. Done' = Done /\ CallbackInv' /\ Done \in 0 .. MaxSamples
  <2>1. UNCHANGED <<buf, w, callback>>
    BY <1>1
  <2>2. Done \in 0 .. MaxSamples
    BY DoneType DEF IInv
  <2> QED  BY <2>1, <2>2, LoopFrames
<1>4. IndexInv'
  <2>1. /\ w' = w /\ producer' = producer /\ w <= r + Capacity
        /\ producer = "copy" => w + FrameSamples <= r + Capacity
    BY <1>1 DEF IInv, IndexInv, callback
  <2>2. w <= end + Capacity
    BY <1>2, <2>1
  <2>3. producer = "copy" => w + FrameSamples <= end + Capacity
    BY <1>2, <2>1, CapacityType
  <2>4. Whole(w)
    BY DEF IInv, IndexInv
  <2> QED  BY <1>1, <1>2, <2>1, <2>2, <2>3, <2>4 DEF IndexInv, Whole
<1>5. \A n \in end .. w - 1 : n \in r .. w - 1
  BY <1>2
<1>6. \A n \in r .. w - 1 : n \in r .. end - 1 \/ n \in end .. w - 1
  BY <1>2
<1>7. ContentInv'
  <2>1. \A n \in end .. w - 1 : At(n) \in heard + 1 .. Done
    BY <1>5 DEF IInv, ContentInv
  <2>2. \A m, n \in end .. w - 1 : m < n => At(m) < At(n)
    BY <1>5 DEF IInv, ContentInv
  <2>3. \A n \in end .. w - 1 :
          Whole(n) => Whole(At(n) - 1) /\ \A i \in 0 .. FrameSamples - 1 : At(n + i) = At(n) + i
    BY <1>5 DEF IInv, ContentInv
  <2>4. producer = "copy" => \A i \in 0 .. copied - 1 : At(w + i) = Done + 1 + i
    BY DEF IInv, ContentInv
  <2>5. \A x \in heard + 1 .. Done : x \in lost' \/ \E n \in end .. w - 1 : At(n) = x
    <3> TAKE x \in heard + 1 .. Done
    <3>1. x \in lost \/ \E n \in r .. w - 1 : At(n) = x
      BY DEF IInv, ContentInv
    <3>2. ASSUME NEW n \in r .. end - 1, At(n) = x PROVE x \in lost'
      BY <1>1, <3>2 DEF At
    <3> QED  BY <1>1, <1>6, <3>1, <3>2
  <2>6. heard <= Done
    BY DEF IInv, ContentInv
  <2>7. r' = end /\ w' = w /\ heard' = heard /\ producer' = producer /\ copied' = copied /\ buf' = buf
    BY <1>1 DEF callback
  <2> QED  BY <1>3, <2>1, <2>2, <2>3, <2>4, <2>5, <2>6, <2>7 DEF ContentInv, At, Whole
<1>8. DropInv'
  <2>1. \A n \in end .. w - 1 : At(n) > newest.seen
    BY <1>1 DEF IInv, DropInv
  <2> QED  BY <1>1, <1>3, <2>1 DEF IInv, DropInv, At
<1>9. ReadInv'
  BY <1>1 DEF IInv, ReadInv
<1>10. TypeOK'
  <2>1. lost' \subseteq Samples
    <3>1. \A n \in r .. end - 1 : n \in r .. w - 1
      BY <1>2
    <3>2. \A n \in r .. end - 1 : buf[Slot(n)] \in heard + 1 .. Done
      BY <3>1 DEF IInv, ContentInv, At
    <3>3. \A n \in r .. end - 1 : buf[Slot(n)] \in Samples
      BY <1>2, <1>3, <3>2 DEF Samples, PathAssumption
    <3> QED  BY <1>1, <3>3 DEF IInv, TypeOK
  <2> QED  BY <1>1, <1>2, <2>1 DEF IInv, TypeOK, callback
<1> QED  BY <1>3, <1>4, <1>7, <1>8, <1>9, <1>10 DEF IInv

\* The invariant over a step that moves nothing but the reading of a frame.
LEMMA ReadingKeeps ==
  ASSUME PathAssumption, IInv,
         UNCHANGED <<ring, callback, lastDropped, end, history>>,
         dsp \in {"plan", "read", "copy"}, dsp' \in {"read", "copy", "store"}, ReadInv',
         frames' \in 0 .. MaxCatchUpFrames + 1, present' \in 0 .. MaxCatchUpFrames + 1,
         inFrame' \in Seq({Nothing} \cup Samples), want' \in 0 .. FrameSamples
  PROVE  IInv'
<1>1. CallbackInv' /\ ContentInv' /\ IndexInv' /\ Done' = Done
  BY LoopFrames DEF ring, history
<1>2. DropInv'
  BY <1>1 DEF IInv, DropInv, At, ring, history
<1>3. TypeOK'
  BY DEF IInv, TypeOK, ring, callback, history
<1> QED  BY <1>1, <1>2, <1>3 DEF IInv

\* A catch-up plans no more frames than are there, or one of silence (dspLoop).
LEMMA PlanKeeps == ASSUME PathAssumption, IInv, Plan PROVE IInv'
<1> DEFINE available == (w - r) \div FrameSamples
<1>1. /\ dsp = "plan" /\ dsp' = "read" /\ frames' = Plans(available) /\ present' = Within(available)
      /\ UNCHANGED <<ring, callback, lastDropped, end, inFrame, want, history>>
  BY DEF Plan
<1>2. /\ w \in Nat /\ r \in Nat /\ w - r \in Nat /\ FrameSamples \in Nat \ {0}
      /\ MaxCatchUpFrames \in Nat
  BY CapacityType DEF IInv, TypeOK, IndexInv, PathAssumption
<1>3. available \in Nat /\ FrameSamples * available <= w - r
  <2>1. w - r = FrameSamples * available + ((w - r) % FrameSamples)
    BY <1>2, Division
  <2>2. available \in Nat /\ (w - r) % FrameSamples \in Nat
    BY <1>2, Division
  <2> QED  BY <1>2, <2>1, <2>2
<1> HIDE DEF available
<1>4. /\ Within(available) \in 0 .. MaxCatchUpFrames + 1 /\ Within(available) <= available
      /\ available # 0 => Within(available) > 0
  BY <1>2, <1>3 DEF Within
<1>5. /\ frames' \in 1 .. MaxCatchUpFrames + 1 /\ present' \in 0 .. MaxCatchUpFrames + 1
      /\ present' > 0 => frames' = Within(available)
  BY <1>1, <1>2, <1>3, <1>4 DEF Plans, Within
<1>6. FrameSamples * Within(available) <= FrameSamples * available
  <2>1. CASE Within(available) = available
    BY <1>2, <1>3, <2>1
  <2>2. CASE Within(available) # available
    <3>1. FrameSamples * Within(available) + FrameSamples <= FrameSamples * available
      BY <1>2, <1>3, <1>4, <2>2, Multiples
    <3>2. FrameSamples * Within(available) \in Int /\ FrameSamples * available \in Int
      BY <1>2, <1>3, <1>4
    <3> QED  BY <1>2, <3>1, <3>2
  <2> QED  BY <2>1, <2>2
<1>7. present' > 0 => r + FrameSamples * frames' <= w
  <2> SUFFICES ASSUME present' > 0 PROVE r + FrameSamples * frames' <= w
    OBVIOUS
  <2>1. frames' = Within(available)
    BY <1>5
  <2>2. FrameSamples * Within(available) \in Int
    BY <1>2, <1>4
  <2>3. r + FrameSamples * Within(available) <= w
    BY <1>2, <1>3, <1>6, <2>2
  <2> QED  BY <2>1, <2>3
<1>8. inFrame = <<>> /\ want = 0
  BY <1>1 DEF IInv, ReadInv
<1>9. ReadInv'
  <2>1. frames' > 0 /\ r' = r /\ w' = w
    BY <1>1, <1>5 DEF ring
  <2>2. inFrame' = <<>> /\ want' = 0
    BY <1>1, <1>8
  <2> QED  BY <1>1, <1>7, <2>1, <2>2 DEF ReadInv
<1>10. inFrame' \in Seq({Nothing} \cup Samples) /\ want' \in 0 .. FrameSamples
  BY <1>1, <1>2, <1>8
<1>11. frames' \in 0 .. MaxCatchUpFrames + 1
  BY <1>2, <1>5
<1> QED  BY <1>1, <1>5, <1>9, <1>10, <1>11, ReadingKeeps

\* The frame to read is there whole, or nothing is (Read).
LEMMA ReadBeginsKeeps == ASSUME PathAssumption, IInv, ReadBegins PROVE IInv'
<1>1. /\ dsp = "read" /\ dsp' = "copy" /\ want' = IF w - r < FrameSamples THEN w - r ELSE FrameSamples
      /\ UNCHANGED <<ring, callback, lastDropped, end, frames, present, inFrame, history>>
  BY DEF ReadBegins
<1>2. /\ w \in Nat /\ r \in Nat /\ r <= w /\ FrameSamples \in Nat \ {0} /\ Whole(r) /\ Whole(w)
      /\ frames \in Nat /\ present \in Nat
  BY CapacityType DEF IInv, TypeOK, IndexInv
<1>3. w - r < FrameSamples => w = r
  <2>1. r < w => r + FrameSamples <= w
    BY <1>2, WholeFrames
  <2> QED  BY <1>2, <2>1
<1>4. want' \in {0, FrameSamples} /\ r + want' <= w
  BY <1>1, <1>2, <1>3
<1>5. frames > 0 /\ (present > 0 => r + FrameSamples * frames <= w) /\ inFrame = <<>> /\ want = 0
  BY <1>1 DEF IInv, ReadInv
<1>6. present > 0 => want' = FrameSamples
  <2> SUFFICES ASSUME present > 0 PROVE want' = FrameSamples
    OBVIOUS
  <2>1. FrameSamples * 0 + FrameSamples <= FrameSamples * frames /\ FrameSamples * 0 = 0
    BY <1>2, <1>5, Multiples
  <2>2. FrameSamples * frames \in Int /\ r + FrameSamples * frames <= w
    BY <1>2, <1>5
  <2>3. ~(w - r < FrameSamples)
    BY <1>2, <2>1, <2>2
  <2> QED  BY <1>1, <2>3
<1>7. ReadInv'
  <2>1. /\ dsp' = "copy" /\ frames' = frames /\ present' = present /\ r' = r /\ w' = w /\ inFrame' = <<>>
    BY <1>1, <1>5 DEF ring
  <2>2. Len(inFrame') = 0 /\ Len(inFrame') <= want'
    BY <1>2, <1>4, <2>1
  <2>3. \A i \in 1 .. Len(inFrame') : FALSE
    BY <2>2
  <2> QED  BY <1>4, <1>5, <1>6, <2>1, <2>2, <2>3 DEF ReadInv
<1>8. want' \in 0 .. FrameSamples
  BY <1>2, <1>4
<1>9. /\ frames' \in 0 .. MaxCatchUpFrames + 1 /\ present' \in 0 .. MaxCatchUpFrames + 1
      /\ inFrame' \in Seq({Nothing} \cup Samples)
  BY <1>1 DEF IInv, TypeOK
<1> QED  BY <1>1, <1>7, <1>8, <1>9, ReadingKeeps

\* One sample more, as long as there is one to copy (Read).
LEMMA CopyOutKeeps == ASSUME PathAssumption, IInv, CopyOut PROVE IInv'
<1>1. dsp = "copy" /\ UNCHANGED <<ring, callback, lastDropped, end, frames, present, want, history>>
  BY DEF CopyOut
<1>2. /\ w \in Nat /\ r \in Nat /\ inFrame \in Seq({Nothing} \cup Samples) /\ Len(inFrame) \in Nat
      /\ want \in 0 .. FrameSamples /\ FrameSamples \in Nat \ {0}
  BY CapacityType, LenProperties DEF IInv, TypeOK
<1>3. /\ frames > 0 /\ (present > 0 => r + FrameSamples * frames <= w)
      /\ want \in {0, FrameSamples} /\ r + want <= w /\ (present > 0 => want = FrameSamples)
      /\ Len(inFrame) <= want
      /\ \A i \in 1 .. Len(inFrame) : inFrame[i] = At(r + i - 1)
  BY <1>1 DEF IInv, ReadInv
<1>4. /\ frames' \in 0 .. MaxCatchUpFrames + 1 /\ present' \in 0 .. MaxCatchUpFrames + 1
      /\ want' \in 0 .. FrameSamples
  BY <1>1 DEF IInv, TypeOK
<1>5. r' = r /\ w' = w /\ buf' = buf /\ frames' = frames /\ present' = present /\ want' = want
  BY <1>1 DEF ring
<1>6. CASE Len(inFrame) < want
  <2> DEFINE sample == buf[Slot(r + Len(inFrame))]
  <2>1. inFrame' = Append(inFrame, sample) /\ dsp' = "copy"
    BY <1>1, <1>6 DEF CopyOut
  <2>2. sample \in {Nothing} \cup Samples
    <3>1. r + Len(inFrame) \in Nat
      BY <1>2
    <3>2. Slot(r + Len(inFrame)) \in 0 .. Capacity - 1
      BY <3>1, SlotType
    <3> QED  BY <3>2 DEF IInv, TypeOK
  <2> HIDE DEF sample
  <2>3. /\ inFrame' \in Seq({Nothing} \cup Samples) /\ Len(inFrame') = Len(inFrame) + 1
        /\ \A i \in 1 .. Len(inFrame) : inFrame'[i] = inFrame[i]
        /\ inFrame'[Len(inFrame) + 1] = sample
    BY <1>2, <2>1, <2>2, AppendProperties
  <2>4. \A i \in 1 .. Len(inFrame') : inFrame'[i] = buf[Slot(r + i - 1)]
    <3> TAKE i \in 1 .. Len(inFrame')
    <3>1. CASE i = Len(inFrame) + 1
      <4>1. r + i - 1 = r + Len(inFrame)
        BY <1>2, <3>1
      <4> QED  BY <2>3, <3>1, <4>1 DEF sample
    <3>2. CASE i # Len(inFrame) + 1
      <4>1. i \in 1 .. Len(inFrame)
        BY <1>2, <2>3, <3>2
      <4> QED  BY <1>3, <2>3, <4>1 DEF At
    <3> QED  BY <3>1, <3>2
  <2>5. Len(inFrame') <= want
    BY <1>2, <1>6, <2>3
  <2>6. ReadInv'
    <3>1. \A i \in 1 .. Len(inFrame') : inFrame'[i] = At(r + i - 1)'
      BY <1>5, <2>4 DEF At
    <3> QED  BY <1>3, <1>5, <2>1, <2>5, <3>1 DEF ReadInv
  <2> QED  BY <1>1, <1>4, <2>1, <2>3, <2>6, ReadingKeeps
<1>7. CASE ~(Len(inFrame) < want)
  <2>1. inFrame' = inFrame /\ dsp' = "store"
    BY <1>1, <1>7 DEF CopyOut
  <2>2. Len(inFrame) = want
    BY <1>2, <1>3, <1>7
  <2>3. ReadInv'
    BY <1>3, <1>5, <2>1, <2>2 DEF ReadInv, At
  <2> QED  BY <1>1, <1>2, <1>4, <2>1, <2>3, ReadingKeeps
<1> QED  BY <1>6, <1>7

\* The frame goes to the sinks; what it leaves behind is whole, newer, and the
\* lost that are older do not matter any more (Read, dspLoop).
LEMMA StoreReadKeeps == ASSUME PathAssumption, IInv, StoreRead PROVE IInv'
<1>1. /\ dsp = "store" /\ r' = r + want /\ frames' = frames - 1
      /\ dsp' = (IF frames = 1 THEN "idle" ELSE "read")
      /\ heard' = (IF want = 0 THEN heard ELSE inFrame[want])
      /\ lost' = {n \in lost : n > heard'} /\ inFrame' = <<>> /\ want' = 0
      /\ UNCHANGED <<buf, w, dropped, callback, lastDropped, end, present, newest>>
  BY DEF StoreRead, Taken
<1>2. /\ w \in Nat /\ r \in Nat /\ FrameSamples \in Nat \ {0} /\ Capacity \in Nat /\ heard \in Nat
      /\ want \in Nat /\ frames \in Nat /\ lost \subseteq Nat /\ MaxCatchUpFrames \in Nat
      /\ MaxSamples \in Nat /\ heard <= MaxSamples
  BY CapacityType DEF IInv, TypeOK, PathAssumption, Samples
<1>3. /\ frames > 0 /\ (present > 0 => r + FrameSamples * frames <= w)
      /\ want \in {0, FrameSamples} /\ r + want <= w /\ (present > 0 => want = FrameSamples)
      /\ Len(inFrame) = want
      /\ \A i \in 1 .. Len(inFrame) : inFrame[i] = At(r + i - 1)
  BY <1>1 DEF IInv, ReadInv
<1>4. Done' = Done /\ CallbackInv' /\ Done \in 0 .. MaxSamples /\ producer' = producer /\ copied' = copied
  <2>1. UNCHANGED <<buf, w, callback>>
    BY <1>1
  <2>2. Done \in 0 .. MaxSamples
    BY DoneType DEF IInv
  <2>3. producer' = producer /\ copied' = copied
    BY <1>1 DEF callback
  <2> QED  BY <2>1, <2>2, <2>3, LoopFrames
<1>5. Whole(r + want) /\ r <= r + want /\ (want # 0 => want = FrameSamples)
  <2>1. Whole(r) /\ Whole(r + FrameSamples)
    BY <1>2, WholeFrames DEF IInv, IndexInv
  <2>2. r + 0 = r
    BY <1>2
  <2> QED  BY <1>2, <1>3, <2>1, <2>2
<1>6. \A n \in r + want .. w - 1 : n \in r .. w - 1
  BY <1>2
\* What is between the new indices is newer than what was heard just now.
<1>7. /\ heard' \in Nat /\ heard' <= Done /\ heard <= heard'
      /\ \A n \in r .. w - 1 : n \in r + want .. w - 1 <=> At(n) > heard'
  <2>1. CASE want = 0
    <3>1. heard' = heard /\ heard <= Done
      BY <1>1, <2>1 DEF IInv, ContentInv
    <3>2. \A n \in r .. w - 1 : At(n) \in heard + 1 .. Done
      BY DEF IInv, ContentInv
    <3> QED  BY <1>2, <1>4, <2>1, <3>1, <3>2
  <2>2. CASE want = FrameSamples
    <3> DEFINE l == r + FrameSamples - 1
    <3>1. l \in r .. w - 1 /\ l \in Nat
      BY <1>2, <1>3, <2>2
    <3>2. heard' = inFrame[FrameSamples]
      BY <1>1, <1>2, <2>2
    <3>3. FrameSamples \in 1 .. Len(inFrame)
      BY <1>2, <1>3, <2>2
    <3>4. heard' = At(l)
      BY <1>3, <3>2, <3>3
    <3>5. At(l) \in heard + 1 .. Done
      BY <3>1 DEF IInv, ContentInv
    <3>6. ASSUME NEW n \in r .. w - 1 PROVE n \in r + want .. w - 1 <=> At(n) > heard'
      <4>1. /\ n < l => At(n) < At(l)
            /\ l < n => At(l) < At(n)
        BY <3>1 DEF IInv, ContentInv
      <4>2. At(n) \in heard + 1 .. Done
        BY DEF IInv, ContentInv
      <4>3. n \in r + want .. w - 1 <=> l < n
        BY <1>2, <2>2
      <4>4. n < l \/ n = l \/ l < n
        BY <1>2, <3>1
      <4> HIDE DEF l
      <4>5. At(n) > At(l) <=> l < n
        BY <1>2, <1>4, <3>5, <4>1, <4>2, <4>4
      <4> QED  BY <3>4, <4>3, <4>5
    <3> HIDE DEF l
    <3> QED  BY <1>2, <1>4, <3>4, <3>5, <3>6
  <2> QED  BY <1>3, <2>1, <2>2
<1>8. IndexInv'
  <2>1. /\ Whole(w) /\ w <= r + Capacity
        /\ producer = "copy" => w + FrameSamples <= r + Capacity
    BY DEF IInv, IndexInv
  <2>2. w <= r + want + Capacity
    BY <1>2, <2>1
  <2>3. producer = "copy" => w + FrameSamples <= r + want + Capacity
    BY <1>2, <2>1
  <2>4. r' = r + want /\ w' = w /\ dsp' # "jump"
    BY <1>1
  <2> QED  BY <1>3, <1>4, <1>5, <2>1, <2>2, <2>3, <2>4 DEF IndexInv, Whole
<1>9. ContentInv'
  <2>1. \A n \in r + want .. w - 1 : At(n) \in heard' + 1 .. Done
    <3> TAKE n \in r + want .. w - 1
    <3>1. At(n) \in heard + 1 .. Done
      BY <1>6 DEF IInv, ContentInv
    <3>2. At(n) > heard'
      BY <1>6, <1>7
    <3> QED  BY <1>2, <1>4, <1>7, <3>1, <3>2
  <2>2. \A m, n \in r + want .. w - 1 : m < n => At(m) < At(n)
    BY <1>6 DEF IInv, ContentInv
  <2>3. \A n \in r + want .. w - 1 :
          Whole(n) => Whole(At(n) - 1) /\ \A i \in 0 .. FrameSamples - 1 : At(n + i) = At(n) + i
    BY <1>6 DEF IInv, ContentInv
  <2>4. producer = "copy" => \A i \in 0 .. copied - 1 : At(w + i) = Done + 1 + i
    BY DEF IInv, ContentInv
  <2>5. \A x \in heard' + 1 .. Done : x \in lost' \/ \E n \in r + want .. w - 1 : At(n) = x
    <3>0. \A x \in heard' + 1 .. Done : x \in heard + 1 .. Done /\ x > heard'
      <4>1. heard' \in Nat /\ heard <= heard' /\ heard \in Nat /\ Done \in Nat
        BY <1>2, <1>4, <1>7
      <4> QED  BY <4>1, Later
    <3> SUFFICES ASSUME NEW x \in heard + 1 .. Done, x > heard'
                 PROVE  x \in lost' \/ \E n \in r + want .. w - 1 : At(n) = x
      BY <3>0
    <3>1. x \in heard + 1 .. Done /\ x > heard'
      OBVIOUS
    <3>2. x \in lost \/ \E n \in r .. w - 1 : At(n) = x
      BY <3>1 DEF IInv, ContentInv
    <3>3. x \in lost => x \in lost'
      BY <1>1, <3>1
    <3>4. ASSUME NEW n \in r .. w - 1, At(n) = x PROVE n \in r + want .. w - 1
      BY <1>7, <3>1, <3>4
    <3> QED  BY <3>2, <3>3, <3>4
  <2>6. r' = r + want /\ w' = w /\ buf' = buf
    BY <1>1
  <2> QED  BY <1>4, <1>7, <2>1, <2>2, <2>3, <2>4, <2>5, <2>6 DEF ContentInv, At, Whole
<1>10. DropInv'
  <2>1. /\ dsp' \notin {"drain", "jump"} /\ r' = r + want /\ w' = w /\ buf' = buf
        /\ UNCHANGED <<dropped, lastDropped, newest>>
    BY <1>1
  <2>2. \A n \in r + want .. w - 1 : At(n) > newest.seen
    BY <1>1, <1>6 DEF IInv, DropInv
  <2> QED  BY <1>4, <2>1, <2>2 DEF IInv, DropInv, At
<1>11. ReadInv'
  <2>1. dsp' = "read" => frames' > 0
    BY <1>1, <1>2, <1>3
  <2>2. present > 0 => r + want + FrameSamples * (frames - 1) <= w
    <3> SUFFICES ASSUME present > 0 PROVE r + want + FrameSamples * (frames - 1) <= w
      OBVIOUS
    <3>1. want = FrameSamples /\ r + FrameSamples * frames <= w
      BY <1>3
    <3>2. FrameSamples * (frames - 1) = FrameSamples * frames - FrameSamples
      BY <1>2
    <3>3. FrameSamples * frames \in Nat
      BY <1>2
    <3> QED  BY <1>2, <3>1, <3>2, <3>3
  <2>3. dsp' \in {"idle", "read"} /\ frames' = frames - 1 /\ present' = present /\ r' = r + want /\ w' = w
    BY <1>1
  <2> QED  BY <1>1, <2>1, <2>2, <2>3 DEF ReadInv
<1>12. TypeOK'
  <2>1. r' \in Nat /\ heard' \in 0 .. MaxSamples /\ frames' \in 0 .. MaxCatchUpFrames + 1
    <3>1. frames \in 0 .. MaxCatchUpFrames + 1
      BY DEF IInv, TypeOK
    <3> QED  BY <1>1, <1>2, <1>3, <1>4, <1>7, <3>1
  <2>2. lost' \subseteq Samples /\ inFrame' \in Seq({Nothing} \cup Samples) /\ want' \in 0 .. FrameSamples
    <3>1. lost' \subseteq Samples
      BY <1>1 DEF IInv, TypeOK
    <3>2. inFrame' \in Seq({Nothing} \cup Samples) /\ want' \in 0 .. FrameSamples
      BY <1>1, <1>2
    <3> QED  BY <3>1, <3>2
  <2> QED  BY <1>1, <2>1, <2>2 DEF IInv, TypeOK, callback
<1> QED  BY <1>4, <1>8, <1>9, <1>10, <1>11, <1>12 DEF IInv

(***************************************************************************)
(* Theorems                                                                *)
(***************************************************************************)

\* Every step of the callback and of the goroutine keeps it.
LEMMA NextInv == ASSUME PathAssumption, IInv, [Next]_vars PROVE IInv'
<1>1. CASE \E n \in 1 .. MaxChunk : Deliver(n)
  BY <1>1, DeliverKeeps
<1>2. CASE Cut
  BY <1>2, CutKeeps
<1>3. CASE LoadRead
  BY <1>3, LoadReadKeeps
<1>4. CASE CopyIn
  BY <1>4, CopyInKeeps
<1>5. CASE StoreWrite
  BY <1>5, StoreWriteKeeps
<1>6. CASE Tick
  BY <1>6, TickKeeps
<1>7. CASE LoadWrite
  BY <1>7, LoadWriteKeeps
<1>8. CASE Jump
  BY <1>8, JumpKeeps
<1>9. CASE Plan
  BY <1>9, PlanKeeps
<1>10. CASE ReadBegins
  BY <1>10, ReadBeginsKeeps
<1>11. CASE CopyOut
  BY <1>11, CopyOutKeeps
<1>12. CASE StoreRead
  BY <1>12, StoreReadKeeps
<1>13. CASE UNCHANGED vars
  <2>1. /\ UNCHANGED <<ring, callback, dropped, loop, history>> /\ UNCHANGED <<buf, w, r>>
        /\ dsp' = dsp /\ producer' = producer /\ copied' = copied
    BY <1>13 DEF vars, ring, callback, loop
  <2>2. RingKept
    BY <2>1 DEF RingKept, At
  <2>3. Done' = Done /\ CallbackInv'
    BY <2>1, LoopFrames
  <2>4. producer = "copy" => /\ w + FrameSamples <= r + Capacity
                             /\ \A i \in 0 .. copied' - 1 : At(w + i)' = Done + 1 + i
    BY <2>1 DEF IInv, IndexInv, ContentInv, At
  <2>5. IndexInv' /\ ContentInv' /\ DropInv' /\ ReadInv'
    BY <2>1, <2>2, <2>3, <2>4, CallbackSteps
  <2>6. TypeOK'
    BY <2>1 DEF IInv, TypeOK, callback, loop, history
  <2> QED  BY <2>3, <2>5, <2>6 DEF IInv
<1> QED  BY <1>1, <1>2, <1>3, <1>4, <1>5, <1>6, <1>7, <1>8, <1>9, <1>10, <1>11, <1>12, <1>13 DEF Next

\* The ring and the two goroutines on it keep the invariant (Ring, push, dspLoop).
THEOREM Invariance == ASSUME PathAssumption PROVE Spec => []IInv
<1>1. Init => IInv
  BY InitInv
<1>2. IInv /\ [Next]_vars => IInv'
  BY NextInv
<1> QED  BY <1>1, <1>2, PTL DEF Spec

\* The indices, the ring and the frames have their types (Ring, push, dspLoop).
THEOREM TypeCorrect == ASSUME PathAssumption PROVE Spec => []TypeOK
<1>1. IInv => TypeOK
  BY DEF IInv
<1> QED  BY <1>1, Invariance, PTL

\* A frame that is read is whole and in order, what is skipped was dropped or
\* drained, silence comes for no frame that is there, and nothing is heard that
\* is older than a drop that was seen (Write, Read, Drain, dspLoop).
THEOREM CaptureFaithful == ASSUME PathAssumption PROVE Spec => []CaptureIsFaithful
<1>1. ASSUME IInv PROVE CaptureIsFaithful
  <2> SUFFICES ASSUME dsp = "store" PROVE CaptureIsFaithful
    BY DEF CaptureIsFaithful, FramesAreWhole, NothingVanishes, NoSilenceInBetween,
         BacklogIsCleared, Reads
  <2>1. /\ want \in {0, FrameSamples} /\ r + want <= w /\ (present > 0 => want = FrameSamples)
        /\ Len(inFrame) = want
        /\ \A i \in 1 .. Len(inFrame) : inFrame[i] = At(r + i - 1)
    BY <1>1 DEF IInv, ReadInv
  <2>2. /\ w \in Nat /\ r \in Nat /\ FrameSamples \in Nat \ {0} /\ heard \in Nat
        /\ inFrame \in Seq({Nothing} \cup Samples) /\ present \in Nat
    BY <1>1, CapacityType DEF IInv, TypeOK
  <2>3. Done \in Nat
    BY <1>1, DoneType DEF IInv
  <2>4. CASE want = 0
    <3>1. inFrame = <<>> /\ present = 0
      BY <2>1, <2>2, <2>4, EmptySeq
    <3> QED  BY <3>1 DEF CaptureIsFaithful, FramesAreWhole, NothingVanishes, NoSilenceInBetween,
               BacklogIsCleared
  <2>5. CASE want = FrameSamples
    <3>1. /\ Len(inFrame) = FrameSamples /\ inFrame # <<>> /\ r \in r .. w - 1 /\ Whole(r)
          /\ 1 \in 1 .. Len(inFrame)
      BY <1>1, <2>1, <2>2, <2>5, EmptySeq DEF IInv, IndexInv
    <3>2. /\ At(r) \in heard + 1 .. Done /\ Whole(At(r) - 1)
          /\ \A i \in 0 .. FrameSamples - 1 : At(r + i) = At(r) + i
      BY <1>1, <3>1 DEF IInv, ContentInv
    <3>3. inFrame[1] = At(r)
      <4>1. r + 1 - 1 = r
        BY <2>2
      <4> QED  BY <2>1, <3>1, <4>1
    <3>4. ASSUME NEW m \in 1 .. FrameSamples PROVE inFrame[m] = At(r) + m - 1
      <4>1. m - 1 \in 0 .. FrameSamples - 1 /\ r + m - 1 = r + (m - 1) /\ m \in 1 .. Len(inFrame)
        BY <2>2, <3>1
      <4>2. inFrame[m] = At(r + (m - 1)) /\ At(r + (m - 1)) = At(r) + (m - 1)
        BY <2>1, <3>2, <4>1
      <4> QED  BY <2>2, <2>3, <3>2, <4>2
    <3>5. FramesAreWhole
      <4>1. inFrame = [m \in 1 .. FrameSamples |-> inFrame[1] + m - 1]
        <5>1. inFrame = [m \in 1 .. FrameSamples |-> inFrame[m]]
          BY <2>2, <3>1, LenProperties
        <5> QED  BY <3>3, <3>4, <5>1
      <4>2. inFrame[1] % FrameSamples = 1 % FrameSamples
        <5>1. At(r) - 1 \in Nat /\ At(r) - 1 + 1 = At(r)
          BY <2>2, <2>3, <3>2
        <5>2. (At(r) - 1 + 1) % FrameSamples = 1 % FrameSamples
          BY <3>2, <5>1, WholeFrames
        <5> QED  BY <3>3, <5>1, <5>2
      <4> QED  BY <4>1, <4>2 DEF FramesAreWhole
    <3>6. NothingVanishes
      <4>1. inFrame[1] > heard
        BY <2>2, <2>3, <3>2, <3>3
      <4>2. ASSUME NEW x \in heard + 1 .. At(r) - 1 PROVE x \in lost
        <5>1. x \in heard + 1 .. Done /\ x < At(r)
          BY <2>2, <2>3, <3>2
        <5>2. x \in lost \/ \E n \in r .. w - 1 : At(n) = x
          BY <1>1, <5>1 DEF IInv, ContentInv
        <5>3. ASSUME NEW n \in r .. w - 1, At(n) = x PROVE FALSE
          <6>1. r < n => At(r) < At(n)
            BY <1>1, <3>1 DEF IInv, ContentInv
          <6>2. r < n \/ r = n
            BY <2>2
          <6> QED  BY <2>2, <2>3, <3>2, <5>1, <5>3, <6>1, <6>2
        <5> QED  BY <5>2, <5>3
      <4> QED  BY <3>3, <4>1, <4>2 DEF NothingVanishes
    <3>7. NoSilenceInBetween
      BY <3>1 DEF NoSilenceInBetween
    <3>8. BacklogIsCleared
      <4>1. At(r) > newest.seen
        BY <1>1, <3>1 DEF IInv, DropInv
      <4> QED  BY <3>3, <4>1 DEF BacklogIsCleared
    <3> QED  BY <3>5, <3>6, <3>7, <3>8 DEF CaptureIsFaithful
  <2> QED  BY <2>1, <2>4, <2>5
<1>2. IInv => CaptureIsFaithful
  BY <1>1
<1> QED  BY <1>2, Invariance, PTL
=============================================================================

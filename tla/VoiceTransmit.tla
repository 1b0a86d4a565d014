---------------------------- MODULE VoiceTransmit ----------------------------
(***************************************************************************)
(* The transmit path of a voice session (internal/voice/tx.go): a DSP loop *)
(* hands its frames to WriteFrame, which fills an accumulator and queues   *)
(* what is full without ever waiting; txLoop encodes it and sends it to    *)
(* the targets that the application sets at its press and release edges.   *)
(*                                                                         *)
(* Stop abandons a DSP loop that is stuck, so that two can be inside       *)
(* WriteFrame.  An accumulator is two of their frames, each recorded as    *)
(* the generation it was taken in.  An atomic access is a step, and so is  *)
(* a section of tx.mu, which only takes from free and adds to pcm.         *)
(***************************************************************************)
EXTENDS Integers, Sequences, FiniteSets

CONSTANTS Loops,       \* DSP loops that run at once
          Freqs,       \* frequencies
          QueueDepth,  \* txQueueDepth
          SeqMod,      \* wireMask24 + 1
          MaxPresses   \* bound: presses that start a transmission

TransmitAssumption ==
  /\ QueueDepth \in Nat \ {0} /\ SeqMod \in Nat \ {0} /\ MaxPresses \in Nat

BufferCount == QueueDepth + 1  \* txBufferCount
NoFrame == <<>>

VARIABLES
  ptt,          \* what the application is at with its edges
  targets,      \* txState.targets, the frequencies of it
  gen,          \* txState.gen
  at, read,     \* where a loop is in WriteFrame, and the gen it has read
  acc, accGen,  \* the halves in the accumulator; txState.accGen
  free, pcm,    \* buffers in the free list; the queue
  txLoop,       \* where txLoop is
  hand,         \* the frame it has taken
  toSend,       \* the targets it has loaded and not written to yet
  seqs,         \* its next sequence number on each frequency
  closing,      \* where Close is
  numbered      \* history: the number after that of the last packet of each

vars == <<ptt, targets, gen, at, read, acc, accGen, free, pcm, txLoop, hand,
          toSend, seqs, closing, numbered>>

TypeOK ==
  /\ ptt \in {"idle", "bumped", "held"} /\ targets \subseteq Freqs
  /\ gen \in 0 .. MaxPresses
  /\ at \in [Loops -> {"idle", "loaded", "read"}]
  /\ read \in [Loops -> 0 .. MaxPresses]
  /\ acc \in {<<>>} \cup [1 .. 1 -> 0 .. MaxPresses] /\ accGen \in 0 .. MaxPresses
  /\ free \in 0 .. BufferCount
  /\ pcm \in Seq([1 .. 2 -> 0 .. MaxPresses]) /\ Len(pcm) <= QueueDepth
  /\ txLoop \in {"select", "encode", "send", "returned"}
  /\ hand \in {NoFrame} \cup [1 .. 2 -> 0 .. MaxPresses] /\ toSend \subseteq Freqs
  /\ seqs \in [Freqs -> 0 .. SeqMod - 1]
  /\ closing \in {"no", "done", "freed"}
  /\ numbered \in [Freqs -> 0 .. SeqMod - 1]

Init ==
  /\ ptt = "idle" /\ targets = {} /\ gen = 0
  /\ at = [l \in Loops |-> "idle"] /\ read = [l \in Loops |-> 0]
  /\ acc = <<>> /\ accGen = 0
  /\ free = BufferCount /\ pcm = <<>>
  /\ txLoop = "select" /\ hand = NoFrame /\ toSend = {}
  /\ seqs = [f \in Freqs |-> 0]
  /\ closing = "no"
  /\ numbered = [f \in Freqs |-> 0]

-----------------------------------------------------------------------------
(* The edges.  voiceState.mu keeps them apart from each other, and not     *)
(* from WriteFrame and txLoop.                                             *)

\* The press that starts a transmission ends the one before.
EndTransmission ==
  /\ ptt = "idle" /\ gen < MaxPresses
  /\ ptt' = "bumped" /\ gen' = gen + 1
  /\ UNCHANGED <<targets, at, read, acc, accGen, free, pcm, txLoop, hand, toSend,
                 seqs, closing, numbered>>

\* A press or a release that leaves an action held installs the frequencies
\* of what is held; an action may resolve to none.
SetTXFrequencies ==
  /\ ptt \in {"bumped", "held"}
  /\ ptt' = "held" /\ targets' \in SUBSET Freqs
  /\ UNCHANGED <<gen, at, read, acc, accGen, free, pcm, txLoop, hand, toSend, seqs,
                 closing, numbered>>

\* The last release leaves the targets to the tail of the gate.
ReleaseLast ==
  /\ ptt = "held" /\ ptt' = "idle"
  /\ UNCHANGED <<targets, gen, at, read, acc, accGen, free, pcm, txLoop, hand,
                 toSend, seqs, closing, numbered>>

\* clearTXTargetsIfStillIdle
ClearTargets ==
  /\ ptt = "idle" /\ targets # {} /\ targets' = {}
  /\ UNCHANGED <<ptt, gen, at, read, acc, accGen, free, pcm, txLoop, hand, toSend,
                 seqs, closing, numbered>>

-----------------------------------------------------------------------------
(* WriteFrame, on a DSP loop whose gate is open.                           *)

LoadTargets(l) ==
  /\ at[l] = "idle" /\ targets # {}
  /\ at' = [at EXCEPT ![l] = "loaded"]
  /\ UNCHANGED <<ptt, targets, gen, read, acc, accGen, free, pcm, txLoop, hand,
                 toSend, seqs, closing, numbered>>

LoadGen(l) ==
  /\ at[l] = "loaded"
  /\ at' = [at EXCEPT ![l] = "read"] /\ read' = [read EXCEPT ![l] = gen]
  /\ UNCHANGED <<ptt, targets, gen, acc, accGen, free, pcm, txLoop, hand, toSend,
                 seqs, closing, numbered>>

\* Mutant: what is left of an earlier generation stays.
KeepLeftover(g) == acc
\* Mutant: only a newer generation starts the accumulator anew.
ResetWhenNewer(g) == IF g > accGen THEN <<>> ELSE acc
\* The halves that a frame of generation g is added to.
Leftover(g) == IF g # accGen THEN <<>> ELSE acc

\* Mutant: a buffer that finds the queue full is not handed back.
FlushLeaks(frame) ==
  IF free = 0
    THEN UNCHANGED <<free, pcm>>
    ELSE /\ free' = free - 1
         /\ pcm' = IF Len(pcm) < QueueDepth THEN Append(pcm, frame) ELSE pcm
\* flushLocked: with no free buffer, or the queue full, the frame is dropped.
Flush(frame) ==
  IF free = 0 \/ Len(pcm) = QueueDepth
    THEN UNCHANGED <<free, pcm>>
    ELSE free' = free - 1 /\ pcm' = Append(pcm, frame)

\* The section of tx.mu.
Accumulate(l) ==
  LET halves == Append(Leftover(read[l]), read[l])
  IN /\ at[l] = "read"
     /\ at' = [at EXCEPT ![l] = "idle"] /\ read' = [read EXCEPT ![l] = 0]
     /\ accGen' = read[l]
     /\ IF Len(halves) < 2
          THEN acc' = halves /\ UNCHANGED <<free, pcm>>
          ELSE acc' = <<>> /\ Flush(halves)
     /\ UNCHANGED <<ptt, targets, gen, txLoop, hand, toSend, seqs, closing, numbered>>

-----------------------------------------------------------------------------
(* txLoop.                                                                 *)

Take ==
  /\ txLoop = "select" /\ pcm # <<>>
  /\ txLoop' = "encode" /\ hand' = Head(pcm) /\ pcm' = Tail(pcm)
  /\ UNCHANGED <<ptt, targets, gen, at, read, acc, accGen, free, toSend, seqs,
                 closing, numbered>>

\* Mutant: a frame that fails to encode keeps its buffer.
GiveBackSent == free' = IF txLoop = "send" THEN free + 1 ELSE free
\* The buffer goes back to the free list.
GiveBack == free' = IF free < BufferCount THEN free + 1 ELSE free

\* txSend without an encoder, or a frame that does not encode or fit.
DropFrame ==
  /\ txLoop = "encode"
  /\ txLoop' = "select" /\ hand' = NoFrame /\ GiveBack
  /\ UNCHANGED <<ptt, targets, gen, at, read, acc, accGen, pcm, toSend, seqs,
                 closing, numbered>>

\* The frame is encoded once, and the targets are loaded after that.
Encode ==
  /\ txLoop = "encode"
  /\ txLoop' = "send" /\ toSend' = targets
  /\ UNCHANGED <<ptt, targets, gen, at, read, acc, accGen, free, pcm, hand, seqs,
                 closing, numbered>>

\* Mutant: one counter for all frequencies.
CountShared(f) == seqs' = [g \in Freqs |-> (seqs[f] + 1) % SeqMod]
\* A number is used up by its packet, sent or not.
Count(f) == seqs' = [seqs EXCEPT ![f] = (seqs[f] + 1) % SeqMod]

\* One packet, whether the socket takes it or not.
SendPacket(f) ==
  /\ txLoop = "send" /\ f \in toSend
  /\ toSend' = toSend \ {f} /\ Count(f)
  /\ numbered' = [numbered EXCEPT ![f] = (seqs[f] + 1) % SeqMod]
  /\ UNCHANGED <<ptt, targets, gen, at, read, acc, accGen, free, pcm, txLoop, hand,
                 closing>>

SendEnds ==
  /\ txLoop = "send" /\ toSend = {}
  /\ txLoop' = "select" /\ hand' = NoFrame /\ GiveBack
  /\ UNCHANGED <<ptt, targets, gen, at, read, acc, accGen, pcm, toSend, seqs,
                 closing, numbered>>

\* The select may see done while frames are queued.
TxLoopReturns ==
  /\ txLoop = "select" /\ closing = "done"
  /\ txLoop' = "returned"
  /\ UNCHANGED <<ptt, targets, gen, at, read, acc, accGen, free, pcm, hand, toSend,
                 seqs, closing, numbered>>

-----------------------------------------------------------------------------
(* Close.  The bridge may still lead a DSP loop to the session.            *)

\* done is closed, and the socket with it.
Close ==
  /\ closing = "no" /\ closing' = "done"
  /\ UNCHANGED <<ptt, targets, gen, at, read, acc, accGen, free, pcm, txLoop, hand,
                 toSend, seqs, numbered>>

\* Mutant: the encoder is freed without waiting for txLoop.
NotJoined == TRUE
\* wg.Wait
Joined == txLoop = "returned"

\* tx.close, after the join.
FreeEncoder ==
  /\ closing = "done" /\ Joined /\ closing' = "freed"
  /\ UNCHANGED <<ptt, targets, gen, at, read, acc, accGen, free, pcm, txLoop, hand,
                 toSend, seqs, numbered>>

Next ==
  \/ EndTransmission \/ SetTXFrequencies \/ ReleaseLast \/ ClearTargets
  \/ \E l \in Loops : LoadTargets(l) \/ LoadGen(l) \/ Accumulate(l)
  \/ Take \/ DropFrame \/ Encode \/ SendEnds \/ TxLoopReturns
  \/ \E f \in Freqs : SendPacket(f)
  \/ Close \/ FreeEncoder

Spec == Init /\ [][Next]_vars

-----------------------------------------------------------------------------
(* Properties.                                                             *)

\* No encoded frame joins the end of one transmission to the beginning of the
\* next (WriteFrame's accGen), not even when an abandoned DSP loop comes back
\* with a generation it read before the press.
NoFrameSpansAPress ==
  \A frame \in {pcm[i] : i \in DOMAIN pcm} \cup {hand} :
    frame # NoFrame => frame[1] = frame[2]

\* No buffer is lost: each is free, queued or with txLoop, through drops,
\* failures and Close (flushLocked, txLoop).
PoolIsWhole == free + Len(pcm) + (IF hand = NoFrame THEN 0 ELSE 1) = BufferCount

\* The packets of one frequency are numbered one after the other, whatever is
\* sent on the others (txSend's seqs).
NumbersAreConsecutive == \A f \in Freqs : seqs[f] = numbered[f]

\* No encode call is running or still to come when the encoder is freed
\* (Close joins txLoop before tx.close).
EncoderOutlivesUse == closing = "freed" => hand = NoFrame /\ txLoop = "returned"

\* What the transmit path keeps while its callers overlap (WriteFrame, txSend).
TransmitIsFaithful ==
  NoFrameSpansAPress /\ PoolIsWhole /\ NumbersAreConsecutive /\ EncoderOutlivesUse
=============================================================================

----------------------------- MODULE VoiceReceive -----------------------------
(***************************************************************************)
(* One received voice stream (internal/voice: jitter.go, rx.go): rxLoop    *)
(* pushes the frames of a talker into the stream's jitter buffer, the      *)
(* decode goroutine pops them into a PCM ring and reaps an idle stream,    *)
(* and every DSP tick drains the ring and wakes the decode goroutine.      *)
(*                                                                         *)
(* The talker's frames are numbered from 1; Seq gives the sequence number  *)
(* on the wire, which wraps.  The network delivers a frame any number of   *)
(* times, in any order, or never.  Time is counted in DSP ticks, and the   *)
(* two goroutines keep up with it.                                         *)
(***************************************************************************)
EXTENDS Integers, FiniteSets, Sequences

CONSTANTS SeqMod,      \* wireMask24 + 1
          FirstSeq,    \* sequence number of the talker's first frame
          FrameDur,    \* rxFrameDuration
          Target,      \* jitter.target
          MaxFrames,   \* jitter.maxFrames
          AheadFactor, \* maxAheadMultiplier
          IdleTimeout, \* rxIdleTimeout
          MaxDelay,    \* longest a datagram travels
          MaxTime      \* bound: ticks

ReceiveAssumption ==
  /\ FrameDur \in Nat \ {0} /\ Target \in Nat /\ MaxFrames \in Nat \ {0}
  /\ AheadFactor \in Nat \ {0} /\ FirstSeq \in 0..SeqMod-1
  /\ IdleTimeout \in Nat /\ MaxDelay \in Nat /\ MaxTime \in Nat
  /\ SeqMod \in Nat /\ SeqMod > 2 * MaxFrames * AheadFactor
  \* no datagram is on its way for half a cycle of the sequence numbers
  /\ MaxDelay + Target < FrameDur * (SeqMod \div 2)

VARIABLES
  now,          \* the clock
  sent,         \* when the talker sent each frame
  hand,         \* <<frame, stream>> rxVoice holds between rxStreamFor and push
  stream,       \* the open stream, or None
  opened,       \* RXStats.Opened
  frames,       \* jitter.frames, as frames of the talker
  startAt,      \* jitter.bufferStartAt, or None
  primed,       \* jitter.primed
  nextExpected, \* jitter.nextExpected
  playoutBase,  \* jitter.playoutBase
  underrun,     \* jitter.underrun
  lastSeen,     \* rxStream.lastSeen
  ring,         \* rxStream.ring, in ticks of PCM
  service,      \* where rxService is
  wake,         \* rxState.wake
  played,       \* the frame decoded last (history)
  evicted,      \* frames of this stream that made room for others (history)
  calm          \* no underrun and no pause of the talker on this stream (history)

jitterVars  == <<frames, startAt, primed, nextExpected, playoutBase, underrun>>
historyVars == <<played, evicted, calm>>
vars == <<now, sent, hand, stream, opened, jitterVars, lastSeen, ring, service, wake, historyVars>>

None == 0
Nothing == <<>>
Never == -1

Seq24(i) == (FirstSeq + i - 1) % SeqMod

\* seqDiff: sign-extended difference modulo 2^24.
SeqDiff(a, b) ==
  LET d == (a - b) % SeqMod IN IF d < SeqMod \div 2 THEN d ELSE d - SeqMod

SeqLess(a, b) == SeqDiff(a, b) < 0

\* oldestSeqLocked.
Oldest(F) == CHOOSE o \in F : \A f \in F : ~SeqLess(Seq24(f), Seq24(o))

Smaller(a, b) == IF a < b THEN a ELSE b
Larger(a, b)  == IF a < b THEN b ELSE a

\* aheadSamples and ringFrames (init), in ticks.
Ahead     == Larger(Smaller(2 * FrameDur, Target), FrameDur)
RingTicks == Ahead + 2 * FrameDur
MaxAhead  == MaxFrames * AheadFactor

Init ==
  /\ now = 0 /\ sent = <<>> /\ hand = Nothing /\ stream = None /\ opened = 0
  /\ frames = {} /\ startAt = Never /\ primed = FALSE /\ nextExpected = 0
  /\ playoutBase = 0 /\ underrun = FALSE
  /\ lastSeen = 0 /\ ring = 0 /\ service = "parked" /\ wake = FALSE
  /\ played = 0 /\ evicted = {} /\ calm = TRUE

----------------------------------------------------------------------------
(* jitter.go.                                                              *)

\* newJitter.
FreshJitter ==
  /\ frames' = {} /\ startAt' = Never /\ primed' = FALSE /\ nextExpected' = 0
  /\ playoutBase' = 0 /\ underrun' = FALSE

\* Mutant: frames behind the playout are taken.
AcceptsStale(i) ==
  /\ IF primed
     THEN SeqDiff(Seq24(i), nextExpected) <= MaxAhead
     ELSE frames # {} => SeqDiff(Seq24(i), Seq24(Oldest(frames))) <= MaxAhead
  /\ Seq24(i) \notin {Seq24(f) : f \in frames}

\* The three refusals of push: behind the playout, implausibly far ahead, duplicate.
Accepts(i) ==
  /\ IF primed
     THEN /\ ~SeqLess(Seq24(i), nextExpected)
          /\ SeqDiff(Seq24(i), nextExpected) <= MaxAhead
     ELSE frames # {} => SeqDiff(Seq24(i), Seq24(Oldest(frames))) <= MaxAhead
  /\ Seq24(i) \notin {Seq24(f) : f \in frames}

\* push.
Push(i) ==
  /\ IF Accepts(i)
     THEN LET full == frames \cup {i}
              out  == IF Cardinality(full) > MaxFrames THEN {Oldest(full)} ELSE {}
          IN  /\ frames' = full \ out
              /\ evicted' = evicted \cup out
              /\ startAt' = IF startAt = Never THEN now ELSE startAt
     ELSE UNCHANGED <<frames, evicted, startAt>>
  /\ UNCHANGED <<primed, nextExpected, playoutBase, underrun, played, calm>>

Priming == ~primed /\ (startAt = Never \/ now < startAt + Target \/ frames = {})

\* Nothing to play yet: not primed.
PopPriming ==
  /\ Priming
  /\ UNCHANGED <<jitterVars, historyVars>>

\* The playout schedule pop goes by: that of a buffer that primes now, that of
\* one that ran dry (resyncLocked), or the present one.
Playout ==
  IF ~primed THEN [next |-> Seq24(Oldest(frames)), base |-> startAt + Target]
  ELSE [next |-> nextExpected, base |-> IF underrun THEN now + FrameDur ELSE playoutBase]

\* Nothing buffered: the schedule stands still.
PopDry ==
  /\ ~Priming /\ frames = {}
  /\ underrun' = TRUE /\ calm' = FALSE
  /\ UNCHANGED <<frames, startAt, primed, nextExpected, playoutBase, played, evicted>>

\* advanceLocked.
Advance ==
  /\ primed' = TRUE /\ underrun' = FALSE
  /\ nextExpected' = (Playout.next + 1) % SeqMod
  /\ playoutBase' = Playout.base + FrameDur

\* Mutant: the oldest frame is played whatever slot it belongs to.
PopOldest ==
  /\ ~Priming
  /\ \E f \in frames :
       /\ f = Oldest(frames)
       /\ frames' = frames \ {f} /\ played' = f
  /\ Advance
  /\ UNCHANGED <<startAt, evicted, calm>>

\* The frame of this slot is there.
PopFrame ==
  /\ ~Priming
  /\ \E f \in frames :
       /\ Seq24(f) = Playout.next
       /\ frames' = frames \ {f} /\ played' = f
  /\ Advance
  /\ UNCHANGED <<startAt, evicted, calm>>

SlotMissing == ~Priming /\ frames # {} /\ Playout.next \notin {Seq24(f) : f \in frames}

\* It may still come.
PopWaits ==
  /\ SlotMissing /\ now < Playout.base
  /\ primed' = TRUE /\ underrun' = FALSE
  /\ nextExpected' = Playout.next /\ playoutBase' = Playout.base
  /\ UNCHANGED <<frames, startAt, historyVars>>

\* Mutant: a missing frame is conceded as soon as a later one is there.
ConcedeAtOnce ==
  /\ SlotMissing
  /\ Advance
  /\ UNCHANGED <<frames, startAt, historyVars>>

\* Its time is over.
PopConcedes ==
  /\ SlotMissing /\ now >= Playout.base
  /\ Advance
  /\ UNCHANGED <<frames, startAt, historyVars>>

----------------------------------------------------------------------------
(* rx.go.                                                                  *)

\* rxStreamFor: the stream of a frame that arrives, opened if there is none.
Arrive(i) ==
  /\ hand = Nothing
  /\ i \in 1..Len(sent) /\ now - sent[i] <= MaxDelay
  /\ IF stream = None
     THEN /\ opened' = opened + 1 /\ stream' = opened'
          /\ lastSeen' = now /\ ring' = 0
          /\ FreshJitter
          /\ evicted' = {} /\ calm' = TRUE
          /\ UNCHANGED played
     ELSE UNCHANGED <<opened, stream, lastSeen, ring, jitterVars, historyVars>>
  /\ hand' = <<i, stream'>>
  /\ UNCHANGED <<now, sent, service, wake>>

\* rxVoice from there on; the stream may have been reaped meanwhile.
Admit ==
  /\ hand # Nothing
  /\ IF hand[2] = stream
     THEN lastSeen' = now /\ Push(hand[1])
     ELSE UNCHANGED <<lastSeen, jitterVars, historyVars>>
  /\ wake' = TRUE /\ hand' = Nothing
  /\ UNCHANGED <<now, sent, stream, opened, ring, service>>

\* decodeLoop: rxService on the streams there are.
StartService ==
  /\ service = "parked" /\ wake
  /\ wake' = FALSE
  /\ service' = IF stream = None THEN "parked" ELSE "topUp"
  /\ UNCHANGED <<now, sent, hand, stream, opened, jitterVars, lastSeen, ring, historyVars>>

\* topUp: one frame, or its concealment, into the ring, which never refuses it
\* (TypeOK).
Decode ==
  /\ service = "topUp" /\ ring < Ahead
  /\ PopFrame \/ PopConcedes
  /\ ring' = ring + FrameDur
  /\ UNCHANGED <<now, sent, hand, stream, opened, lastSeen, service, wake>>

\* Mutant: a stream with nothing to play is left alone.
StopTopUpEarly ==
  /\ service = "topUp"
  /\ \/ ring >= Ahead /\ service' = "reap" /\ UNCHANGED <<jitterVars, historyVars>>
     \/ ring < Ahead /\ service' = "parked" /\ (PopPriming \/ PopDry \/ PopWaits)
  /\ UNCHANGED <<now, sent, hand, stream, opened, lastSeen, ring, wake>>

\* topUp ends with enough ahead, or nothing to play.
EndTopUp ==
  /\ service = "topUp"
  /\ \/ ring >= Ahead /\ UNCHANGED <<jitterVars, historyVars>>
     \/ ring < Ahead /\ (PopPriming \/ PopDry \/ PopWaits)
  /\ service' = "reap"
  /\ UNCHANGED <<now, sent, hand, stream, opened, lastSeen, ring, wake>>

\* reap, which looks at lastSeen under the lock.
Reap ==
  /\ service = "reap"
  /\ service' = "parked"
  /\ stream' = IF now - lastSeen >= IdleTimeout THEN None ELSE stream
  /\ UNCHANGED <<now, sent, hand, opened, jitterVars, lastSeen, ring, wake, historyVars>>

\* ReadInto, on the DSP goroutine's tick; the talker sends a frame or is silent.
Tick ==
  /\ now < MaxTime
  /\ service = "parked" /\ ~wake /\ hand = Nothing
  /\ now' = now + 1
  /\ ring' = Larger(ring - 1, 0)
  /\ wake' = TRUE
  /\ \/ now' % FrameDur = 0 /\ sent' = Append(sent, now') /\ UNCHANGED calm
     \/ sent' = sent /\ calm' = (calm /\ now' % FrameDur # 0)
  /\ UNCHANGED <<hand, stream, opened, jitterVars, lastSeen, service, played, evicted>>

Next ==
  \/ \E i \in 1..MaxTime : Arrive(i)
  \/ Admit \/ StartService \/ Decode \/ EndTopUp \/ Reap \/ Tick

Spec == Init /\ [][Next]_vars

----------------------------------------------------------------------------
(* Properties.                                                             *)

SeqNumbers == 0..SeqMod-1

\* The stream's fields keep their types; the buffer keeps to its depth and the
\* ring to what was allocated for it.
TypeOK ==
  /\ now \in 0..MaxTime /\ \A i \in 1..Len(sent) : sent[i] \in 0..now
  /\ stream \in {None, opened} /\ opened \in Nat
  /\ frames \subseteq 1..Len(sent) /\ Cardinality(frames) <= MaxFrames
  /\ startAt \in {Never} \cup 0..now /\ primed \in BOOLEAN /\ underrun \in BOOLEAN
  /\ nextExpected \in SeqNumbers /\ playoutBase \in Nat
  /\ lastSeen \in 0..now /\ ring \in 0..RingTicks
  /\ service \in {"parked", "topUp", "reap"} /\ wake \in BOOLEAN
  /\ played \in 0..Len(sent) /\ evicted \subseteq 1..Len(sent) /\ calm \in BOOLEAN

\* Nothing in the buffer lies behind the playout (resyncLocked, "whatever is
\* buffered is already at or after nextExpected"), also across the wrap.
NothingBehindPlayout ==
  stream # None /\ primed => \A f \in frames : ~SeqLess(Seq24(f), nextExpected)

\* The decoder gets the talker's frames in the order they were sent, none
\* twice, however the network delivers them and across a reaped stream (push).
PlayedInOrder == [][played' # played => played' > played]_vars

\* While the stream flows, a frame is given up only when it has been on its way
\* for the whole jitter target (pop, "a genuinely reordered packet still has
\* time to arrive").
Conceding == primed' /\ service = "topUp" /\ frames' = frames /\ nextExpected' # Playout.next
OnlyLateIsConceded ==
  [][Conceding /\ ~Priming /\ calm /\ evicted = {} =>
       \A i \in 1..Len(sent) : Seq24(i) = Playout.next => now - sent[i] >= Target]_vars

\* A stream whose talker is silent is gone within a tick of its idle timeout,
\* also when it never primed or ran dry (rxService).
SilentStreamIsReaped ==
  stream # None /\ service = "parked" /\ ~wake /\ hand = Nothing
    => now - lastSeen < IdleTimeout

\* A stream's playout point and its life both follow what arrives.
StreamFollowsTalker == NothingBehindPlayout /\ SilentStreamIsReaped

\* Playout reorders nothing and gives nothing up too early (push, pop).
PlayoutIsFaithful == PlayedInOrder /\ OnlyLateIsConceded
=============================================================================

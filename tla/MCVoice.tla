------------------------------ MODULE MCVoice ------------------------------
(***************************************************************************)
(* A voice session whose timeouts race its answers, its keepalive          *)
(* measurements, the reception of a talker, and the microphone: from the   *)
(* device to the gate, the gate, and the transmission.                     *)
(* The modules share no state, so that TLC explores them side by side      *)
(* instead of multiplied: "subject" names the component a behaviour is of, *)
(* and the variables of the others keep their initial values.              *)
(***************************************************************************)
EXTENDS VoiceSession, FiniteSets

CONSTANTS
  KeepaliveLossThreshold, MaxPendingKA, MaxKA, SeqMod, FirstSeq, FrameDur,
  Target, MaxFrames, AheadFactor, IdleTimeout, MaxDelay, MaxTime,
  Loops, Freqs, QueueDepth, TransmitSeqMod, MaxPresses,
  FrameSamples, CapacityFrames, Capacity, MaxCatchUpFrames, MaxChunk, MaxSamples,
  FrameMS, GateFrames, MaxConfigs

VARIABLES
  pendingKA, lastServerTS, rtt, serving, keepaliveUnanswered, keepaliveSent,
  socketSince, bindingSince, lost, madeRoom, up, down,
  now, receiveSent, hand, stream, opened, frames, startAt, primed,
  nextExpected, playoutBase, underrun, lastSeen, ring, service, wake,
  played, evicted, calm,
  ptt, targets, transmitGen, at, read, acc, accGen, free, pcm, txLoop,
  transmitHand, toSend, seqs, closing, numbered,
  buf, w, r, dropped, recorded, pending, producer, frame, copied, dsp,
  lastDropped, end, framesToRead, present, inFrame, want, newest, heard, skipped,
  cfg, pttHeld, tail, voxSustain, voxHangLeft, pttLatched, voxLatched, gateOpen,
  changes, muted, inputs,
  subject  \* the component whose behaviour this is

keepaliveVars == <<pendingKA, lastServerTS, rtt, serving, keepaliveUnanswered, keepaliveSent,
  socketSince, bindingSince, lost, madeRoom, up, down>>
receiveVars == <<now, receiveSent, hand, stream, opened, frames, startAt, primed,
  nextExpected, playoutBase, underrun, lastSeen, ring, service, wake,
  played, evicted, calm>>
transmitVars == <<ptt, targets, transmitGen, at, read, acc, accGen, free, pcm, txLoop,
  transmitHand, toSend, seqs, closing, numbered>>
pathVars == <<buf, w, r, dropped, recorded, pending, producer, frame, copied, dsp,
  lastDropped, end, framesToRead, present, inFrame, want, newest, heard, skipped>>
gateVars == <<cfg, pttHeld, tail, voxSustain, voxHangLeft, pttLatched, voxLatched,
  gateOpen, changes, muted, inputs>>

\* Without and with voice activation, durations that are no whole frames and
\* one that is none.
Settings(vox, start, release, minLength, hang) ==
  [VOXEnabled |-> vox, PTTStartDelayMS |-> start, PTTReleaseDelayMS |-> release,
   VOXMinLengthMS |-> minLength, VOXHangMS |-> hang]
GateConfigs ==
  {Settings(FALSE, 19, 20, 0, 0), Settings(TRUE, 20, 0, 10, 20),
   Settings(TRUE, -5, 20, 20, 10)}

Keepalive == INSTANCE VoiceKeepalive WITH
  unanswered <- keepaliveUnanswered, sent <- keepaliveSent,
  LossThreshold <- KeepaliveLossThreshold
Receive == INSTANCE VoiceReceive WITH
  sent <- receiveSent
Transmit == INSTANCE VoiceTransmit WITH
  gen <- transmitGen, hand <- transmitHand, SeqMod <- TransmitSeqMod
Path == INSTANCE CapturePath WITH
  frames <- framesToRead, lost <- skipped
Gate == INSTANCE VoiceGate WITH
  open <- gateOpen, Configs <- GateConfigs, MaxFrames <- GateFrames

ASSUME KeepaliveBounds == Keepalive!KeepaliveAssumption
ASSUME ReceiveBounds == Receive!ReceiveAssumption
ASSUME TransmitBounds == Transmit!TransmitAssumption
ASSUME PathBounds == Path!PathAssumption
ASSUME GateBounds == Gate!GateAssumption

SideInit ==
  /\ subject \in {"voice", "keepalive", "receive", "transmit", "path", "gate"}
  /\ Init /\ Keepalive!Init /\ Receive!Init /\ Transmit!Init
  /\ Path!Init
  /\ Gate!Init /\ (subject # "gate" => cfg = Settings(FALSE, 19, 20, 0, 0))

SideNext ==
  /\ UNCHANGED subject
  /\ \/ /\ subject = "voice" /\ Next
        /\ UNCHANGED <<keepaliveVars, receiveVars, transmitVars, pathVars, gateVars>>
     \/ /\ subject = "keepalive" /\ Keepalive!Next
        /\ UNCHANGED <<vars, receiveVars, transmitVars, pathVars, gateVars>>
     \/ /\ subject = "receive" /\ Receive!Next
        /\ UNCHANGED <<vars, keepaliveVars, transmitVars, pathVars, gateVars>>
     \/ /\ subject = "transmit" /\ Transmit!Next
        /\ UNCHANGED <<vars, keepaliveVars, receiveVars, pathVars, gateVars>>
     \/ /\ subject = "path" /\ Path!Next
        /\ UNCHANGED <<vars, keepaliveVars, receiveVars, transmitVars, gateVars>>
     \/ /\ subject = "gate" /\ Gate!Next
        /\ UNCHANGED <<vars, keepaliveVars, receiveVars, transmitVars, pathVars>>

allVars == <<subject, vars, keepaliveVars, receiveVars, transmitVars, pathVars, gateVars>>

SideSpec == SideInit /\ [][SideNext]_allVars

\* The round trip shown is one that was measured (recordKeepalive).
RoundTripIsTrue == Keepalive!RoundTripIsTrue
\* A stream plays what is ahead and ends with its talker (rxService).
StreamFollowsTalker == Receive!StreamFollowsTalker
\* Frames are played in order and none is given up early (push, pop).
PlayoutIsFaithful == Receive!PlayoutIsFaithful
\* The microphone's frames reach the gate whole and in order (Write, Read), the
\* gate is open when the settings say so (Step), and a frame that is sent is of
\* one transmission, with no buffer lost (WriteFrame, txLoop).
TransmitIsFaithful ==
  Transmit!TransmitIsFaithful /\ Path!CaptureIsFaithful /\ Gate!GateIsExact
=============================================================================

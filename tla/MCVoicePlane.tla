---------------------------- MODULE MCVoicePlane ----------------------------
(* Two calls, a redirect at a time, and two push-to-talk actions.          *)
EXTENDS VoicePlane, TLC
=============================================================================

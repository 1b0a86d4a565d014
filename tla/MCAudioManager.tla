---- MODULE MCAudioManager ----
(* Two generations, two devices that come and go, one change of selection. *)
EXTENDS AudioManager
====

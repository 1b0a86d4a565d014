--------------------------- MODULE MCSessionLive ---------------------------
(* The control session on small sets, under fairness.                      *)
EXTENDS Session
=============================================================================

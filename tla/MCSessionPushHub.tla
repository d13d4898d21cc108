-------------------------- MODULE MCSessionPushHub --------------------------
(* SessionPushHub with all turns in one session. *)
EXTENDS SessionPushHub
CONSTANT session
OneSession == [t \in Turns |-> session]
=============================================================================

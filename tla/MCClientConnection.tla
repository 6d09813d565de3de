------------------------- MODULE MCClientConnection -------------------------
(***************************************************************************)
(* Instances of ClientConnection: one AGV and one master control client.   *)
(***************************************************************************)
EXTENDS ClientConnection
=============================================================================

------------------------------- MODULE MCComm -------------------------------
(* Comm with a player who has an account or none, up to two ends of turn   *)
(* and a timer that fires once or twice.                                   *)
EXTENDS Comm
=============================================================================

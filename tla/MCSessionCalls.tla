---------------------------- MODULE MCSessionCalls ----------------------------
(***************************************************************************)
(* Small instances of SessionCalls: one incoming call under two concurrent *)
(* handlers (Races); three calls competing for a session of capacity one   *)
(* (Lives); the owner of a call (Owner); the capacity (Cap).               *)
(***************************************************************************)
EXTENDS SessionCalls
=============================================================================

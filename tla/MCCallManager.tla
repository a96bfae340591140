---------------------------- MODULE MCCallManager ----------------------------
(***************************************************************************)
(* Small instances of CallManager.  The .cfg files choose the actors: the  *)
(* callers that can meet in EndCall, RejectCall and AcceptCall are         *)
(* together in one of them.                                                *)
(***************************************************************************)
EXTENDS CallManager
=============================================================================

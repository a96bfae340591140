---------------------------- MODULE ManagerMedia ----------------------------
(***************************************************************************)
(* A CallManager whole: its signalling (CallManager) and its audio         *)
(* (AudioPath).  They meet in two places, the handlers that renew the SRTP *)
(* session and cleanupMedia; AudioPath has both as actions of its own that *)
(* may come at any time, so a behaviour here moves either the signalling   *)
(* or the audio, and nothing is lost by it.                                *)
(***************************************************************************)
EXTENDS CallManager, AudioPath

VARIABLE half   \* which of the two moves

SignallingMoves == half = "signalling" /\ Next /\ UNCHANGED <<audioVars, half>>
AudioMoves == half = "audio" /\ AudioNext /\ UNCHANGED <<vars, half>>

MediaInit ==
  /\ Init /\ AudioInit
  /\ \/ half = "signalling" /\ ackDue
     \/ half = "audio" /\ dir = "outgoing"

MediaSpec == MediaInit /\ [][SignallingMoves \/ AudioMoves]_<<vars, audioVars, half>>
=============================================================================

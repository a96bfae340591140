--------------------------- MODULE MCManagerMedia ---------------------------
(***************************************************************************)
(* A small instance of ManagerMedia: two relays and two messages of the    *)
(* peer for the signalling; eight sequence numbers, of which both streams  *)
(* begin with the last, and a ring of two for the audio.                   *)
(***************************************************************************)
EXTENDS ManagerMedia
=============================================================================

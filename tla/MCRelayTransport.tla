--------------------------- MODULE MCRelayTransport ---------------------------
(***************************************************************************)
(* One relay and two connections to it, which the ack and the accept of a  *)
(* call, or a call and a late ack, may dial over each other.  Both may time *)
(* out; the first may also fail while it is dialled, fail by ICE or be     *)
(* cleaned up, and the channel of the second may close, which closes       *)
(* whichever of the two the map holds.                                     *)
(***************************************************************************)
EXTENDS RelayTransport

CONSTANT First

MCWays ==
  [c \in Conns |-> IF c = First THEN {"dial", "ice", "cleanup"} ELSE {"close"}]
=============================================================================

------------------------------- MODULE CallViews -------------------------------
(***************************************************************************)
(* The two accounts of a call: its CallInfo, on the server, and the calls  *)
(* the browsers show.  The manager's listener copies the state of one into *)
(* the record of the other (SessionCalls); they share nothing else, so a   *)
(* behaviour is one of either.                                             *)
(***************************************************************************)
EXTENDS CallTimeline, EventFeed

VARIABLE view  \* which account this behaviour is of

ViewInit ==
  /\ view \in {"timeline", "feed"} /\ Init /\ FeedInit
  /\ view = "feed" => ~video /\ info = NewCall("incoming_ringing")
ViewNext ==
  /\ \/ view = "timeline" /\ Next /\ UNCHANGED feedVars
     \/ view = "feed" /\ FeedNext /\ UNCHANGED vars
  /\ UNCHANGED view

ViewSpec == ViewInit /\ [][ViewNext]_<<vars, feedVars, view>>
===============================================================================

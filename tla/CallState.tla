------------------------------ MODULE CallState ------------------------------
(***************************************************************************)
(* The call state table of internal/voip/call/callstate.go: which          *)
(* transition type is legal in which state, and the state it leads to.     *)
(* Constant-level operators only; CallTimeline, CallManager and            *)
(* SessionCalls drive them.                                                *)
(***************************************************************************)

CallStates == {"initiating", "ringing", "incoming_ringing", "connecting",
               "active", "on_hold", "ended"}

LiveStates == CallStates \ {"ended"}

Transitions == {"offer_sent", "offer_received", "local_accepted",
                "remote_accepted", "local_rejected", "remote_rejected",
                "media_connected", "terminated", "hold", "resume",
                "audio_mute_changed", "video_state_changed"}

\* The states ApplyTransition accepts transition t in; it returns an
\* InvalidTransition error, and changes nothing, in every other one.
LegalFrom ==
  [t \in Transitions |->
     CASE t = "offer_sent"          -> {"initiating"}
       [] t = "offer_received"      -> {"initiating"}
       [] t = "remote_accepted"     -> {"ringing"}
       [] t = "local_accepted"      -> {"incoming_ringing"}
       [] t = "remote_rejected"     -> {"ringing"}
       [] t = "local_rejected"      -> {"incoming_ringing"}
       [] t = "media_connected"     -> {"connecting"}
       [] t = "terminated"          -> LiveStates
       [] t = "hold"                -> {"active"}
       [] t = "resume"              -> {"on_hold"}
       [] t = "audio_mute_changed"  -> {"active"}
       [] t = "video_state_changed" -> {"active"}]

Target ==
  [t \in Transitions |->
     CASE t = "offer_sent"                             -> "ringing"
       [] t = "offer_received"                         -> "incoming_ringing"
       [] t \in {"remote_accepted", "local_accepted"}  -> "connecting"
       [] t \in {"remote_rejected", "local_rejected",
                 "terminated"}                         -> "ended"
       [] t = "hold"                                   -> "on_hold"
       [] OTHER                                        -> "active"]

CanApply(st, t) == st \in LegalFrom[t]

\* The state after `_ = call.ApplyTransition(t)`: callers drop the error.
After(st, t) == IF CanApply(st, t) THEN Target[t] ELSE st

\* CallInfo.CanAccept
CanAccept(st) == CanApply(st, "local_accepted")
=============================================================================

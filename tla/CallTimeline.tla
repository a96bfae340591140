----------------------------- MODULE CallTimeline -----------------------------
(***************************************************************************)
(* One CallInfo under every sequence of ApplyTransition calls, legal or    *)
(* not, while time passes: the time stamps, the talk time, the mute and    *)
(* video flags of internal/voip/call/callstate.go.  Nothing here assumes   *)
(* the callers behave; CallManager says which calls they really make.      *)
(***************************************************************************)
EXTENDS CallState, Naturals

CONSTANTS MaxTime,         \* bound of the clock, in ticks
          TicksPerSecond,  \* clock resolution: DurationSecs truncates to seconds
          Reasons          \* core.EndCallReason

ASSUME TimelineAssumption ==
  /\ MaxTime \in Nat \ {0}
  /\ TicksPerSecond \in Nat \ {0}
  /\ "none" \notin Reasons

VARIABLES video,   \* c.MediaType = video, fixed when the call is built
          info,    \* CallInfo.StateData
          now      \* time.Now()

vars == <<video, info, now>>

\* A nil *time.Time; "none" stands for the empty EndReason.
Nil == 0

Times == 0..MaxTime

Info == [state : CallStates, acceptedAt : Times, connectedAt : Times,
         endedAt : Times, endReason : Reasons \cup {"none"}, durationSecs : Nat,
         audioMuted : BOOLEAN, videoOff : BOOLEAN]

TypeOK ==
  /\ video \in BOOLEAN
  /\ info \in Info
  /\ now \in Times \ {Nil}

NewCall(state) ==
  [state |-> state, acceptedAt |-> Nil, connectedAt |-> Nil, endedAt |-> Nil,
   endReason |-> "none", durationSecs |-> 0, audioMuted |-> FALSE,
   videoOff |-> ~video]

\* NewOutgoingCall and NewIncomingCall.
Init ==
  /\ video \in BOOLEAN
  /\ now = 1
  /\ info \in {NewCall("initiating"), NewCall("incoming_ringing")}

\* The ended branch shared by the two rejections and by "terminated".
End(reason, secs) ==
  info' = [info EXCEPT !.state = "ended", !.endedAt = now,
                       !.endReason = reason, !.durationSecs = secs]

\* int(now.Sub(from).Seconds())
Seconds(from) == (now - from) \div TicksPerSecond

\* Mistake: the answer is taken in any state, so a late one restamps the call.
AcceptUnguarded(t) ==
  /\ t \in {"remote_accepted", "local_accepted"}
  /\ info' = [info EXCEPT !.state = Target[t], !.acceptedAt = now]

Accept(t) ==
  /\ t \in {"remote_accepted", "local_accepted"}
  /\ CanApply(info.state, t)
  /\ info' = [info EXCEPT !.state = Target[t], !.acceptedAt = now]

Reject(t, reason) ==
  /\ t \in {"remote_rejected", "local_rejected"}
  /\ CanApply(info.state, t)
  /\ End(reason, info.durationSecs)

MediaConnected ==
  /\ CanApply(info.state, "media_connected")
  /\ info' = [info EXCEPT !.state = "active", !.connectedAt = now,
                          !.videoOff = ~video]

\* Mistake: a call that ends on hold is billed as one that never connected.
TerminatedActiveOnly(reason) ==
  /\ CanApply(info.state, "terminated")
  /\ IF info.state = "active" /\ info.connectedAt # Nil
       THEN End(reason, Seconds(info.connectedAt))
       ELSE End(reason, info.durationSecs)

Terminated(reason) ==
  /\ CanApply(info.state, "terminated")
  /\ IF info.state \in {"active", "on_hold"} /\ info.connectedAt # Nil
       THEN End(reason, Seconds(info.connectedAt))
       ELSE End(reason, info.durationSecs)

\* Transitions that only move the state.
Move(t) ==
  /\ t \in {"offer_sent", "offer_received", "hold", "resume"}
  /\ CanApply(info.state, t)
  /\ info' = [info EXCEPT !.state = Target[t]]

SetFlag(t, on) ==
  /\ CanApply(info.state, t)
  /\ \/ t = "audio_mute_changed"  /\ info' = [info EXCEPT !.audioMuted = on]
     \/ t = "video_state_changed" /\ info' = [info EXCEPT !.videoOff = on]

\* A transition that is illegal in the current state returns an error.
Refused(t) ==
  /\ ~CanApply(info.state, t)
  /\ UNCHANGED info

ApplyTransition(t) ==
  /\ \/ Accept(t)
     \/ \E r \in Reasons : Reject(t, r)
     \/ t = "media_connected" /\ MediaConnected
     \/ t = "terminated" /\ \E r \in Reasons : Terminated(r)
     \/ Move(t)
     \/ \E on \in BOOLEAN : SetFlag(t, on)
     \/ Refused(t)
  /\ UNCHANGED <<video, now>>

Tick ==
  /\ now < MaxTime
  /\ now' = now + 1
  /\ UNCHANGED <<video, info>>

Next == Tick \/ \E t \in Transitions : ApplyTransition(t)

Spec == Init /\ [][Next]_vars
-----------------------------------------------------------------------------
\* The stamps tell the story of the call in order: a connected call was
\* accepted first, an ended call has its end stamped after both, and each stamp
\* is there exactly when the state implies it.
TimelineOrdered ==
  /\ info.acceptedAt <= now /\ info.connectedAt <= now /\ info.endedAt <= now
  /\ info.connectedAt # Nil => info.acceptedAt \in 1..info.connectedAt
  /\ info.endedAt # Nil => info.acceptedAt <= info.endedAt
                           /\ info.connectedAt <= info.endedAt
  /\ info.endedAt # Nil <=> info.state = "ended"
  /\ info.state \in {"active", "on_hold"} => info.connectedAt # Nil
  /\ info.state = "connecting" => info.acceptedAt # Nil /\ info.connectedAt = Nil
  /\ info.state \in {"initiating", "ringing", "incoming_ringing"}
       => info.acceptedAt = Nil /\ info.connectedAt = Nil

\* The billed duration of an ended call is the time from the first media to the
\* end, hold time included, in whole seconds; it is 0 for a call that never
\* connected and until the end.
DurationIsTalkTime ==
  info.durationSecs =
    IF info.state = "ended" /\ info.connectedAt # Nil
      THEN (info.endedAt - info.connectedAt) \div TicksPerSecond
      ELSE 0

\* No later event rewrites what a call recorded about itself: a stamp that is
\* set keeps its value, and an ended call keeps its reason, its duration and
\* its flags however many terminations, rejections or mutes still arrive.
RecordsAreFinal ==
  [][/\ info.acceptedAt # Nil => info'.acceptedAt = info.acceptedAt
     /\ info.connectedAt # Nil => info'.connectedAt = info.connectedAt
     /\ info.state = "ended" => info' = info]_vars

\* Strengthening that is inductive on its own.
Inv == TypeOK /\ TimelineOrdered /\ DurationIsTalkTime
=============================================================================

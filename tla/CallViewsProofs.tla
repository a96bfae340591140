---------------------------- MODULE CallViewsProofs ----------------------------
(***************************************************************************)
(* CallTimeline for every clock resolution, clock bound and set of end     *)
(* reasons: TypeOK, TimelineOrdered and DurationIsTalkTime are inductive   *)
(* together, and RecordsAreFinal follows step by step.                     *)
(*                                                                         *)
(* EventFeed for every set of calls, browsers and writers and every        *)
(* capacity: FeedInv says where each change of a record is on its way to   *)
(* each browser, and ShownIsLive and BrowserLetsGo are what is left of it  *)
(* when everything has arrived.                                            *)
(***************************************************************************)
EXTENDS CallViews, TLAPS

\* Whole seconds between two instants are a natural number.
LEMMA SecondsNat ==
  ASSUME NEW a \in Nat, NEW b \in Nat, a <= b
  PROVE  (b - a) \div TicksPerSecond \in Nat
BY TimelineAssumption

\* A new call has recorded nothing.
LEMMA InvInit == Init => Inv
<1> SUFFICES ASSUME Init PROVE Inv
    OBVIOUS
<1> USE TimelineAssumption DEF Init, NewCall, Times, Nil
<1>1. TypeOK
  <2>1. now \in Times \ {Nil} /\ video \in BOOLEAN
    OBVIOUS
  <2>2. ASSUME NEW state \in CallStates PROVE NewCall(state) \in Info
    BY <2>1 DEF Info
  <2>3. {"initiating", "incoming_ringing"} \subseteq CallStates
    BY DEF CallStates
  <2> QED
    BY <2>1, <2>2, <2>3 DEF TypeOK
<1>2. TimelineOrdered
  BY DEF TimelineOrdered
<1>3. DurationIsTalkTime
  BY DEF DurationIsTalkTime
<1> QED
  BY <1>1, <1>2, <1>3 DEF Inv

\* Ending a live call, with no duration if it never connected and the talk time
\* if it did, keeps the record consistent.
LEMMA EndKeepsInv ==
  ASSUME Inv, info.state # "ended", UNCHANGED <<video, now>>,
         NEW r \in Reasons, NEW secs, End(r, secs),
         secs = IF info.connectedAt = Nil THEN 0 ELSE Seconds(info.connectedAt)
  PROVE  Inv'
<1> USE TimelineAssumption
<1>1. info \in Info /\ now \in Nat /\ now # Nil /\ info.connectedAt \in Nat
      /\ info.connectedAt <= now
  BY DEF Inv, TypeOK, TimelineOrdered, Info, Times, Nil
<1>2. secs \in Nat
  BY <1>1, SecondsNat DEF Seconds
<1>3. TypeOK'
  BY <1>1, <1>2 DEF Inv, TypeOK, End, Info, CallStates, Times, Nil
<1>4. TimelineOrdered'
  BY <1>1 DEF Inv, TypeOK, TimelineOrdered, End, Info, Times, Nil
<1>5. DurationIsTalkTime'
  BY <1>1 DEF DurationIsTalkTime, End, Seconds, Info
<1> QED
  BY <1>3, <1>4, <1>5 DEF Inv

\* Every step of the clock and every transition, legal or refused, keeps Inv.
LEMMA InvNext == Inv /\ [Next]_vars => Inv'
<1> SUFFICES ASSUME Inv, [Next]_vars PROVE Inv'
    OBVIOUS
<1> USE TimelineAssumption
<1>1. CASE Tick
  BY <1>1 DEF Tick, Inv, TypeOK, TimelineOrdered, DurationIsTalkTime, Info, Times, Nil
<1>2. ASSUME NEW t \in Transitions, ApplyTransition(t) PROVE Inv'
  <2> UNCHANGED <<video, now>>
    BY <1>2 DEF ApplyTransition
  <2>1. CASE Accept(t)
    <3>1. /\ info.state \in {"ringing", "incoming_ringing"}
          /\ info' = [info EXCEPT !.state = "connecting", !.acceptedAt = now]
      BY <2>1 DEF Accept, CanApply, LegalFrom, Target, Transitions
    <3>2. info.connectedAt = Nil /\ info.endedAt = Nil
      BY <3>1 DEF Inv, TimelineOrdered
    <3>3. TypeOK'
      BY <3>1 DEF Inv, TypeOK, Info, CallStates
    <3>4. TimelineOrdered'
      BY <3>1, <3>2 DEF Inv, TypeOK, TimelineOrdered, Info, Times, Nil
    <3>5. DurationIsTalkTime'
      BY <3>1, <3>2 DEF Inv, TypeOK, DurationIsTalkTime, Info, Nil
    <3> QED
      BY <3>3, <3>4, <3>5 DEF Inv
  <2>2. ASSUME NEW r \in Reasons, Reject(t, r) PROVE Inv'
    <3>1. /\ info.state \in {"ringing", "incoming_ringing"}
          /\ End(r, info.durationSecs)
      BY <2>2 DEF Reject, CanApply, LegalFrom, Transitions
    <3>2. info.connectedAt = Nil /\ info.durationSecs = 0
      BY <3>1 DEF Inv, TimelineOrdered, DurationIsTalkTime
    <3> QED
      BY <3>1, <3>2, EndKeepsInv
  <2>3. CASE t = "media_connected" /\ MediaConnected
    <3>1. /\ info.state = "connecting"
          /\ info' = [info EXCEPT !.state = "active", !.connectedAt = now,
                                  !.videoOff = ~video]
      BY <2>3 DEF MediaConnected, CanApply, LegalFrom, Transitions
    <3>2. info.acceptedAt # Nil /\ info.endedAt = Nil
      BY <3>1 DEF Inv, TimelineOrdered
    <3>3. TypeOK'
      BY <3>1 DEF Inv, TypeOK, Info, CallStates
    <3>4. TimelineOrdered'
      BY <3>1, <3>2 DEF Inv, TypeOK, TimelineOrdered, Info, Times, Nil
    <3>5. DurationIsTalkTime'
      BY <3>1 DEF Inv, TypeOK, DurationIsTalkTime, Info, Nil
    <3> QED
      BY <3>3, <3>4, <3>5 DEF Inv
  <2>4. ASSUME NEW r \in Reasons, Terminated(r) PROVE Inv'
    <3>1. info.state \in LiveStates
      BY <2>4 DEF Terminated, CanApply, LegalFrom, Transitions
    <3>2. CASE info.state \in {"active", "on_hold"}
      <4>1. info.connectedAt # Nil
        BY <3>2 DEF Inv, TimelineOrdered
      <4> QED
        BY <2>4, <3>2, <4>1, EndKeepsInv DEF Terminated
    <3>3. CASE info.state \notin {"active", "on_hold"}
      <4>1. info.connectedAt = Nil /\ info.durationSecs = 0
        BY <3>1, <3>3 DEF LiveStates, CallStates, Inv, TimelineOrdered,
                          DurationIsTalkTime
      <4> QED
        BY <2>4, <3>1, <3>3, <4>1, EndKeepsInv DEF Terminated, LiveStates
    <3> QED
      BY <3>2, <3>3
  <2>5. CASE Move(t)
    BY <2>5 DEF Move, CanApply, LegalFrom, Target, Transitions, Inv, TypeOK,
                TimelineOrdered, DurationIsTalkTime, Info, CallStates, Times, Nil
  <2>6. ASSUME NEW on \in BOOLEAN, SetFlag(t, on) PROVE Inv'
    BY <2>6 DEF SetFlag, Inv, TypeOK, TimelineOrdered, DurationIsTalkTime, Info
  <2>7. CASE Refused(t)
    BY <2>7 DEF Refused, Inv, TypeOK, TimelineOrdered, DurationIsTalkTime
  <2> QED
    BY <1>2, <2>1, <2>2, <2>3, <2>4, <2>5, <2>6, <2>7 DEF ApplyTransition
<1>3. CASE UNCHANGED vars
  BY <1>3 DEF vars, Inv, TypeOK, TimelineOrdered, DurationIsTalkTime
<1> QED
  BY <1>1, <1>2, <1>3 DEF Next

\* Inv holds after every sequence of transitions and ticks.
THEOREM Invariance == Spec => []Inv
BY InvInit, InvNext, PTL DEF Spec

\* TypeOK for every call and every sequence of transitions.
THEOREM TypeCorrect == Spec => []TypeOK
<1>1. Inv => TypeOK
  BY DEF Inv
<1> QED
  BY <1>1, Invariance, PTL

\* The stamps of callstate.go are consistent with the state and with each other,
\* whatever transitions its callers apply, legal or not.
THEOREM TimelineIsOrdered == Spec => []TimelineOrdered
<1>1. Inv => TimelineOrdered
  BY DEF Inv
<1> QED
  BY <1>1, Invariance, PTL

\* DurationSecs is the talk time of an ended call and 0 otherwise.
THEOREM DurationCorrect == Spec => []DurationIsTalkTime
<1>1. Inv => DurationIsTalkTime
  BY DEF Inv
<1> QED
  BY <1>1, Invariance, PTL

\* A transition writes a stamp only where the invariant says there is none, and
\* no transition is legal in the ended state.
LEMMA StepIsFinal ==
  ASSUME Inv, [Next]_vars
  PROVE  /\ info.acceptedAt # Nil => info'.acceptedAt = info.acceptedAt
         /\ info.connectedAt # Nil => info'.connectedAt = info.connectedAt
         /\ info.state = "ended" => info' = info
<1>1. info \in Info
  BY DEF Inv, TypeOK
<1>2. ASSUME NEW t \in Transitions, ApplyTransition(t)
      PROVE  /\ info.acceptedAt # Nil => info'.acceptedAt = info.acceptedAt
             /\ info.connectedAt # Nil => info'.connectedAt = info.connectedAt
             /\ info.state = "ended" => info' = info
  <2>1. CASE Accept(t)
    <3>1. /\ info.state \in {"ringing", "incoming_ringing"}
          /\ info' = [info EXCEPT !.state = Target[t], !.acceptedAt = now]
      BY <2>1 DEF Accept, CanApply, LegalFrom, Transitions
    <3> QED
      BY <1>1, <3>1 DEF Inv, TimelineOrdered, Info
  <2>2. CASE \E r \in Reasons : Reject(t, r)
    BY <1>1, <2>2 DEF Reject, End, CanApply, LegalFrom, Transitions, Info
  <2>3. CASE MediaConnected
    <3>1. /\ info.state = "connecting"
          /\ info' = [info EXCEPT !.state = "active", !.connectedAt = now,
                                  !.videoOff = ~video]
      BY <2>3 DEF MediaConnected, CanApply, LegalFrom, Transitions
    <3> QED
      BY <1>1, <3>1 DEF Inv, TimelineOrdered, Info
  <2>4. CASE \E r \in Reasons : Terminated(r)
    BY <1>1, <2>4 DEF Terminated, End, CanApply, LegalFrom, LiveStates,
                      Transitions, Info
  <2>5. CASE Move(t)
    BY <1>1, <2>5 DEF Move, CanApply, LegalFrom, Transitions, Info
  <2>6. ASSUME NEW on \in BOOLEAN, SetFlag(t, on)
        PROVE  /\ info.acceptedAt # Nil => info'.acceptedAt = info.acceptedAt
               /\ info.connectedAt # Nil => info'.connectedAt = info.connectedAt
               /\ info.state = "ended" => info' = info
    BY <1>1, <2>6 DEF SetFlag, CanApply, LegalFrom, Transitions, Info
  <2>7. CASE Refused(t)
    BY <2>7 DEF Refused
  <2> QED
    BY <1>2, <2>1, <2>2, <2>3, <2>4, <2>5, <2>6, <2>7 DEF ApplyTransition
<1>3. CASE Tick
  BY <1>3 DEF Tick
<1>4. CASE UNCHANGED vars
  BY <1>4 DEF vars
<1> QED
  BY <1>2, <1>3, <1>4 DEF Next

\* What a call has recorded about itself is never rewritten.
THEOREM RecordsFinal == Spec => RecordsAreFinal
<1>1. Inv /\ [Next]_vars =>
        [/\ info.acceptedAt # Nil => info'.acceptedAt = info.acceptedAt
         /\ info.connectedAt # Nil => info'.connectedAt = info.connectedAt
         /\ info.state = "ended" => info' = info]_vars
  BY StepIsFinal
<1> QED
  BY <1>1, Invariance, PTL DEF Spec, RecordsAreFinal

-------------------------------------------------------------------------------
(* EventFeed: what goroutines have ahead.                                  *)

\* What a goroutine may have ahead.
Plans ==
  {<<>>, <<"list", "send", "status", "ring">>, <<"send", "status", "ring">>,
   <<"status", "ring">>, <<"ring">>,
   <<"list", "send", "status">>, <<"send", "status">>, <<"status">>,
   <<"ended", "list", "send">>, <<"list", "send">>, <<"send">>, <<"claimed">>}

\* The task of p after its first one.
Then(p, task) == Tail(p) # <<>> /\ Head(Tail(p)) = task

PlanSound(p) ==
  /\ p \in Seq(Tasks) /\ Head(p) \in Tasks
  /\ Tail(p) \in Plans /\ (Len(p) = 1 <=> Tail(p) = <<>>)
  /\ ~Then(p, "ended") /\ ~Then(p, "claimed")
  /\ Then(p, "list") <=> Head(p) = "ended"
  /\ Then(p, "send") <=> Head(p) = "list"
  /\ Then(p, "status") => Head(p) = "send"
  /\ RingIn(Tail(p)) <=> RingIn(p) /\ Head(p) # "ring"
  /\ Head(p) = "ring" => RingIn(p)
  /\ Head(p) = "claimed" => Tail(p) = <<>>
  /\ Head(p) \in {"ended", "claimed"} => ~RingIn(p)

\* The order in which the tasks of a plan follow each other.
LEMMA PlanFacts ==
  ASSUME NEW p \in Plans, p # <<>>
  PROVE  PlanSound(p)
<1>1. CASE p = <<"list", "send", "status", "ring">>
  <2>1. p \in Seq(Tasks) /\ Len(p) = 4 /\ Head(p) = "list" /\ p[4] = "ring"
       /\ Tail(p) = <<"send", "status", "ring">>
    BY <1>1 DEF Tasks
  <2>2. Len(<<"send", "status", "ring">>) = 3
       /\ Head(<<"send", "status", "ring">>) = "send" /\ <<"send", "status", "ring">>[3] = "ring" /\ <<"send", "status", "ring">> # <<>>
    OBVIOUS
  <2>3. Len(Tail(p)) = 3 /\ Head(Tail(p)) = "send" /\ Tail(p)[3] = "ring" /\ Tail(p) # <<>>
    BY ONLY <2>1, <2>2, Zenon
  <2>4. p # <<>> /\ Tail(p) \in Plans
    <3>1. p # <<>>
      BY <2>1
    <3>2. Tail(p) \in Plans
      BY ONLY <2>1, Zenon DEF Plans
    <3> QED BY <3>1, <3>2
  <2>5. (RingIn(p) <=> TRUE) /\ (RingIn(Tail(p)) <=> TRUE)
    BY ONLY <2>1, <2>3, <2>4, Zenon DEF RingIn
  <2>6. \A task : Then(p, task) <=> task = "send"
    BY <2>3, <2>4 DEF Then
  <2> QED BY <2>1, <2>3, <2>4, <2>5, <2>6 DEF PlanSound, Tasks
<1>2. CASE p = <<"send", "status", "ring">>
  <2>1. p \in Seq(Tasks) /\ Len(p) = 3 /\ Head(p) = "send" /\ p[3] = "ring"
       /\ Tail(p) = <<"status", "ring">>
    BY <1>2 DEF Tasks
  <2>2. Len(<<"status", "ring">>) = 2 /\ Head(<<"status", "ring">>) = "status"
       /\ <<"status", "ring">>[2] = "ring" /\ <<"status", "ring">> # <<>>
    OBVIOUS
  <2>3. Len(Tail(p)) = 2 /\ Head(Tail(p)) = "status" /\ Tail(p)[2] = "ring" /\ Tail(p) # <<>>
    BY ONLY <2>1, <2>2, Zenon
  <2>4. p # <<>> /\ Tail(p) \in Plans
    <3>1. p # <<>>
      BY <2>1
    <3>2. Tail(p) \in Plans
      BY ONLY <2>1, Zenon DEF Plans
    <3> QED BY <3>1, <3>2
  <2>5. (RingIn(p) <=> TRUE) /\ (RingIn(Tail(p)) <=> TRUE)
    BY ONLY <2>1, <2>3, <2>4, Zenon DEF RingIn
  <2>6. \A task : Then(p, task) <=> task = "status"
    BY <2>3, <2>4 DEF Then
  <2> QED BY <2>1, <2>3, <2>4, <2>5, <2>6 DEF PlanSound, Tasks
<1>3. CASE p = <<"status", "ring">>
  <2>1. p \in Seq(Tasks) /\ Len(p) = 2 /\ Head(p) = "status" /\ p[2] = "ring"
       /\ Tail(p) = <<"ring">>
    BY <1>3 DEF Tasks
  <2>2. Len(<<"ring">>) = 1 /\ Head(<<"ring">>) = "ring" /\ <<"ring">>[1] = "ring"
       /\ <<"ring">> # <<>>
    OBVIOUS
  <2>3. Len(Tail(p)) = 1 /\ Head(Tail(p)) = "ring" /\ Tail(p)[1] = "ring" /\ Tail(p) # <<>>
    BY ONLY <2>1, <2>2, Zenon
  <2>4. p # <<>> /\ Tail(p) \in Plans
    <3>1. p # <<>>
      BY <2>1
    <3>2. Tail(p) \in Plans
      BY ONLY <2>1, Zenon DEF Plans
    <3> QED BY <3>1, <3>2
  <2>5. (RingIn(p) <=> TRUE) /\ (RingIn(Tail(p)) <=> TRUE)
    BY ONLY <2>1, <2>3, <2>4, Zenon DEF RingIn
  <2>6. \A task : Then(p, task) <=> task = "ring"
    BY <2>3, <2>4 DEF Then
  <2> QED BY <2>1, <2>3, <2>4, <2>5, <2>6 DEF PlanSound, Tasks
<1>4. CASE p = <<"ring">>
  <2>1. p \in Seq(Tasks) /\ Len(p) = 1 /\ Head(p) = "ring" /\ p[1] = "ring" /\ Tail(p) = <<>>
    BY <1>4 DEF Tasks
  <2>4. p # <<>> /\ Tail(p) \in Plans
    <3>1. p # <<>>
      BY <2>1
    <3>2. Tail(p) \in Plans
      BY ONLY <2>1, Zenon DEF Plans
    <3> QED BY <3>1, <3>2
  <2> QED BY <2>1, <2>4 DEF PlanSound, Then, RingIn, Tasks
<1>5. CASE p = <<"list", "send", "status">>
  <2>1. p \in Seq(Tasks) /\ Len(p) = 3 /\ Head(p) = "list" /\ p[3] = "status"
       /\ Tail(p) = <<"send", "status">>
    BY <1>5 DEF Tasks
  <2>2. Len(<<"send", "status">>) = 2 /\ Head(<<"send", "status">>) = "send"
       /\ <<"send", "status">>[2] = "status" /\ <<"send", "status">> # <<>>
    OBVIOUS
  <2>3. Len(Tail(p)) = 2 /\ Head(Tail(p)) = "send" /\ Tail(p)[2] = "status" /\ Tail(p) # <<>>
    BY ONLY <2>1, <2>2, Zenon
  <2>4. p # <<>> /\ Tail(p) \in Plans
    <3>1. p # <<>>
      BY <2>1
    <3>2. Tail(p) \in Plans
      BY ONLY <2>1, Zenon DEF Plans
    <3> QED BY <3>1, <3>2
  <2>5. (RingIn(p) <=> FALSE) /\ (RingIn(Tail(p)) <=> FALSE)
    BY ONLY <2>1, <2>3, <2>4, Zenon DEF RingIn
  <2>6. \A task : Then(p, task) <=> task = "send"
    BY <2>3, <2>4 DEF Then
  <2> QED BY <2>1, <2>3, <2>4, <2>5, <2>6 DEF PlanSound, Tasks
<1>6. CASE p = <<"send", "status">>
  <2>1. p \in Seq(Tasks) /\ Len(p) = 2 /\ Head(p) = "send" /\ p[2] = "status"
       /\ Tail(p) = <<"status">>
    BY <1>6 DEF Tasks
  <2>2. Len(<<"status">>) = 1 /\ Head(<<"status">>) = "status"
       /\ <<"status">>[1] = "status" /\ <<"status">> # <<>>
    OBVIOUS
  <2>3. Len(Tail(p)) = 1 /\ Head(Tail(p)) = "status" /\ Tail(p)[1] = "status" /\ Tail(p) # <<>>
    BY ONLY <2>1, <2>2, Zenon
  <2>4. p # <<>> /\ Tail(p) \in Plans
    <3>1. p # <<>>
      BY <2>1
    <3>2. Tail(p) \in Plans
      BY ONLY <2>1, Zenon DEF Plans
    <3> QED BY <3>1, <3>2
  <2>5. (RingIn(p) <=> FALSE) /\ (RingIn(Tail(p)) <=> FALSE)
    BY ONLY <2>1, <2>3, <2>4, Zenon DEF RingIn
  <2>6. \A task : Then(p, task) <=> task = "status"
    BY <2>3, <2>4 DEF Then
  <2> QED BY <2>1, <2>3, <2>4, <2>5, <2>6 DEF PlanSound, Tasks
<1>7. CASE p = <<"status">>
  <2>1. p \in Seq(Tasks) /\ Len(p) = 1 /\ Head(p) = "status" /\ p[1] = "status"
       /\ Tail(p) = <<>>
    BY <1>7 DEF Tasks
  <2>4. p # <<>> /\ Tail(p) \in Plans
    <3>1. p # <<>>
      BY <2>1
    <3>2. Tail(p) \in Plans
      BY ONLY <2>1, Zenon DEF Plans
    <3> QED BY <3>1, <3>2
  <2> QED BY <2>1, <2>4 DEF PlanSound, Then, RingIn, Tasks
<1>8. CASE p = <<"ended", "list", "send">>
  <2>1. p \in Seq(Tasks) /\ Len(p) = 3 /\ Head(p) = "ended" /\ p[3] = "send"
       /\ Tail(p) = <<"list", "send">>
    BY <1>8 DEF Tasks
  <2>2. Len(<<"list", "send">>) = 2 /\ Head(<<"list", "send">>) = "list"
       /\ <<"list", "send">>[2] = "send" /\ <<"list", "send">> # <<>>
    OBVIOUS
  <2>3. Len(Tail(p)) = 2 /\ Head(Tail(p)) = "list" /\ Tail(p)[2] = "send" /\ Tail(p) # <<>>
    BY ONLY <2>1, <2>2, Zenon
  <2>4. p # <<>> /\ Tail(p) \in Plans
    <3>1. p # <<>>
      BY <2>1
    <3>2. Tail(p) \in Plans
      BY ONLY <2>1, Zenon DEF Plans
    <3> QED BY <3>1, <3>2
  <2>5. (RingIn(p) <=> FALSE) /\ (RingIn(Tail(p)) <=> FALSE)
    BY ONLY <2>1, <2>3, <2>4, Zenon DEF RingIn
  <2>6. \A task : Then(p, task) <=> task = "list"
    BY <2>3, <2>4 DEF Then
  <2> QED BY <2>1, <2>3, <2>4, <2>5, <2>6 DEF PlanSound, Tasks
<1>9. CASE p = <<"list", "send">>
  <2>1. p \in Seq(Tasks) /\ Len(p) = 2 /\ Head(p) = "list" /\ p[2] = "send"
       /\ Tail(p) = <<"send">>
    BY <1>9 DEF Tasks
  <2>2. Len(<<"send">>) = 1 /\ Head(<<"send">>) = "send" /\ <<"send">>[1] = "send"
       /\ <<"send">> # <<>>
    OBVIOUS
  <2>3. Len(Tail(p)) = 1 /\ Head(Tail(p)) = "send" /\ Tail(p)[1] = "send" /\ Tail(p) # <<>>
    BY ONLY <2>1, <2>2, Zenon
  <2>4. p # <<>> /\ Tail(p) \in Plans
    <3>1. p # <<>>
      BY <2>1
    <3>2. Tail(p) \in Plans
      BY ONLY <2>1, Zenon DEF Plans
    <3> QED BY <3>1, <3>2
  <2>5. (RingIn(p) <=> FALSE) /\ (RingIn(Tail(p)) <=> FALSE)
    BY ONLY <2>1, <2>3, <2>4, Zenon DEF RingIn
  <2>6. \A task : Then(p, task) <=> task = "send"
    BY <2>3, <2>4 DEF Then
  <2> QED BY <2>1, <2>3, <2>4, <2>5, <2>6 DEF PlanSound, Tasks
<1>10. CASE p = <<"send">>
  <2>1. p \in Seq(Tasks) /\ Len(p) = 1 /\ Head(p) = "send" /\ p[1] = "send" /\ Tail(p) = <<>>
    BY <1>10 DEF Tasks
  <2>4. p # <<>> /\ Tail(p) \in Plans
    <3>1. p # <<>>
      BY <2>1
    <3>2. Tail(p) \in Plans
      BY ONLY <2>1, Zenon DEF Plans
    <3> QED BY <3>1, <3>2
  <2> QED BY <2>1, <2>4 DEF PlanSound, Then, RingIn, Tasks
<1>11. CASE p = <<"claimed">>
  <2>1. p \in Seq(Tasks) /\ Len(p) = 1 /\ Head(p) = "claimed" /\ p[1] = "claimed"
       /\ Tail(p) = <<>>
    BY <1>11 DEF Tasks
  <2>4. p # <<>> /\ Tail(p) \in Plans
    <3>1. p # <<>>
      BY <2>1
    <3>2. Tail(p) \in Plans
      BY ONLY <2>1, Zenon DEF Plans
    <3> QED BY <3>1, <3>2
  <2> QED BY <2>1, <2>4 DEF PlanSound, Then, RingIn, Tasks
<1> QED BY <1>1, <1>2, <1>3, <1>4, <1>5, <1>6, <1>7, <1>8, <1>9, <1>10, <1>11 DEF Plans

\* What a goroutine may have ahead that is about no one call.
Bare == {<<>>, <<"list", "send">>, <<"send">>}

\* A plan that is about no one call stays so, and rings for none.
LEMMA BareFacts ==
  ASSUME NEW p \in Bare, p # <<>>
  PROVE  Tail(p) \in Bare /\ Head(p) \in {"list", "send"} /\ ~RingIn(p)
<1>1. CASE p = <<"list", "send">>
  <2>1. Head(p) = "list" /\ Len(p) = 2 /\ p[2] = "send" /\ Tail(p) = <<"send">>
    BY <1>1
  <2> QED BY <2>1 DEF Bare, RingIn
<1>2. CASE p = <<"send">>
  <2>1. Head(p) = "send" /\ Len(p) = 1 /\ p[1] = "send" /\ Tail(p) = <<>>
    BY <1>2
  <2> QED BY <2>1 DEF Bare, RingIn
<1> QED BY <1>1, <1>2 DEF Bare

-------------------------------------------------------------------------------
(* The invariant.                                                          *)

\* An event says the whole state of c, or something of it.
Covers(e, c) == e.kind = "list" \/ (e.kind = "ended" /\ e.id = c)
About(e, c) == Covers(e, c) \/ (e.kind = "status" /\ e.id = c)
Ends(e, c) == e.kind \in {"ended", "claimed"} /\ e.id = c

\* An event of one call names it, and its end leaves nothing of it.
Meant(e) ==
  /\ e.kind # "list" => e.id \in Ids
  /\ e.kind = "ended" => e.list[e.id] = "none"

\* A goroutine has one of the plans ahead, and but for a new stream's it is about a call.
Planned(t) ==
  /\ thread[t].todo \in Plans
  /\ thread[t].id \in Ids \/ thread[t].todo \in Bare
  /\ Due(t, "ended") => thread[t].status = "none"

Asked(b) == hook[b].step # "idle" => hook[b].id \in Ids

ServerTypes ==
  /\ calls \in [Ids -> Statuses] /\ owner \in [Ids -> Browsers \cup {Other, NoOwner}]
  /\ rev \in [Ids -> Nat]
  /\ thread \in [Threads -> [todo : Seq(Tasks), id : Ids \cup {NoId}, status : Statuses,
                             rev : Nat, list : [Ids -> Statuses], revs : [Ids -> Nat]]]
  /\ \A t \in Threads : Planned(t)
StreamTypes ==
  /\ conn \in [Browsers -> {"off", "ticket", "open"}] /\ queue \in [Browsers -> Seq(Event)]
  /\ \A b \in Browsers : /\ Len(queue[b]) <= Capacity /\ (conn[b] # "open" => queue[b] = <<>>)
                         /\ \A i \in 1..Len(queue[b]) : Meant(queue[b][i])
ToldTypes ==
  /\ sent \in [Ids -> Nat] /\ overtaken \subseteq Ids /\ lateRing \subseteq Ids
  /\ missed \in [Browsers -> SUBSET Ids] /\ unheard \in [Browsers -> SUBSET Ids]
StoreTypes ==
  /\ shown \in [Browsers -> [Ids -> Statuses]] /\ incoming \in [Browsers -> Ids \cup {NoId}]
  /\ own \in [Browsers -> SUBSET Ids] /\ lateMic \in [Browsers -> SUBSET Ids]
  /\ hook \in [Browsers -> [step : {"idle", "claim", "claimed", "media", "register"},
                            id : Ids \cup {NoId}, over : BOOLEAN]]
  /\ \A b \in Browsers : Asked(b)
Types == ServerTypes /\ StreamTypes /\ ToldTypes /\ StoreTypes

\* What goroutine t knows of c is no newer than the record, and is the record if
\* it is as new; the list is told before the status is.
Counted(t, c) ==
  /\ thread[t].id = c =>
       /\ thread[t].rev <= rev[c]
       /\ thread[t].rev = rev[c] => Due(t, "claimed") \/ thread[t].status = calls[c]
       /\ Due(t, "status") => thread[t].rev <= sent[c]
       /\ Due(t, "send") => thread[t].rev <= thread[t].revs[c]
  /\ Due(t, "send") => /\ thread[t].revs[c] <= rev[c]
                       /\ thread[t].revs[c] = rev[c] => thread[t].list[c] = calls[c]

\* A change that has not been told will be.
Tellers(c, t) == \/ Due(t, "list") \/ Due(t, "ended")
                 \/ Due(t, "send") /\ thread[t].revs[c] = rev[c]
Told(c) ==
  /\ sent[c] <= rev[c] /\ (sent[c] = rev[c] \/ \E t \in Threads : Tellers(c, t))
  /\ rev[c] = 0 => calls[c] = "none"

\* Browser b will show c as v: the store or an event of the channel says so, and
\* nothing that follows says otherwise.
Says(b, c, v, i) == IF i = 0 THEN shown[b][c] = v
                    ELSE Covers(queue[b][i], c) /\ queue[b][i].list[c] = v
Leads(b, c, v) ==
  \E i \in 0..Len(queue[b]) :
    /\ Says(b, c, v, i)
    /\ \A j \in (i + 1)..Len(queue[b]) : About(queue[b][j], c) => queue[b][j].list[c] = v
Current(b, c) ==
  conn[b] = "open" => \/ c \in missed[b] \cup overtaken \/ sent[c] # rev[c]
                      \/ Leads(b, c, calls[c])

\* Call c waits for an answer, or the browsers will be told that it does not.
Ending(c) == \/ \E t \in Threads : thread[t].id = c /\ (Due(t, "ended") \/ Due(t, "claimed"))
             \/ \E b \in Browsers : hook[b].step = "claimed" /\ hook[b].id = c
Rings(c) == (calls[c] # "none" /\ owner[c] = NoOwner) \/ Ending(c)
Known(b, c) == c \in unheard[b] \cup lateRing

\* A ring that is due, one that is in a channel and one that is shown are for such
\* a call, or the event that ends it comes after.
RingTrue(c) == RingDue(c) => Rings(c) \/ c \in lateRing
EndsAfter(b, c, i) == \E j \in 1..Len(queue[b]) : j > i /\ Ends(queue[b][j], c)
RingAt(b, c, i) == IF i = 0 THEN incoming[b] = c
                   ELSE queue[b][i].kind = "incoming" /\ queue[b][i].id = c
RingSeen(b, c) ==
  \A i \in 0..Len(queue[b]) : RingAt(b, c, i) => Rings(c) \/ Known(b, c) \/ EndsAfter(b, c, i)

\* Call c is there, or browser b will be told that it is not.
EndDue(c) == \E t \in Threads : thread[t].id = c /\ Due(t, "ended")
There(c) == calls[c] # "none" \/ EndDue(c)
Alive(b, c) == There(c) \/ c \in unheard[b]
               \/ \E j \in 1..Len(queue[b]) : queue[b][j].kind = "ended" /\ queue[b][j].id = c
MicHeld(b, c) == c \in own[b] => Alive(b, c) \/ c \in lateMic[b]
Answering(b) == hook[b].step \in {"claimed", "media", "register"}
HookHeld(b, c) == Answering(b) /\ hook[b].id = c => hook[b].over \/ Alive(b, c)

FeedInv ==
  /\ Types
  /\ \A t \in Threads, c \in Ids : Counted(t, c)
  /\ \A c \in Ids : Told(c) /\ RingTrue(c)
  /\ \A b \in Browsers, c \in Ids : /\ Current(b, c) /\ RingSeen(b, c)
                                    /\ MicHeld(b, c) /\ HookHeld(b, c)

\* The types are FeedTypeOK's.
LEMMA TypesOfFeed == Types => FeedTypeOK
<1> SUFFICES ASSUME Types PROVE FeedTypeOK
  OBVIOUS
<1> QED BY DEF Types, ServerTypes, StreamTypes, ToldTypes, StoreTypes, FeedTypeOK

-------------------------------------------------------------------------------
(* The steps.                                                              *)

\* Before anything has happened there is nothing to tell.
LEMMA FeedInvInit == FeedInit => FeedInv
<1> SUFFICES ASSUME FeedInit PROVE FeedInv
  OBVIOUS
<1>1. /\ calls = NoCalls /\ owner = [c \in Ids |-> NoOwner] /\ rev = [c \in Ids |-> 0]
      /\ thread = [t \in Threads |-> Silent] /\ sent = rev
      /\ overtaken = {} /\ lateRing = {}
  BY DEF FeedInit
<1>2. /\ conn = [b \in Browsers |-> "off"] /\ queue = [b \in Browsers |-> <<>>]
      /\ shown = [b \in Browsers |-> NoCalls] /\ incoming = [b \in Browsers |-> NoId]
      /\ own = [b \in Browsers |-> {}] /\ hook = [b \in Browsers |-> NoHook]
      /\ missed = own /\ unheard = own /\ lateMic = own
  BY DEF FeedInit
<1>3. NoCalls \in [Ids -> Statuses] /\ NoId \notin Ids
  BY FeedAssumption DEF NoCalls, Statuses
<1>4. Silent.todo = <<>> /\ Silent.id = NoId /\ Silent.status = "none" /\ Silent.rev = 0
      /\ Silent.list = NoCalls /\ Silent.revs = [c \in Ids |-> 0]
  BY DEF Silent
<1>5. Silent \in [todo : Seq(Tasks), id : Ids \cup {NoId}, status : Statuses,
                  rev : Nat, list : [Ids -> Statuses], revs : [Ids -> Nat]]
  BY <1>3 DEF Silent, Statuses
<1>6. \A t \in Threads : Free(t) /\ \A task : ~Due(t, task)
  BY <1>1, <1>4 DEF Free, Due
<1>7. ServerTypes
  <2>1. \A t \in Threads : Planned(t)
    BY <1>1, <1>4, <1>6 DEF Planned, Plans, Bare
  <2> QED BY <1>1, <1>3, <1>5, <2>1 DEF ServerTypes
<1>8. StreamTypes /\ ToldTypes
  BY <1>1, <1>2, FeedAssumption DEF StreamTypes, ToldTypes
<1>9. StoreTypes
  BY <1>2, <1>3 DEF StoreTypes, Asked, NoHook
<1>10. \A t \in Threads, c \in Ids : Counted(t, c)
  BY <1>1, <1>3, <1>4, <1>6 DEF Counted
<1>11. \A c \in Ids : Told(c) /\ RingTrue(c)
  BY <1>1, <1>4 DEF Told, RingTrue, RingDue, RingIn, NoCalls
<1>12. \A b \in Browsers, c \in Ids : Current(b, c) /\ RingSeen(b, c)
  BY <1>2, <1>3 DEF Current, RingSeen, RingAt
<1>13. \A b \in Browsers, c \in Ids : MicHeld(b, c) /\ HookHeld(b, c)
  BY <1>2 DEF MicHeld, HookHeld, Answering, NoHook
<1> QED BY <1>7, <1>8, <1>9, <1>10, <1>11, <1>12, <1>13 DEF FeedInv, Types

ThreadRec == [todo : Seq(Tasks), id : Ids \cup {NoId}, status : Statuses, rev : Nat,
              list : [Ids -> Statuses], revs : [Ids -> Nat]]

\* A goroutine with nothing to tell.
LEMMA SilentFacts ==
  /\ Silent \in ThreadRec
  /\ Silent.todo = <<>> /\ Silent.id = NoId /\ Silent.status = "none" /\ Silent.rev = 0
  /\ NoId \notin Ids /\ NoCalls \in [Ids -> Statuses]
<1>1. NoId \notin Ids /\ NoCalls \in [Ids -> Statuses]
  BY FeedAssumption DEF NoCalls, Statuses
<1> QED BY <1>1 DEF Silent, ThreadRec, Statuses

\* What a goroutine that has told its first task has ahead.
LEMMA SpokenFacts ==
  ASSUME Types, NEW t \in Threads, ~Free(t), Spoken(t)
  PROVE  /\ thread' \in [Threads -> ThreadRec]
         /\ \A u \in Threads : Planned(u)'
         /\ \A u \in Threads \ {t} : thread'[u] = thread[u]
         /\ thread'[t].todo = Tail(thread[t].todo)
         /\ \/ thread'[t].todo = <<>> /\ thread'[t].id = NoId
            \/ /\ thread'[t].id = thread[t].id /\ thread'[t].status = thread[t].status
               /\ thread'[t].rev = thread[t].rev /\ thread'[t].list = thread[t].list
               /\ thread'[t].revs = thread[t].revs
         /\ \A task : Due(t, task)' <=> Then(thread[t].todo, task)
         /\ PlanSound(thread[t].todo)
<1> DEFINE p == thread[t].todo
<1>1. thread \in [Threads -> ThreadRec] /\ Planned(t)
  BY DEF Types, ServerTypes, ThreadRec
<1>2. p \in Plans /\ p # <<>> /\ PlanSound(p)
  BY <1>1, PlanFacts DEF Planned, Free
<1>3. p \in Seq(Tasks) /\ Tail(p) \in Plans /\ (Len(p) = 1 <=> Tail(p) = <<>>)
  BY <1>2 DEF PlanSound
<1>4. Tail(p) \in Seq(Tasks)
  <2>1. CASE Tail(p) = <<>>
    <3>1. <<>> \in Seq(Tasks)
      OBVIOUS
    <3> QED BY ONLY <2>1, <3>1
  <2>2. CASE Tail(p) # <<>>
    BY <1>3, <2>2, PlanFacts DEF PlanSound
  <2> QED BY <2>1, <2>2
<1>5. PICK r : r = thread[t]
  OBVIOUS
<1>6. r \in ThreadRec /\ r.todo = p
  BY <1>1, <1>5
<1>7. thread' = [thread EXCEPT ![t] = IF Len(p) = 1 THEN Silent ELSE [r EXCEPT !.todo = Tail(p)]]
  BY <1>5 DEF Spoken
<1>8. CASE Len(p) = 1
  <2>1. thread'[t] = Silent /\ Tail(p) = <<>>
    BY <1>1, <1>3, <1>7, <1>8
  <2>2. thread' \in [Threads -> ThreadRec]
    BY <1>1, <1>7, <1>8, SilentFacts
  <2>3. \A u \in Threads \ {t} : thread'[u] = thread[u]
    BY <1>1, <1>7
  <2>4. \A task : ~Due(t, task)'
    BY <2>1, SilentFacts DEF Due, Free
  <2>5. \A u \in Threads : Planned(u)'
    <3>1. Planned(t)'
      BY <2>1, <2>4, SilentFacts DEF Planned, Plans, Bare
    <3>2. ASSUME NEW u \in Threads \ {t} PROVE Planned(u)'
      BY <2>3 DEF Planned, Types, ServerTypes, Due, Free
    <3> QED BY <3>1, <3>2
  <2> QED BY <1>2, <2>1, <2>2, <2>3, <2>4, <2>5, SilentFacts DEF Then
<1>9. CASE Len(p) # 1
  <2>1. PICK q : q = [r EXCEPT !.todo = Tail(p)]
    OBVIOUS
  <2>2. q \in ThreadRec /\ q.todo = Tail(p) /\ q.id = r.id /\ q.status = r.status
        /\ q.rev = r.rev /\ q.list = r.list /\ q.revs = r.revs
    BY <1>4, <1>6, <2>1 DEF ThreadRec
  <2>3. thread' = [thread EXCEPT ![t] = q]
    BY <1>7, <1>9, <2>1
  <2>4. thread'[t] = q /\ thread' \in [Threads -> ThreadRec]
        /\ \A u \in Threads \ {t} : thread'[u] = thread[u]
    BY <1>1, <2>2, <2>3
  <2>5. \A task : Due(t, task)' <=> Then(p, task)
    BY <2>2, <2>4 DEF Due, Free, Then
  <2>6. \A u \in Threads : Planned(u)'
    <3>1. Tail(p) \in Bare \/ r.id \in Ids
      BY <1>1, <1>2, <1>5, BareFacts DEF Planned
    <3>2. Planned(t)'
      BY <1>2, <1>3, <2>2, <2>4, <2>5, <3>1 DEF Planned, PlanSound
    <3>3. ASSUME NEW u \in Threads \ {t} PROVE Planned(u)'
      BY <2>4 DEF Planned, Types, ServerTypes, Due, Free
    <3> QED BY <3>2, <3>3
  <2> QED BY <1>2, <1>5, <2>2, <2>4, <2>5, <2>6
<1> QED BY <1>8, <1>9

Old(c, revs) == revs[c] < sent[c]
Whole(e) == e.kind \in {"list", "ended"}
Last(e) == e.kind \in {"ended", "claimed"}

\* An event that is sent: who gets it, and what the history keeps of it.
Effect(e, tells, revs) ==
  /\ \A b \in Browsers :
       /\ Reaches(b) => queue'[b] = Append(queue[b], e)
       /\ ~Reaches(b) => queue'[b] = queue[b]
  /\ \A c \in Ids :
       /\ c \in tells /\ ~Old(c, revs) => sent'[c] = revs[c]
       /\ (c \notin tells \/ Old(c, revs)) => sent'[c] = sent[c]
       /\ c \in overtaken' <=> \/ c \in tells /\ Old(c, revs)
                               \/ c \in overtaken /\ ~(Whole(e) /\ c \in tells)
       /\ c \in lateRing' <=> \/ c \in lateRing
                              \/ c = e.id /\ Last(e) /\ RingDue(c)
  /\ \A b \in Browsers, c \in Ids :
       /\ c \in missed'[b] <=> \/ c \in missed[b] /\ ~(Reaches(b) /\ Whole(e) /\ c \in tells)
                               \/ c \in tells /\ conn[b] = "open" /\ ~Reaches(b)
       /\ c \in unheard'[b] <=> \/ c \in unheard[b]
                                \/ c = e.id /\ Last(e) /\ ~Reaches(b)

\* It has that effect, and keeps the types.
LEMMA SendFacts ==
  ASSUME Types, NEW e \in Event, Meant(e), NEW tells \in SUBSET Ids, NEW revs \in [Ids -> Nat],
         Send(e, tells, revs), conn' = conn
  PROVE  StreamTypes' /\ ToldTypes' /\ Effect(e, tells, revs)
<1>1. /\ sent \in [Ids -> Nat] /\ overtaken \subseteq Ids /\ lateRing \subseteq Ids
      /\ missed \in [Browsers -> SUBSET Ids] /\ unheard \in [Browsers -> SUBSET Ids]
      /\ queue \in [Browsers -> Seq(Event)] /\ conn \in [Browsers -> {"off", "ticket", "open"}]
  BY DEF Types, StreamTypes, ToldTypes
<1>2. Last(e) => e.id \in Ids
  BY DEF Last, Meant
<1>3. PICK old : old = {c \in tells : Old(c, revs)}
  OBVIOUS
<1>4. /\ queue' = [b \in Browsers |-> IF Reaches(b) THEN Append(queue[b], e) ELSE queue[b]]
      /\ sent' = [c \in Ids |-> IF c \in tells \ old THEN revs[c] ELSE sent[c]]
      /\ overtaken' = (IF Whole(e) THEN overtaken \ tells ELSE overtaken) \cup old
      /\ lateRing' = IF Last(e) /\ RingDue(e.id) THEN lateRing \cup {e.id} ELSE lateRing
      /\ missed' = [b \in Browsers |-> IF conn[b] # "open" THEN missed[b]
                                       ELSE IF ~Reaches(b) THEN missed[b] \cup tells
                                       ELSE IF Whole(e) THEN missed[b] \ tells ELSE missed[b]]
      /\ unheard' = [b \in Browsers |-> IF Last(e) /\ ~Reaches(b) THEN unheard[b] \cup {e.id}
                                        ELSE unheard[b]]
  BY <1>3 DEF Send, Whole, Last, Old
<1>5. \A b \in Browsers : /\ Reaches(b) => queue'[b] = Append(queue[b], e)
                          /\ ~Reaches(b) => queue'[b] = queue[b]
  BY <1>4
<1>6. \A c \in Ids : /\ c \in tells /\ ~Old(c, revs) => sent'[c] = revs[c]
                     /\ (c \notin tells \/ Old(c, revs)) => sent'[c] = sent[c]
  BY <1>1, <1>3, <1>4
<1>7. \A c \in Ids : /\ c \in overtaken' <=> \/ c \in tells /\ Old(c, revs)
                                             \/ c \in overtaken /\ ~(Whole(e) /\ c \in tells)
                     /\ c \in lateRing' <=> \/ c \in lateRing
                                            \/ c = e.id /\ Last(e) /\ RingDue(c)
  BY <1>1, <1>3, <1>4
<1>8. \A b \in Browsers, c \in Ids :
        /\ c \in missed'[b] <=> \/ c \in missed[b] /\ ~(Reaches(b) /\ Whole(e) /\ c \in tells)
                                \/ c \in tells /\ conn[b] = "open" /\ ~Reaches(b)
        /\ c \in unheard'[b] <=> \/ c \in unheard[b]
                                 \/ c = e.id /\ Last(e) /\ ~Reaches(b)
  BY <1>1, <1>4 DEF Reaches
<1>9. ToldTypes'
  <2>1. sent' \in [Ids -> Nat]
    BY <1>1, <1>4
  <2>2. overtaken' \subseteq Ids /\ lateRing' \subseteq Ids
    BY <1>1, <1>2, <1>3, <1>4
  <2>3. missed' \in [Browsers -> SUBSET Ids] /\ unheard' \in [Browsers -> SUBSET Ids]
    BY <1>1, <1>2, <1>4
  <2> QED BY <2>1, <2>2, <2>3 DEF ToldTypes
<1>10. StreamTypes'
  <2>1. queue' \in [Browsers -> Seq(Event)]
    BY <1>1, <1>4
  <2>2. ASSUME NEW b \in Browsers
        PROVE  /\ Len(queue'[b]) <= Capacity /\ (conn[b] # "open" => queue'[b] = <<>>)
               /\ \A i \in 1..Len(queue'[b]) : Meant(queue'[b][i])
    <3>1. Len(queue[b]) <= Capacity /\ (conn[b] # "open" => queue[b] = <<>>)
          /\ \A i \in 1..Len(queue[b]) : Meant(queue[b][i])
      BY DEF Types, StreamTypes
    <3>2. CASE ~Reaches(b)
      BY <1>5, <3>1, <3>2
    <3>3. CASE Reaches(b)
      <4>1. queue'[b] = Append(queue[b], e) /\ queue[b] \in Seq(Event)
        BY <1>1, <1>5, <3>3
      <4>2. Len(queue'[b]) = Len(queue[b]) + 1 /\ Len(queue[b]) \in Nat
        BY <4>1
      <4>3. ASSUME NEW i \in 1..Len(queue'[b]) PROVE Meant(queue'[b][i])
        <5>1. CASE i = Len(queue[b]) + 1
          BY <4>1, <5>1
        <5>2. CASE i # Len(queue[b]) + 1
          <6>1. i \in 1..Len(queue[b])
            BY <4>2, <5>2
          <6>2. queue'[b][i] = queue[b][i]
            BY <4>1, <6>1
          <6> QED BY <3>1, <6>1, <6>2
        <5> QED BY <5>1, <5>2
      <4> QED BY <3>3, <4>2, <4>3, FeedAssumption DEF Reaches
    <3> QED BY <3>2, <3>3
  <2> QED BY <1>1, <2>1, <2>2 DEF StreamTypes, Meant
<1> QED BY <1>5, <1>6, <1>7, <1>8, <1>9, <1>10 DEF Effect

\* An event at the end of a channel that agrees with what the browser will show.
LEMMA LeadsOn ==
  ASSUME NEW b \in Browsers, NEW c \in Ids, NEW v, NEW e \in Event, queue[b] \in Seq(Event),
         queue'[b] = Append(queue[b], e), shown' = shown,
         About(e, c) => e.list[c] = v,
         Leads(b, c, v) \/ (Covers(e, c) /\ e.list[c] = v)
  PROVE  Leads(b, c, v)'
<1>5. PICK n : n = Len(queue[b])
  OBVIOUS
<1>1. n \in Nat /\ Len(queue'[b]) = n + 1 /\ queue'[b][n + 1] = e
      /\ \A i \in 1..n : queue'[b][i] = queue[b][i]
  BY <1>5
<1>2. CASE Covers(e, c) /\ e.list[c] = v
  <2>1. Says(b, c, v, n + 1)'
    <3>1. n + 1 # 0 /\ Covers(queue'[b][n + 1], c) /\ queue'[b][n + 1].list[c] = v
      BY <1>1, <1>2
    <3> QED BY <3>1 DEF Says
  <2>2. n + 1 \in 0..Len(queue'[b]) /\ \A j : j \notin (n + 1 + 1)..Len(queue'[b])
    BY <1>1
  <2> QED BY <2>1, <2>2 DEF Leads
<1>3. CASE Leads(b, c, v)
  <2>1. PICK i \in 0..n :
          /\ Says(b, c, v, i)
          /\ \A j \in (i + 1)..n : About(queue[b][j], c) => queue[b][j].list[c] = v
    BY <1>3, <1>5 DEF Leads
  <2>2. Says(b, c, v, i)'
    <3>1. CASE i = 0
      BY <2>1, <3>1 DEF Says
    <3>2. CASE i # 0
      <4>1. i \in 1..n
        BY <1>1, <3>2
      <4> QED BY <1>1, <2>1, <3>2, <4>1 DEF Says
    <3> QED BY <3>1, <3>2
  <2>3. ASSUME NEW j \in (i + 1)..Len(queue'[b])
        PROVE  About(queue'[b][j], c) => queue'[b][j].list[c] = v
    <3>1. CASE j = n + 1
      BY <1>1, <3>1
    <3>2. CASE j # n + 1
      <4>1. j \in (i + 1)..n /\ j \in 1..n
        BY <1>1, <3>2
      <4> QED BY <1>1, <2>1, <4>1
    <3> QED BY <3>1, <3>2
  <2>4. i \in 0..Len(queue'[b])
    BY <1>1
  <2> QED BY <2>2, <2>3, <2>4 DEF Leads
<1> QED BY <1>2, <1>3

\* What is told is true of the state it tells of, and a status is told after a list.
LEMMA SendCurrent ==
  ASSUME Types, \A c \in Ids : Told(c), \A b \in Browsers, c \in Ids : Current(b, c),
         NEW e \in Event, Meant(e), NEW tells \in SUBSET Ids, NEW revs \in [Ids -> Nat],
         Send(e, tells, revs), UNCHANGED <<calls, rev, conn, shown>>,
         \A c \in Ids : About(e, c) <=> c \in tells,
         \A c \in tells : revs[c] <= rev[c] /\ (revs[c] = rev[c] => e.list[c] = calls[c]),
         Whole(e) \/ \A c \in tells : revs[c] <= sent[c]
  PROVE  \A b \in Browsers, c \in Ids : Current(b, c)'
<1>0. Effect(e, tells, revs)
  BY SendFacts
<1> SUFFICES ASSUME NEW b \in Browsers, NEW c \in Ids, conn[b] = "open",
                    c \notin missed'[b], c \notin overtaken', sent'[c] = rev[c]
             PROVE  Leads(b, c, calls[c])'
  BY DEF Current
<1>1. PICK v : v = calls[c]
  OBVIOUS
<1>2. queue[b] \in Seq(Event) /\ rev[c] \in Nat /\ sent[c] \in Nat /\ revs[c] \in Nat
  BY DEF Types, StreamTypes, ServerTypes, ToldTypes
<1>6. /\ Reaches(b) => queue'[b] = Append(queue[b], e)
      /\ ~Reaches(b) => queue'[b] = queue[b]
  BY <1>0 DEF Effect
<1>3. /\ Reaches(b) => queue'[b] = Append(queue[b], e)
      /\ ~Reaches(b) => queue'[b] = queue[b]
      /\ c \in tells /\ ~Old(c, revs) => sent'[c] = revs[c]
      /\ (c \notin tells \/ Old(c, revs)) => sent'[c] = sent[c]
      /\ c \in overtaken' <=> \/ c \in tells /\ Old(c, revs)
                              \/ c \in overtaken /\ ~(Whole(e) /\ c \in tells)
      /\ c \in missed'[b] <=> \/ c \in missed[b] /\ ~(Reaches(b) /\ Whole(e) /\ c \in tells)
                              \/ c \in tells /\ conn[b] = "open" /\ ~Reaches(b)
  <2>1. /\ c \in tells /\ ~Old(c, revs) => sent'[c] = revs[c]
        /\ (c \notin tells \/ Old(c, revs)) => sent'[c] = sent[c]
        /\ c \in overtaken' <=> \/ c \in tells /\ Old(c, revs)
                                \/ c \in overtaken /\ ~(Whole(e) /\ c \in tells)
    BY <1>0 DEF Effect
  <2>2. c \in missed'[b] <=> \/ c \in missed[b] /\ ~(Reaches(b) /\ Whole(e) /\ c \in tells)
                             \/ c \in tells /\ conn[b] = "open" /\ ~Reaches(b)
    BY <1>0 DEF Effect
  <2> QED BY <1>6, <2>1, <2>2
<1>4. Current(b, c) /\ sent[c] <= rev[c]
  BY DEF Told
<1>5. Leads(b, c, v)'
  <2>1. CASE ~Reaches(b)
    <3>1. c \notin tells /\ c \notin missed[b] /\ c \notin overtaken /\ sent[c] = rev[c]
      BY <1>3, <2>1
    <3>2. Leads(b, c, v) /\ queue'[b] = queue[b]
      BY <1>1, <1>3, <1>4, <2>1, <3>1 DEF Current
    <3> QED BY <3>2 DEF Leads, Says
  <2>2. CASE Reaches(b) /\ c \notin tells
    <3>1. c \notin missed[b] /\ c \notin overtaken /\ sent[c] = rev[c]
      BY <1>3, <2>2
    <3>2. Leads(b, c, v) /\ ~About(e, c)
      BY <1>1, <1>4, <2>2, <3>1 DEF Current
    <3> QED BY <1>2, <1>3, <2>2, <3>2, LeadsOn
  <2>3. CASE Reaches(b) /\ c \in tells /\ Whole(e)
    <3>1. revs[c] >= sent[c] /\ revs[c] = rev[c]
      BY <1>2, <1>3, <2>3 DEF Old
    <3>2. e.list[c] = v /\ Covers(e, c)
      BY <1>1, <2>3, <3>1 DEF Whole, About, Covers
    <3> QED BY <1>2, <1>3, <2>3, <3>2, LeadsOn
  <2>4. CASE Reaches(b) /\ c \in tells /\ ~Whole(e)
    <3>1. c \notin missed[b] /\ c \notin overtaken
      BY <1>3, <2>4
    <3>2. revs[c] = sent[c] /\ sent[c] = rev[c]
      BY <1>2, <1>3, <2>4 DEF Old
    <3>3. Leads(b, c, v) /\ e.list[c] = v
      BY <1>1, <1>4, <2>4, <3>1, <3>2 DEF Current
    <3> QED BY <1>2, <1>3, <2>4, <3>3, LeadsOn
  <2> QED BY <2>1, <2>2, <2>3, <2>4
<1> QED BY <1>1, <1>5

\* The browsers are told that a call does not wait any more before its goroutine
\* or the hook has done with it.
LEMMA SendRings ==
  ASSUME Types, \A c \in Ids : RingTrue(c), \A b \in Browsers, c \in Ids : RingSeen(b, c),
         NEW e \in Event, Meant(e), NEW tells \in SUBSET Ids, NEW revs \in [Ids -> Nat],
         Send(e, tells, revs), UNCHANGED <<calls, owner, conn, incoming>>,
         \A c \in Ids : Ending(c) => Ending(c)' \/ Ends(e, c),
         \A c \in Ids : RingDue(c)' => RingDue(c),
         e.kind = "incoming" => RingDue(e.id)
  PROVE  /\ \A c \in Ids : RingTrue(c)'
         /\ \A b \in Browsers, c \in Ids : RingSeen(b, c)'
<1>0. Effect(e, tells, revs)
  BY SendFacts
<1> SUFFICES ASSUME NEW c \in Ids
             PROVE  RingTrue(c)' /\ \A b \in Browsers : RingSeen(b, c)'
  OBVIOUS
<1>1. c \in lateRing' <=> (c \in lateRing \/ (c = e.id /\ Last(e) /\ RingDue(c)))
  BY <1>0 DEF Effect
<1>2. Ends(e, c) <=> Last(e) /\ e.id = c
  BY DEF Ends, Last
<1>3. Rings(c) => Rings(c)' \/ Ends(e, c)
  BY DEF Rings
<1>4. RingDue(c) => Rings(c)' \/ c \in lateRing'
  BY <1>1, <1>2, <1>3 DEF RingTrue
<1>5. RingTrue(c)'
  BY <1>4 DEF RingTrue
<1>6. ASSUME NEW b \in Browsers PROVE RingSeen(b, c)'
  <2> SUFFICES ASSUME NEW i \in 0..Len(queue'[b]), RingAt(b, c, i)', ~Rings(c)', ~Known(b, c)'
               PROVE  EndsAfter(b, c, i)'
    BY DEF RingSeen
  <2>1. queue[b] \in Seq(Event)
    BY DEF Types, StreamTypes
  <2>2. /\ Reaches(b) => queue'[b] = Append(queue[b], e)
        /\ ~Reaches(b) => queue'[b] = queue[b]
        /\ c \in unheard'[b] <=> (c \in unheard[b] \/ (c = e.id /\ Last(e) /\ ~Reaches(b)))
    BY <1>0 DEF Effect
  <2>3. ~Known(b, c)
    BY <1>1, <2>2 DEF Known
  <2>4. CASE ~Reaches(b)
    <3>1. ~Ends(e, c) /\ ~Rings(c)
      BY <1>2, <1>3, <2>2, <2>4 DEF Known
    <3>2. RingAt(b, c, i) /\ i \in 0..Len(queue[b])
      BY <2>2, <2>4 DEF RingAt
    <3>3. EndsAfter(b, c, i)
      BY <2>3, <3>1, <3>2 DEF RingSeen
    <3> QED BY <2>2, <2>4, <3>3 DEF EndsAfter
  <2>5. CASE Reaches(b)
    <3>1. /\ Len(queue'[b]) = Len(queue[b]) + 1 /\ Len(queue[b]) \in Nat
          /\ queue'[b][Len(queue[b]) + 1] = e
          /\ \A j \in 1..Len(queue[b]) : queue'[b][j] = queue[b][j]
      BY <2>1, <2>2, <2>5
    <3>2. CASE i = Len(queue[b]) + 1
      <4>1. e.kind = "incoming" /\ e.id = c
        BY <3>1, <3>2 DEF RingAt
      <4> QED BY <1>4, <4>1 DEF Known
    <3>3. CASE i # Len(queue[b]) + 1
      <4>1. i \in 0..Len(queue[b])
        BY <3>1, <3>3
      <4>2. CASE Ends(e, c)
        <5>1. Len(queue[b]) + 1 \in 1..Len(queue'[b]) /\ Len(queue[b]) + 1 > i
          BY <3>1, <4>1
        <5> QED BY <3>1, <4>2, <5>1 DEF EndsAfter
      <4>3. CASE ~Ends(e, c)
        <5>1. RingAt(b, c, i)
          <6>1. CASE i = 0
            BY <6>1 DEF RingAt
          <6>2. CASE i # 0
            <7>1. i \in 1..Len(queue[b])
              BY <3>1, <4>1, <6>2
            <7> QED BY <3>1, <6>2, <7>1 DEF RingAt
          <6> QED BY <6>1, <6>2
        <5>2. PICK j \in 1..Len(queue[b]) : j > i /\ Ends(queue[b][j], c)
          BY <1>3, <2>3, <4>1, <4>3, <5>1 DEF RingSeen, EndsAfter
        <5>3. j \in 1..Len(queue'[b]) /\ queue'[b][j] = queue[b][j]
          BY <3>1
        <5> QED BY <5>2, <5>3 DEF EndsAfter
      <4> QED BY <4>2, <4>3
    <3> QED BY <3>2, <3>3
  <2> QED BY <2>4, <2>5
<1> QED BY <1>5, <1>6

\* So is the end of a call, for which a microphone may be open.
LEMMA SendMic ==
  ASSUME Types, \A b \in Browsers, c \in Ids : MicHeld(b, c) /\ HookHeld(b, c),
         NEW e \in Event, Meant(e), NEW tells \in SUBSET Ids, NEW revs \in [Ids -> Nat],
         Send(e, tells, revs), UNCHANGED <<calls, conn, own, lateMic>>,
         \A c \in Ids : EndDue(c) => EndDue(c)' \/ (e.kind = "ended" /\ e.id = c),
         \A b \in Browsers : Answering(b)' =>
           Answering(b) /\ hook'[b].id = hook[b].id /\ hook'[b].over = hook[b].over
  PROVE  \A b \in Browsers, c \in Ids : MicHeld(b, c)' /\ HookHeld(b, c)'
<1>0. Effect(e, tells, revs)
  BY SendFacts
<1> SUFFICES ASSUME NEW b \in Browsers, NEW c \in Ids
             PROVE  MicHeld(b, c)' /\ HookHeld(b, c)'
  OBVIOUS
<1>1. queue[b] \in Seq(Event)
  BY DEF Types, StreamTypes
<1>2. /\ Reaches(b) => queue'[b] = Append(queue[b], e)
      /\ ~Reaches(b) => queue'[b] = queue[b]
      /\ c \in unheard'[b] <=> (c \in unheard[b] \/ (c = e.id /\ Last(e) /\ ~Reaches(b)))
  BY <1>0 DEF Effect
<1>3. ASSUME Alive(b, c) PROVE Alive(b, c)'
  <2>1. CASE There(c)
    <3>1. CASE There(c)'
      BY <3>1 DEF Alive
    <3>2. CASE ~There(c)'
      <4>1. e.kind = "ended" /\ e.id = c
        BY <2>1, <3>2 DEF There
      <4>2. CASE Reaches(b)
        <5>1. Len(queue[b]) + 1 \in 1..Len(queue'[b]) /\ queue'[b][Len(queue[b]) + 1] = e
          BY <1>1, <1>2, <4>2
        <5> QED BY <4>1, <5>1 DEF Alive
      <4>3. CASE ~Reaches(b)
        BY <1>2, <4>1, <4>3 DEF Alive, Last
      <4> QED BY <4>2, <4>3
    <3> QED BY <3>1, <3>2
  <2>2. CASE c \in unheard[b]
    BY <1>2, <2>2 DEF Alive
  <2>3. ASSUME NEW j \in 1..Len(queue[b]), queue[b][j].kind = "ended", queue[b][j].id = c
        PROVE  Alive(b, c)'
    <3>1. j \in 1..Len(queue'[b]) /\ queue'[b][j] = queue[b][j]
      BY <1>1, <1>2
    <3> QED BY <2>3, <3>1 DEF Alive
  <2> QED BY <1>3, <2>1, <2>2, <2>3 DEF Alive
<1>4. MicHeld(b, c)'
  BY <1>3 DEF MicHeld
<1>5. HookHeld(b, c)'
  BY <1>3 DEF HookHeld
<1> QED BY <1>4, <1>5

\* Steps that send nothing.
LEMMA CurrentKept ==
  ASSUME \A b \in Browsers, c \in Ids : Current(b, c),
         UNCHANGED <<queue, shown, sent, overtaken>>,
         \A b \in Browsers : conn'[b] = "open" =>
           missed'[b] = Ids \/ (conn[b] = "open" /\ missed[b] \subseteq missed'[b]),
         \A c \in Ids : \/ sent[c] # rev'[c]
                        \/ rev'[c] = rev[c] /\ calls'[c] = calls[c]
  PROVE  \A b \in Browsers, c \in Ids : Current(b, c)'
<1> SUFFICES ASSUME NEW b \in Browsers, NEW c \in Ids, conn'[b] = "open",
                    c \notin missed'[b], c \notin overtaken, sent[c] = rev'[c]
             PROVE  Leads(b, c, calls[c])'
  BY DEF Current
<1>1. PICK v : v = calls[c]
  OBVIOUS
<1>2. calls'[c] = v /\ Leads(b, c, v)
  BY <1>1 DEF Current
<1>3. Leads(b, c, v)'
  BY <1>2 DEF Leads, Says
<1> QED BY <1>2, <1>3

\* A ring stays one that is for a waiting call when no end is forgotten.
LEMMA RingsKept ==
  ASSUME \A c \in Ids : RingTrue(c), \A b \in Browsers, c \in Ids : RingSeen(b, c),
         queue' = queue, lateRing' = lateRing,
         \A b \in Browsers : incoming'[b] \in {incoming[b], NoId} /\ unheard[b] \subseteq unheard'[b],
         \A c \in Ids : Rings(c) => Rings(c)',
         \A c \in Ids : RingDue(c)' => RingDue(c) \/ Rings(c)'
  PROVE  /\ \A c \in Ids : RingTrue(c)'
         /\ \A b \in Browsers, c \in Ids : RingSeen(b, c)'
<1>1. ASSUME NEW c \in Ids PROVE RingTrue(c)'
  BY DEF RingTrue
<1>2. ASSUME NEW b \in Browsers, NEW c \in Ids PROVE RingSeen(b, c)'
  <2> SUFFICES ASSUME NEW i \in 0..Len(queue[b]), RingAt(b, c, i)', ~Rings(c)', ~Known(b, c)'
               PROVE  EndsAfter(b, c, i)'
    BY DEF RingSeen
  <2>1. RingAt(b, c, i)
    BY FeedAssumption DEF RingAt
  <2>2. ~Known(b, c)
    BY DEF Known
  <2>3. EndsAfter(b, c, i)
    BY <2>1, <2>2 DEF RingSeen
  <2> QED BY <2>3 DEF EndsAfter
<1> QED BY <1>1, <1>2

\* A microphone stays one that is for a call that is there when no end is forgotten.
LEMMA MicKept ==
  ASSUME \A b \in Browsers, c \in Ids : MicHeld(b, c) /\ HookHeld(b, c),
         queue' = queue,
         \A c \in Ids : There(c) => There(c)',
         \A b \in Browsers : unheard[b] \subseteq unheard'[b] /\ lateMic[b] \subseteq lateMic'[b],
         \A b \in Browsers, c \in Ids :
           c \in own'[b] => c \in own[b] \/ c \in lateMic'[b] \/ Alive(b, c)',
         \A b \in Browsers, c \in Ids : Answering(b)' /\ hook'[b].id = c =>
           There(c)' \/ (Answering(b) /\ hook[b].id = c /\ (hook[b].over => hook'[b].over))
  PROVE  \A b \in Browsers, c \in Ids : MicHeld(b, c)' /\ HookHeld(b, c)'
<1> SUFFICES ASSUME NEW b \in Browsers, NEW c \in Ids
             PROVE  MicHeld(b, c)' /\ HookHeld(b, c)'
  OBVIOUS
<1>1. Alive(b, c) => Alive(b, c)'
  BY DEF Alive
<1>2. MicHeld(b, c)'
  BY <1>1 DEF MicHeld
<1>3. There(c)' => Alive(b, c)'
  BY DEF Alive
<1>4. HookHeld(b, c)'
  BY <1>1, <1>3 DEF HookHeld
<1> QED BY <1>2, <1>4

\* A goroutine that has told something.
LEMMA SpokenCounts ==
  ASSUME FeedInv, NEW t \in Threads, ~Free(t), ~Due(t, "list"), Spoken(t), UNCHANGED <<calls, rev>>,
         sent' \in [Ids -> Nat],
         \A c \in Ids : sent[c] <= sent'[c] /\ sent'[c] <= rev[c],
         Due(t, "send") => \A c \in Ids : thread[t].revs[c] <= sent'[c]
  PROVE  /\ \A u \in Threads, c \in Ids : Counted(u, c)'
         /\ \A c \in Ids : Told(c)'
<1>1. /\ thread' \in [Threads -> ThreadRec] /\ thread \in [Threads -> ThreadRec]
      /\ rev \in [Ids -> Nat] /\ sent \in [Ids -> Nat] /\ NoId \notin Ids
  BY SpokenFacts, FeedAssumption DEF FeedInv, Types, ServerTypes, ToldTypes, ThreadRec
<1>2. /\ \A u \in Threads \ {t} : thread'[u] = thread[u]
      /\ \/ thread'[t].todo = <<>> /\ thread'[t].id = NoId
         \/ /\ thread'[t].id = thread[t].id /\ thread'[t].status = thread[t].status
            /\ thread'[t].rev = thread[t].rev /\ thread'[t].list = thread[t].list
            /\ thread'[t].revs = thread[t].revs
      /\ thread'[t].todo = Tail(thread[t].todo)
  BY SpokenFacts DEF FeedInv
<1>3. /\ \A task : Due(t, task)' <=> Then(thread[t].todo, task)
      /\ PlanSound(thread[t].todo)
  BY SpokenFacts DEF FeedInv
<1>4. \A u \in Threads \ {t} : \A task : Due(u, task)' <=> Due(u, task)
  BY <1>2 DEF Due, Free
<1>5. \A task : Due(t, task) <=> Head(thread[t].todo) = task
  BY DEF Due
<1>6. ~Due(t, "send")' /\ (Due(t, "status")' => Due(t, "send"))
      /\ (Due(t, "ended") => Due(t, "list")')
      /\ (Due(t, "claimed") => thread'[t].todo = <<>>)
  BY <1>2, <1>3, <1>5 DEF PlanSound
<1>7. ASSUME NEW u \in Threads, NEW c \in Ids PROVE Counted(u, c)'
  <2>1. Counted(u, c) /\ sent[c] <= sent'[c] /\ sent'[c] <= rev[c]
    BY DEF FeedInv
  <2>2. CASE u # t
    <3>1. thread'[u] = thread[u] /\ \A task : Due(u, task)' <=> Due(u, task)
      BY <1>2, <1>4, <2>2
    <3>2. thread[u].rev \in Nat /\ sent[c] \in Nat /\ sent'[c] \in Nat
      BY <1>1 DEF ThreadRec
    <3> QED BY <2>1, <3>1, <3>2 DEF Counted
  <2>3. CASE u = t
    <3>1. CASE thread'[t].id = c
      <4>1. /\ thread[t].id = c /\ thread'[t].rev = thread[t].rev
            /\ thread'[t].status = thread[t].status
        BY <1>1, <1>2, <3>1
      <4>2. thread[t].rev <= rev[c] /\ (thread[t].rev = rev[c] => Due(t, "claimed")
            \/ thread[t].status = calls[c]) /\ (Due(t, "send") => thread[t].rev <= thread[t].revs[c])
        BY <2>1, <2>3, <4>1 DEF Counted
      <4>3. Due(t, "claimed") => thread'[t].id = NoId
        <5>1. ASSUME Due(t, "claimed") PROVE thread'[t].id = NoId
          <6>1. Len(thread[t].todo) = 1
            BY <1>2, <1>3, <1>6, <5>1 DEF PlanSound
          <6>2. thread' = [thread EXCEPT ![t] = Silent]
            BY <6>1 DEF Spoken
          <6> QED BY <1>1, <6>2, SilentFacts
        <5> QED BY <5>1
      <4>4. Due(t, "status")' => thread[t].rev <= sent'[c]
        <5>1. ASSUME Due(t, "status")' PROVE thread[t].rev <= sent'[c]
          <6>1. thread[t].rev <= thread[t].revs[c] /\ thread[t].revs[c] <= sent'[c]
            BY <1>6, <4>2, <5>1
          <6>2. thread[t].rev \in Nat /\ thread[t].revs[c] \in Nat /\ sent'[c] \in Nat
            BY <1>1 DEF ThreadRec
          <6> QED BY <6>1, <6>2
        <5> QED BY <5>1
      <4> QED BY <1>1, <1>6, <2>3, <3>1, <4>1, <4>2, <4>3, <4>4 DEF Counted
    <3>2. CASE thread'[t].id # c
      BY <1>6, <2>3, <3>2 DEF Counted
    <3> QED BY <3>1, <3>2
  <2> QED BY <2>2, <2>3
<1>8. ASSUME NEW c \in Ids PROVE Told(c)'
  <2>1. Told(c) /\ sent[c] <= sent'[c] /\ sent'[c] <= rev[c]
        /\ sent[c] \in Nat /\ sent'[c] \in Nat /\ rev[c] \in Nat
    BY <1>1 DEF FeedInv
  <2>2. CASE sent[c] = rev[c]
    BY <2>1, <2>2 DEF Told
  <2>3. CASE sent[c] # rev[c]
    <3>1. PICK u \in Threads : Tellers(c, u)
      BY <2>1, <2>3 DEF Told
    <3>2. CASE u # t
      <4>1. Tellers(c, u)'
        BY <1>2, <1>4, <3>1, <3>2 DEF Tellers
      <4> QED BY <2>1, <4>1 DEF Told
    <3>3. CASE u = t /\ Due(t, "ended")
      <4>1. Tellers(c, t)'
        BY <1>6, <3>3 DEF Tellers
      <4> QED BY <2>1, <4>1 DEF Told
    <3>4. CASE u = t /\ ~Due(t, "ended")
      <4>1. Due(t, "send") /\ thread[t].revs[c] = rev[c]
        BY <3>1, <3>4 DEF Tellers
      <4>2. sent'[c] = rev[c]
        BY <2>1, <4>1
      <4> QED BY <2>1, <4>2 DEF Told
    <3> QED BY <3>2, <3>3, <3>4
  <2> QED BY <2>2, <2>3
<1> QED BY <1>7, <1>8

\* What it has told, the others need not.
LEMMA SpokenLeaves ==
  ASSUME FeedInv, NEW t \in Threads, ~Free(t), Spoken(t), hook' = hook
  PROVE  \A c \in Ids :
           /\ Ending(c) => Ending(c)' \/ (thread[t].id = c /\ (Due(t, "ended") \/ Due(t, "claimed")))
           /\ EndDue(c) => EndDue(c)' \/ (thread[t].id = c /\ Due(t, "ended"))
           /\ RingDue(c)' => RingDue(c)
<1>1. /\ \A u \in Threads \ {t} : thread'[u] = thread[u]
      /\ \/ thread'[t].todo = <<>> /\ thread'[t].id = NoId
         \/ thread'[t].id = thread[t].id
      /\ thread'[t].todo = Tail(thread[t].todo) /\ PlanSound(thread[t].todo)
  BY SpokenFacts DEF FeedInv
<1>2. \A u \in Threads \ {t} : \A task : Due(u, task)' <=> Due(u, task)
  BY <1>1 DEF Due, Free
<1>3. NoId \notin Ids
  BY FeedAssumption
<1>4. ASSUME NEW c \in Ids, Ending(c)
      PROVE  Ending(c)' \/ (thread[t].id = c /\ (Due(t, "ended") \/ Due(t, "claimed")))
  BY <1>1, <1>2, <1>4 DEF Ending
<1>5. ASSUME NEW c \in Ids, EndDue(c)
      PROVE  EndDue(c)' \/ (thread[t].id = c /\ Due(t, "ended"))
  BY <1>1, <1>2, <1>5 DEF EndDue
<1>6. ASSUME NEW c \in Ids, RingDue(c)' PROVE RingDue(c)
  <2>1. PICK u \in Threads : thread'[u].id = c /\ RingIn(thread'[u].todo)
    BY <1>6 DEF RingDue
  <2>2. CASE u # t
    BY <1>1, <2>1, <2>2 DEF RingDue
  <2>3. CASE u = t
    <3>1. thread[t].id = c /\ RingIn(thread[t].todo)
      BY <1>1, <1>3, <2>1, <2>3 DEF PlanSound, RingIn
    <3> QED BY <3>1 DEF RingDue
  <2> QED BY <2>2, <2>3
<1> QED BY <1>4, <1>5, <1>6

\* A goroutine tells the list it has taken.
LEMMA TellListKeeps ==
  ASSUME FeedInv, NEW t \in Threads, TellList(t) PROVE FeedInv'
<1>1. /\ Due(t, "send") /\ ~Free(t) /\ Head(thread[t].todo) = "send" /\ Spoken(t)
      /\ UNCHANGED <<calls, owner, rev, conn, shown, incoming, own, hook, lateMic>>
  BY DEF TellList, Due, storeVars
<1>2. PICK e : e = [kind |-> "list", id |-> thread[t].id, list |-> thread[t].list]
  OBVIOUS
<1>3. PICK revs : revs = thread[t].revs
  OBVIOUS
<1>4. Types /\ thread[t] \in ThreadRec /\ calls \in [Ids -> Statuses] /\ sent \in [Ids -> Nat]
      /\ rev \in [Ids -> Nat]
  BY DEF FeedInv, Types, ServerTypes, ToldTypes, ThreadRec
<1>5. e \in Event /\ Meant(e) /\ revs \in [Ids -> Nat] /\ e.kind = "list" /\ e.list = thread[t].list
  BY <1>2, <1>3, <1>4 DEF ThreadRec, Event, Meant
<1>6. Send(e, Ids, revs)
  BY <1>2, <1>3 DEF TellList
<1>7. \A c \in Ids : revs[c] <= rev[c] /\ (revs[c] = rev[c] => e.list[c] = calls[c])
  BY <1>1, <1>3, <1>5 DEF FeedInv, Counted
<1>8. StreamTypes' /\ ToldTypes' /\ Effect(e, Ids, revs)
  <2>1. Ids \in SUBSET Ids
    OBVIOUS
  <2> QED BY <1>1, <1>4, <1>5, <1>6, <2>1, SendFacts
<1>9. sent' \in [Ids -> Nat] /\ \A c \in Ids :
        sent[c] <= sent'[c] /\ sent'[c] <= rev[c] /\ revs[c] <= sent'[c]
  <2>1. sent' \in [Ids -> Nat]
    BY <1>8 DEF ToldTypes
  <2>2. ASSUME NEW c \in Ids
        PROVE  sent[c] <= sent'[c] /\ sent'[c] <= rev[c] /\ revs[c] <= sent'[c]
    <3>1. (~Old(c, revs) => sent'[c] = revs[c]) /\ (Old(c, revs) => sent'[c] = sent[c])
      BY <1>8 DEF Effect
    <3>2. sent[c] <= rev[c] /\ revs[c] <= rev[c] /\ sent[c] \in Nat /\ rev[c] \in Nat /\ revs[c] \in Nat
      BY <1>4, <1>5, <1>7 DEF FeedInv, Told
    <3> QED BY <3>1, <3>2 DEF Old
  <2> QED BY <2>1, <2>2
<1>10. /\ \A u \in Threads, c \in Ids : Counted(u, c)'
       /\ \A c \in Ids : Told(c)'
  <2>1. ~Due(t, "list")
    BY <1>1 DEF Due
  <2> QED BY <1>1, <1>3, <1>9, <2>1, SpokenCounts
<1>11. Types'
  <2>1. thread' \in [Threads -> ThreadRec] /\ \A u \in Threads : Planned(u)'
    BY <1>1, <1>4, SpokenFacts
  <2>2. ServerTypes'
    BY <1>1, <1>4, <2>1 DEF Types, ServerTypes, ThreadRec
  <2>3. StoreTypes'
    BY <1>1, <1>4 DEF Types, StoreTypes, Asked
  <2> QED BY <1>8, <2>2, <2>3 DEF Types
<1>12. \A b \in Browsers, c \in Ids : Current(b, c)'
  <2>1. \A c \in Ids : About(e, c) <=> c \in Ids
    BY <1>5 DEF About, Covers
  <2>2. Whole(e)
    BY <1>5 DEF Whole
  <2>3. (\A c \in Ids : Told(c)) /\ (\A b \in Browsers, c \in Ids : Current(b, c))
    BY DEF FeedInv
  <2>4. Ids \in SUBSET Ids
    OBVIOUS
  <2> QED BY <1>1, <1>4, <1>5, <1>6, <1>7, <2>1, <2>2, <2>3, <2>4, SendCurrent
<1>13. ~Due(t, "ended") /\ ~Due(t, "claimed")
  BY <1>1 DEF Due
<1>14. /\ \A c \in Ids : Ending(c) => Ending(c)'
       /\ \A c \in Ids : EndDue(c) => EndDue(c)'
       /\ \A c \in Ids : RingDue(c)' => RingDue(c)
  BY <1>1, <1>13, SpokenLeaves
<1>15. /\ \A c \in Ids : RingTrue(c)'
       /\ \A b \in Browsers, c \in Ids : RingSeen(b, c)'
  <2>1. (\A c \in Ids : RingTrue(c)) /\ (\A b \in Browsers, c \in Ids : RingSeen(b, c))
    BY DEF FeedInv
  <2>2. e.kind # "incoming" /\ Ids \in SUBSET Ids
    BY <1>5
  <2> QED BY <1>1, <1>4, <1>5, <1>6, <1>14, <2>1, <2>2, SendRings
<1>16. \A b \in Browsers, c \in Ids : MicHeld(b, c)' /\ HookHeld(b, c)'
  <2>1. \A b \in Browsers, c \in Ids : MicHeld(b, c) /\ HookHeld(b, c)
    BY DEF FeedInv
  <2>2. \A b \in Browsers : Answering(b)' => Answering(b) /\ hook'[b].id = hook[b].id
                                             /\ hook'[b].over = hook[b].over
    BY <1>1 DEF Answering
  <2>3. Ids \in SUBSET Ids
    OBVIOUS
  <2> QED BY <1>1, <1>4, <1>5, <1>6, <1>14, <2>1, <2>2, <2>3, SendMic
<1> QED BY <1>10, <1>11, <1>12, <1>15, <1>16 DEF FeedInv

\* A goroutine tells of its record: the kind of the event goes with the task.
TellKinds == {<<"status", "status">>, <<"ended", "ended">>, <<"ring", "incoming">>,
              <<"claimed", "claimed">>}
\* An event of one call is told by the goroutine that has changed it, in its plan's order.
LEMMA TellKeeps ==
  ASSUME FeedInv, NEW t \in Threads, NEW task, NEW kind, <<task, kind>> \in TellKinds,
         NEW tells, tells = (IF kind \in {"status", "ended"} THEN {thread[t].id} ELSE {}),
         Tell(t, task, kind, tells)
  PROVE  FeedInv'
<1>1. /\ Due(t, task) /\ ~Free(t) /\ Head(thread[t].todo) = task /\ Spoken(t)
      /\ UNCHANGED <<calls, owner, rev, conn, shown, incoming, own, hook, lateMic>>
  BY DEF Tell, Due, storeVars
<1>2. PICK c0 : c0 = thread[t].id
  OBVIOUS
<1>3. PICK e : e = [kind |-> kind, id |-> c0,
                    list |-> [d \in Ids |-> IF d = c0 THEN thread[t].status ELSE "none"]]
  OBVIOUS
<1>4. PICK revs : revs = [d \in Ids |-> thread[t].rev]
  OBVIOUS
<1>5. Types /\ thread[t] \in ThreadRec /\ calls \in [Ids -> Statuses] /\ sent \in [Ids -> Nat]
      /\ rev \in [Ids -> Nat] /\ Planned(t)
  BY DEF FeedInv, Types, ServerTypes, ToldTypes, ThreadRec
<1>6. /\ task \in {"status", "ended", "ring", "claimed"} /\ kind \in {"status", "ended", "incoming", "claimed"}
      /\ (task = "status" <=> kind = "status") /\ (task = "ended" <=> kind = "ended")
      /\ (task = "ring" <=> kind = "incoming") /\ (task = "claimed" <=> kind = "claimed")
  BY DEF TellKinds
<1>7. c0 \in Ids
  <2>1. thread[t].todo \notin Bare
    BY <1>1, <1>6, BareFacts DEF Free
  <2> QED BY <1>2, <1>5, <2>1 DEF Planned
<1>8. thread[t].status \in Statuses /\ thread[t].rev \in Nat
  BY <1>5 DEF ThreadRec
<1>9. e \in Event /\ e.kind = kind /\ e.id = c0 /\ e.list[c0] = thread[t].status
      /\ tells \in SUBSET Ids /\ revs \in [Ids -> Nat] /\ revs[c0] = thread[t].rev
  <2>1. [d \in Ids |-> IF d = c0 THEN thread[t].status ELSE "none"] \in [Ids -> Statuses]
    BY <1>8 DEF Statuses
  <2> QED BY <1>2, <1>3, <1>4, <1>6, <1>7, <1>8, <2>1 DEF Event
<1>10. Meant(e)
  BY <1>1, <1>5, <1>6, <1>7, <1>9 DEF Meant, Planned
<1>11. Send(e, tells, revs)
  BY <1>2, <1>3, <1>4 DEF Tell
<1>12. Counted(t, c0) /\ thread[t].rev <= rev[c0]
       /\ (thread[t].rev = rev[c0] => Due(t, "claimed") \/ thread[t].status = calls[c0])
  BY <1>2, <1>7 DEF FeedInv, Counted
<1>13. tells \subseteq {c0} /\ (tells # {} => kind \in {"status", "ended"})
  BY <1>2
<1>14. \A c \in tells : revs[c] <= rev[c] /\ (revs[c] = rev[c] => e.list[c] = calls[c])
  <2>1. tells # {} => ~Due(t, "claimed")
    BY <1>1, <1>6, <1>13 DEF Due
  <2> QED BY <1>9, <1>12, <1>13, <2>1
<1>15. StreamTypes' /\ ToldTypes' /\ Effect(e, tells, revs)
  BY <1>1, <1>5, <1>9, <1>10, <1>11, SendFacts
<1>16. \A c \in Ids : sent[c] <= sent'[c] /\ sent'[c] <= rev[c]
  <2>1. ASSUME NEW c \in Ids PROVE sent[c] <= sent'[c] /\ sent'[c] <= rev[c]
    <3>1. /\ c \in tells /\ ~Old(c, revs) => sent'[c] = revs[c]
          /\ (c \notin tells \/ Old(c, revs)) => sent'[c] = sent[c]
      BY <1>15 DEF Effect
    <3>2. sent[c] <= rev[c] /\ sent[c] \in Nat /\ rev[c] \in Nat /\ revs[c] \in Nat
          /\ (c \in tells => revs[c] <= rev[c])
      BY <1>5, <1>9, <1>14 DEF FeedInv, Told
    <3> QED BY <3>1, <3>2 DEF Old
  <2> QED BY <2>1
<1>17. /\ \A u \in Threads, c \in Ids : Counted(u, c)'
       /\ \A c \in Ids : Told(c)'
  <2>1. ~Due(t, "list") /\ ~Due(t, "send")
    BY <1>1, <1>6 DEF Due
  <2>2. sent' \in [Ids -> Nat]
    BY <1>15 DEF ToldTypes
  <2> QED BY <1>1, <1>16, <2>1, <2>2, SpokenCounts
<1>18. Types'
  <2>1. thread' \in [Threads -> ThreadRec] /\ \A u \in Threads : Planned(u)'
    BY <1>1, <1>5, SpokenFacts
  <2>2. ServerTypes'
    BY <1>1, <1>5, <2>1 DEF Types, ServerTypes, ThreadRec
  <2>3. StoreTypes'
    BY <1>1, <1>5 DEF Types, StoreTypes, Asked
  <2> QED BY <1>15, <2>2, <2>3 DEF Types
<1>19. \A b \in Browsers, c \in Ids : Current(b, c)'
  <2>1. \A c \in Ids : About(e, c) <=> c \in tells
    BY <1>2, <1>6, <1>7, <1>9 DEF About, Covers
  <2>2. Whole(e) \/ \A c \in tells : revs[c] <= sent[c]
    BY <1>1, <1>2, <1>6, <1>9, <1>12, <1>13 DEF Whole, Counted
  <2>3. (\A c \in Ids : Told(c)) /\ (\A b \in Browsers, c \in Ids : Current(b, c))
    BY DEF FeedInv
  <2> QED BY <1>1, <1>5, <1>9, <1>10, <1>11, <1>14, <2>1, <2>2, <2>3, SendCurrent
<1>20. \A c \in Ids :
         /\ Ending(c) => Ending(c)' \/ Ends(e, c)
         /\ EndDue(c) => EndDue(c)' \/ (e.kind = "ended" /\ e.id = c)
         /\ RingDue(c)' => RingDue(c)
  <2>1. \A c \in Ids :
         /\ Ending(c) => Ending(c)' \/ (thread[t].id = c /\ (Due(t, "ended") \/ Due(t, "claimed")))
         /\ EndDue(c) => EndDue(c)' \/ (thread[t].id = c /\ Due(t, "ended"))
         /\ RingDue(c)' => RingDue(c)
    BY <1>1, SpokenLeaves
  <2>2. (Due(t, "ended") => kind = "ended") /\ (Due(t, "claimed") => kind = "claimed")
    BY <1>1, <1>6 DEF Due
  <2> QED BY <1>2, <1>9, <2>1, <2>2 DEF Ends
<1>21. /\ \A c \in Ids : RingTrue(c)'
       /\ \A b \in Browsers, c \in Ids : RingSeen(b, c)'
  <2>1. (\A c \in Ids : RingTrue(c)) /\ (\A b \in Browsers, c \in Ids : RingSeen(b, c))
    BY DEF FeedInv
  <2>2. e.kind = "incoming" => RingDue(e.id)
    <3>1. PlanSound(thread[t].todo)
      BY <1>1, <1>5, SpokenFacts
    <3> QED BY <1>1, <1>2, <1>6, <1>9, <3>1 DEF PlanSound, RingDue
  <2> QED BY <1>1, <1>5, <1>9, <1>10, <1>11, <1>20, <2>1, <2>2, SendRings
<1>22. \A b \in Browsers, c \in Ids : MicHeld(b, c)' /\ HookHeld(b, c)'
  <2>1. \A b \in Browsers, c \in Ids : MicHeld(b, c) /\ HookHeld(b, c)
    BY DEF FeedInv
  <2>2. \A b \in Browsers : Answering(b)' => Answering(b) /\ hook'[b].id = hook[b].id
                                             /\ hook'[b].over = hook[b].over
    BY <1>1 DEF Answering
  <2> QED BY <1>1, <1>5, <1>9, <1>10, <1>11, <1>20, <2>1, <2>2, SendMic
<1> QED BY <1>17, <1>18, <1>19, <1>21, <1>22 DEF FeedInv

\* Every broadcast keeps the invariant.
LEMMA TellsKeep ==
  ASSUME FeedInv, NEW t \in Threads, Tells(t) PROVE FeedInv'
<1>1. CASE TellList(t)
  BY <1>1, TellListKeeps
<1>2. CASE Tell(t, "status", "status", {thread[t].id})
  <2>1. PICK tells : tells = {thread[t].id}
    OBVIOUS
  <2> QED BY <1>2, <2>1, TellKeeps DEF TellKinds
<1>3. CASE Tell(t, "ended", "ended", {thread[t].id})
  <2>1. PICK tells : tells = {thread[t].id}
    OBVIOUS
  <2> QED BY <1>3, <2>1, TellKeeps DEF TellKinds
<1>4. CASE Tell(t, "ring", "incoming", {})
  BY <1>4, TellKeeps DEF TellKinds
<1>5. CASE Tell(t, "claimed", "claimed", {})
  BY <1>5, TellKeeps DEF TellKinds
<1> QED BY <1>1, <1>2, <1>3, <1>4, <1>5 DEF Tells

\* Where the hook goes; over and the call stay until it is idle.
LEMMA GotoFacts ==
  ASSUME Types, NEW b \in Browsers, NEW step \in {"idle", "claim", "claimed", "media", "register"},
         Goto(b, step), Asked(b), hook[b].step # "idle"
  PROVE  /\ hook' \in [Browsers -> [step : {"idle", "claim", "claimed", "media", "register"},
                                    id : Ids \cup {NoId}, over : BOOLEAN]]
         /\ \A d \in Browsers : Asked(d)'
         /\ \A d \in Browsers \ {b} : hook'[d] = hook[d]
         /\ hook'[b].step = step
         /\ step # "idle" => hook'[b].id = hook[b].id /\ hook'[b].over = hook[b].over
<1> DEFINE Hook == [step : {"idle", "claim", "claimed", "media", "register"},
                    id : Ids \cup {NoId}, over : BOOLEAN]
<1>1. hook \in [Browsers -> Hook] /\ \A d \in Browsers : Asked(d)
  BY DEF Types, StoreTypes
<1>2. PICK h : h = hook[b]
  OBVIOUS
<1>3. h \in Hook
  BY <1>1, <1>2
<1>4. CASE step = "idle"
  <2>1. hook' = [hook EXCEPT ![b] = NoHook]
    BY <1>4 DEF Goto
  <2>2. NoHook \in Hook /\ NoHook.step = "idle"
    BY DEF NoHook
  <2>3. hook' \in [Browsers -> Hook] /\ hook'[b] = NoHook /\ \A d \in Browsers \ {b} : hook'[d] = hook[d]
    BY <1>1, <2>1, <2>2
  <2> QED BY <1>1, <1>4, <2>2, <2>3 DEF Asked
<1>5. CASE step # "idle"
  <2>1. PICK g : g = [h EXCEPT !.step = step]
    OBVIOUS
  <2>2. g \in Hook /\ g.step = step /\ g.id = h.id /\ g.over = h.over
    BY <1>3, <2>1
  <2>3. hook' = [hook EXCEPT ![b] = g]
    BY <1>2, <1>5, <2>1 DEF Goto
  <2>4. hook' \in [Browsers -> Hook] /\ hook'[b] = g /\ \A d \in Browsers \ {b} : hook'[d] = hook[d]
    BY <1>1, <2>2, <2>3
  <2> QED BY <1>1, <1>2, <2>2, <2>4 DEF Asked
<1> QED BY <1>4, <1>5

\* Goroutines that go on as they were.
LEMMA SameThreads ==
  ASSUME FeedInv, UNCHANGED <<calls, rev, thread, sent>>
  PROVE  /\ \A u \in Threads, c \in Ids : Counted(u, c)'
         /\ \A c \in Ids : Told(c)'
         /\ \A c \in Ids : /\ EndDue(c)' <=> EndDue(c)
                           /\ RingDue(c)' <=> RingDue(c)
                           /\ There(c)' <=> There(c)
<1>1. \A u \in Threads : \A task : Due(u, task)' <=> Due(u, task)
  BY DEF Due, Free
<1>2. ASSUME NEW u \in Threads, NEW c \in Ids PROVE Counted(u, c)'
  BY <1>1 DEF FeedInv, Counted
<1>3. ASSUME NEW c \in Ids PROVE Told(c)'
  <2>1. \A u \in Threads : Tellers(c, u) => Tellers(c, u)'
    BY <1>1 DEF Tellers
  <2> QED BY <2>1 DEF FeedInv, Told
<1>4. ASSUME NEW c \in Ids
      PROVE  (EndDue(c)' <=> EndDue(c)) /\ (RingDue(c)' <=> RingDue(c)) /\ (There(c)' <=> There(c))
  <2>1. EndDue(c)' <=> EndDue(c)
    BY <1>1 DEF EndDue
  <2> QED BY <2>1 DEF RingDue, There
<1> QED BY <1>2, <1>3, <1>4

\* And so do the types of the server.
LEMMA SameServer ==
  ASSUME Types, UNCHANGED <<calls, owner, rev, thread>> PROVE ServerTypes'
BY DEF Types, ServerTypes, Planned, Due, Free

\* The claim is told of before the hook leaves it, however AcceptCall ends.
LEMMA AcceptCallKeeps ==
  ASSUME FeedInv, NEW b \in Browsers, AcceptCall(b) PROVE FeedInv'
<1>1. /\ hook[b].step = "claimed"
      /\ UNCHANGED <<calls, owner, rev, thread, conn, shown, incoming, own, lateMic>>
  BY DEF AcceptCall, serverVars
<1>2. PICK c0 : c0 = hook[b].id
  OBVIOUS
<1>3. Types /\ c0 \in Ids /\ Asked(b) /\ rev \in [Ids -> Nat]
  BY <1>1, <1>2 DEF FeedInv, Types, StoreTypes, ServerTypes, Asked
<1>4. PICK e : e = [kind |-> "claimed", id |-> c0, list |-> NoCalls]
  OBVIOUS
<1>5. e \in Event /\ Meant(e) /\ e.kind = "claimed" /\ e.id = c0
  BY <1>3, <1>4, SilentFacts DEF Event, Meant
<1>6. PICK tells : tells = {}
  OBVIOUS
<1>7. PICK revs : revs = rev
  OBVIOUS
<1>8. Send(e, tells, revs) /\ tells \in SUBSET Ids /\ revs \in [Ids -> Nat]
  BY <1>2, <1>3, <1>4, <1>6, <1>7 DEF AcceptCall
<1>9. PICK step \in {"media", "idle"} : Goto(b, step)
  BY DEF AcceptCall
<1>10. /\ hook' \in [Browsers -> [step : {"idle", "claim", "claimed", "media", "register"},
                                  id : Ids \cup {NoId}, over : BOOLEAN]]
       /\ \A d \in Browsers : Asked(d)'
       /\ \A d \in Browsers \ {b} : hook'[d] = hook[d]
       /\ hook'[b].step = step
       /\ step # "idle" => hook'[b].id = hook[b].id /\ hook'[b].over = hook[b].over
  BY <1>1, <1>3, <1>9, GotoFacts
<1>11. StreamTypes' /\ ToldTypes' /\ Effect(e, tells, revs)
  BY <1>1, <1>3, <1>5, <1>8, SendFacts
<1>12. sent' = sent
  <2>1. sent' \in [Ids -> Nat] /\ sent \in [Ids -> Nat]
    BY <1>3, <1>11 DEF Types, ToldTypes
  <2>2. \A c \in Ids : sent'[c] = sent[c]
    BY <1>6, <1>11 DEF Effect
  <2> QED BY <2>1, <2>2
<1>13. /\ \A u \in Threads, c \in Ids : Counted(u, c)'
       /\ \A c \in Ids : Told(c)'
       /\ \A c \in Ids : (EndDue(c)' <=> EndDue(c)) /\ (RingDue(c)' <=> RingDue(c))
  BY <1>1, <1>12, SameThreads
<1>14. Types'
  <2>1. ServerTypes'
    BY <1>1, <1>3, SameServer
  <2>2. StoreTypes'
    BY <1>1, <1>3, <1>10 DEF Types, StoreTypes
  <2> QED BY <1>11, <2>1, <2>2 DEF Types
<1>15. \A d \in Browsers, c \in Ids : Current(d, c)'
  <2>1. \A c \in Ids : About(e, c) <=> c \in tells
    BY <1>5, <1>6 DEF About, Covers
  <2>2. (\A c \in Ids : Told(c)) /\ (\A d \in Browsers, c \in Ids : Current(d, c))
    BY DEF FeedInv
  <2> QED BY <1>1, <1>3, <1>5, <1>6, <1>8, <2>1, <2>2, SendCurrent
<1>16. \A c \in Ids : Ending(c) => Ending(c)' \/ Ends(e, c)
  <2> SUFFICES ASSUME NEW c \in Ids, Ending(c) PROVE Ending(c)' \/ Ends(e, c)
    OBVIOUS
  <2>1. \A u \in Threads : \A task : Due(u, task)' <=> Due(u, task)
    BY <1>1 DEF Due, Free
  <2>2. CASE \E u \in Threads : thread[u].id = c /\ (Due(u, "ended") \/ Due(u, "claimed"))
    BY <1>1, <2>1, <2>2 DEF Ending
  <2>3. ASSUME NEW d \in Browsers, hook[d].step = "claimed", hook[d].id = c
        PROVE  Ending(c)' \/ Ends(e, c)
    BY <1>2, <1>5, <1>10, <2>3 DEF Ending, Ends
  <2> QED BY <2>2, <2>3 DEF Ending
<1>17. /\ \A c \in Ids : RingTrue(c)'
       /\ \A d \in Browsers, c \in Ids : RingSeen(d, c)'
  <2>1. (\A c \in Ids : RingTrue(c)) /\ (\A d \in Browsers, c \in Ids : RingSeen(d, c))
    BY DEF FeedInv
  <2> QED BY <1>1, <1>3, <1>5, <1>8, <1>13, <1>16, <2>1, SendRings
<1>18. \A d \in Browsers, c \in Ids : MicHeld(d, c)' /\ HookHeld(d, c)'
  <2>1. \A d \in Browsers, c \in Ids : MicHeld(d, c) /\ HookHeld(d, c)
    BY DEF FeedInv
  <2>2. \A d \in Browsers : Answering(d)' => Answering(d) /\ hook'[d].id = hook[d].id
                                             /\ hook'[d].over = hook[d].over
    BY <1>1, <1>10 DEF Answering
  <2> QED BY <1>1, <1>3, <1>5, <1>8, <1>13, <2>1, <2>2, SendMic
<1> QED BY <1>13, <1>14, <1>15, <1>17, <1>18 DEF FeedInv

\* The list is taken anew: what the goroutine has of it is the records.
LEMMA TakeListKeeps ==
  ASSUME FeedInv, NEW t \in Threads, TakeList(t) PROVE FeedInv'
<1>1. /\ Due(t, "list") /\ ~Free(t) /\ Head(thread[t].todo) = "list"
      /\ UNCHANGED <<calls, owner, rev, conn, queue, storeVars, toldVars>>
  BY DEF TakeList, Due
<1>2. /\ thread \in [Threads -> ThreadRec] /\ Planned(t) /\ calls \in [Ids -> Statuses]
      /\ rev \in [Ids -> Nat]
  BY DEF FeedInv, Types, ServerTypes, ThreadRec
<1>3. PICK r : r = thread[t]
  OBVIOUS
<1>4. PICK p : p = r.todo
  OBVIOUS
<1>5. p \in Plans /\ p # <<>> /\ PlanSound(p) /\ Head(p) = "list"
  BY <1>1, <1>2, <1>3, <1>4, PlanFacts DEF Planned, Free
<1>6. Then(p, "send") /\ Tail(p) \in Plans
  BY <1>5 DEF PlanSound
<1>7. Tail(p) # <<>> /\ Head(Tail(p)) = "send" /\ Tail(p) \in Seq(Tasks)
  BY <1>6, PlanFacts DEF Then, PlanSound
<1>8. PICK q : q = [r EXCEPT !.todo = Tail(p), !.list = calls, !.revs = rev]
  OBVIOUS
<1>9. q \in ThreadRec /\ q.todo = Tail(p) /\ q.list = calls /\ q.revs = rev
      /\ q.id = r.id /\ q.status = r.status /\ q.rev = r.rev
  BY <1>2, <1>3, <1>7, <1>8 DEF ThreadRec
<1>10. thread' = [thread EXCEPT ![t] = q]
  BY <1>3, <1>4, <1>8 DEF TakeList
<1>11. thread'[t] = q /\ thread' \in [Threads -> ThreadRec]
       /\ \A u \in Threads \ {t} : thread'[u] = thread[u]
  BY <1>2, <1>9, <1>10
<1>12. /\ \A u \in Threads \ {t} : \A task : Due(u, task)' <=> Due(u, task)
       /\ \A task : Due(t, task)' <=> task = "send"
       /\ \A task : Due(t, task) <=> task = "list"
  BY <1>1, <1>7, <1>9, <1>11 DEF Due, Free
<1>13. Types'
  <2>1. Planned(t)'
    <3>1. Tail(p) \in Bare \/ r.id \in Ids
      BY <1>2, <1>3, <1>4, <1>5, BareFacts DEF Planned
    <3> QED BY <1>6, <1>9, <1>11, <1>12, <3>1 DEF Planned
  <2>2. \A u \in Threads \ {t} : Planned(u)'
    BY <1>11, <1>12 DEF FeedInv, Types, ServerTypes, Planned
  <2>3. ServerTypes'
    BY <1>1, <1>11, <2>1, <2>2 DEF FeedInv, Types, ServerTypes, ThreadRec
  <2>4. StreamTypes' /\ ToldTypes' /\ StoreTypes'
    BY <1>1 DEF FeedInv, Types, StreamTypes, ToldTypes, StoreTypes, storeVars, toldVars, Asked
  <2> QED BY <2>3, <2>4 DEF Types
<1>14. ASSUME NEW u \in Threads, NEW c \in Ids PROVE Counted(u, c)'
  <2>1. Counted(u, c) /\ sent'[c] = sent[c]
    BY <1>1 DEF FeedInv, toldVars
  <2>2. CASE u # t
    BY <1>1, <1>11, <1>12, <2>1, <2>2 DEF Counted
  <2>3. CASE u = t
    BY <1>1, <1>2, <1>3, <1>9, <1>11, <1>12, <2>1, <2>3 DEF Counted
  <2> QED BY <2>2, <2>3
<1>15. ASSUME NEW c \in Ids PROVE Told(c)'
  <2>1. Told(c) /\ UNCHANGED <<calls, rev, sent>>
    BY <1>1 DEF FeedInv, toldVars
  <2>2. \A u \in Threads : Tellers(c, u) => Tellers(c, u)'
    BY <1>1, <1>9, <1>11, <1>12 DEF Tellers
  <2> QED BY <2>1, <2>2 DEF Told
<1>16. \A b \in Browsers, c \in Ids : Current(b, c)'
  BY <1>1, CurrentKept DEF FeedInv, storeVars, toldVars
<1>17. ASSUME NEW c \in Ids
       PROVE  (Rings(c) => Rings(c)') /\ (RingDue(c)' => RingDue(c)) /\ (There(c) => There(c)')
  <2>1. RingDue(c)' => RingDue(c)
    <3>1. RingIn(Tail(p)) => RingIn(p)
      BY <1>5 DEF PlanSound
    <3> QED BY <1>3, <1>4, <1>9, <1>11, <3>1 DEF RingDue
  <2>2. Ending(c) => Ending(c)'
    BY <1>1, <1>11, <1>12 DEF Ending, storeVars
  <2>3. EndDue(c) => EndDue(c)'
    BY <1>11, <1>12 DEF EndDue
  <2> QED BY <1>1, <2>1, <2>2, <2>3 DEF Rings, There
<1>18. /\ \A c \in Ids : RingTrue(c)'
       /\ \A b \in Browsers, c \in Ids : RingSeen(b, c)'
  BY <1>1, <1>17, RingsKept DEF FeedInv, storeVars, toldVars
<1>19. \A b \in Browsers, c \in Ids : MicHeld(b, c)' /\ HookHeld(b, c)'
  BY <1>1, <1>17, MicKept DEF FeedInv, storeVars, toldVars, Answering
<1> QED BY <1>13, <1>14, <1>15, <1>16, <1>18, <1>19 DEF FeedInv

\* A goroutine that was free has something to tell.
LEMMA SetThread ==
  ASSUME Types, NEW t \in Threads, Free(t), NEW r \in ThreadRec,
         thread' = [thread EXCEPT ![t] = r],
         r.todo \in Plans, r.todo # <<>>, r.id \in Ids \/ r.todo \in Bare,
         Head(r.todo) = "ended" => r.status = "none"
  PROVE  /\ thread' \in [Threads -> ThreadRec] /\ \A u \in Threads : Planned(u)'
         /\ thread'[t] = r /\ \A u \in Threads \ {t} : thread'[u] = thread[u]
         /\ \A u \in Threads \ {t} : \A task : Due(u, task)' <=> Due(u, task)
         /\ \A task : Due(t, task)' <=> Head(r.todo) = task
         /\ \A task : ~Due(t, task)
<1>1. thread \in [Threads -> ThreadRec] /\ \A u \in Threads : Planned(u)
  BY DEF Types, ServerTypes, ThreadRec
<1>2. thread'[t] = r /\ thread' \in [Threads -> ThreadRec]
      /\ \A u \in Threads \ {t} : thread'[u] = thread[u]
  BY <1>1
<1>3. /\ \A u \in Threads \ {t} : \A task : Due(u, task)' <=> Due(u, task)
      /\ \A task : Due(t, task)' <=> Head(r.todo) = task
      /\ \A task : ~Due(t, task)
  BY <1>2 DEF Due, Free
<1>4. Planned(t)'
  BY <1>2, <1>3 DEF Planned
<1>5. \A u \in Threads \ {t} : Planned(u)'
  BY <1>1, <1>2, <1>3 DEF Planned
<1> QED BY <1>2, <1>3, <1>4, <1>5

\* And as much as it took over from the others goes on.
LEMMA SetThreadLeaves ==
  ASSUME FeedInv, NEW t \in Threads, Free(t), NEW r \in ThreadRec, thread'[t] = r,
         \A u \in Threads \ {t} : thread'[u] = thread[u], hook' = hook
  PROVE  \A c \in Ids : /\ Ending(c) => Ending(c)'
                        /\ EndDue(c) => EndDue(c)'
                        /\ RingDue(c)' => RingDue(c) \/ (r.id = c /\ RingIn(r.todo))
<1>1. /\ \A u \in Threads \ {t} : \A task : Due(u, task)' <=> Due(u, task)
      /\ \A task : ~Due(t, task)
  BY DEF Due, Free
<1>2. ASSUME NEW c \in Ids PROVE Ending(c) => Ending(c)'
  BY <1>1 DEF Ending
<1>3. ASSUME NEW c \in Ids PROVE EndDue(c) => EndDue(c)'
  BY <1>1 DEF EndDue
<1>4. ASSUME NEW c \in Ids PROVE RingDue(c)' => RingDue(c) \/ (r.id = c /\ RingIn(r.todo))
  BY DEF RingDue
<1> QED BY <1>2, <1>3, <1>4

\* A record that changes: who has to tell it, and what stays as it was.
LEMMA ChangesKeep ==
  ASSUME FeedInv, NEW t \in Threads, NEW c \in Ids, NEW s \in Statuses, NEW tasks \in Plans,
         Changes(t, c, s, tasks), tasks # <<>>,
         owner' \in [Ids -> Browsers \cup {Other, NoOwner}],
         Head(tasks) = "list" \/ (Head(tasks) = "ended" /\ s = "none"),
         Rings(c) => Rings(c)', There(c) => There(c)',
         \A d \in Ids \ {c} : owner'[d] = owner[d],
         RingIn(tasks) => Rings(c)'
  PROVE  FeedInv'
<1>1. /\ Free(t) /\ calls' = [calls EXCEPT ![c] = s] /\ rev' = [rev EXCEPT ![c] = @ + 1]
      /\ UNCHANGED <<conn, queue, shown, incoming, own, hook, lateMic>>
      /\ UNCHANGED <<sent, overtaken, lateRing, missed, unheard>>
  BY DEF Changes, storeVars, toldVars
<1>2. /\ calls \in [Ids -> Statuses] /\ rev \in [Ids -> Nat] /\ sent \in [Ids -> Nat] /\ Types
  BY DEF FeedInv, Types, ServerTypes, ToldTypes
<1>3. PICK r : r = [Silent EXCEPT !.todo = tasks, !.id = c, !.status = s, !.rev = rev[c] + 1]
  OBVIOUS
<1>4. r.todo = tasks /\ r.id = c /\ r.status = s /\ r.rev = rev[c] + 1
  BY <1>3 DEF Silent
<1>5. r \in ThreadRec
  <2>1. tasks \in Seq(Tasks)
    BY PlanFacts DEF PlanSound
  <2>2. rev[c] + 1 \in Nat
    BY <1>2
  <2> QED BY <1>3, <2>1, <2>2, SilentFacts DEF ThreadRec, Silent
<1>6. thread' = [thread EXCEPT ![t] = r]
  BY <1>3 DEF Changes
<1>7. /\ calls' \in [Ids -> Statuses] /\ calls'[c] = s /\ \A d \in Ids \ {c} : calls'[d] = calls[d]
      /\ rev' \in [Ids -> Nat] /\ rev'[c] = rev[c] + 1 /\ \A d \in Ids \ {c} : rev'[d] = rev[d]
  BY <1>1, <1>2
<1>8. /\ thread' \in [Threads -> ThreadRec] /\ \A u \in Threads : Planned(u)'
      /\ thread'[t] = r /\ \A u \in Threads \ {t} : thread'[u] = thread[u]
      /\ \A u \in Threads \ {t} : \A task : Due(u, task)' <=> Due(u, task)
      /\ \A task : Due(t, task)' <=> Head(tasks) = task
      /\ \A task : ~Due(t, task)
  BY <1>1, <1>2, <1>4, <1>5, <1>6, SetThread
<1>9. Types'
  <2>1. ServerTypes'
    BY <1>7, <1>8 DEF ServerTypes, ThreadRec
  <2>2. StreamTypes' /\ ToldTypes' /\ StoreTypes'
    BY <1>1, <1>2 DEF Types, StreamTypes, ToldTypes, StoreTypes, Asked
  <2> QED BY <2>1, <2>2 DEF Types
<1>10. \A d \in Ids : rev[d] \in Nat /\ sent[d] \in Nat /\ sent[d] <= rev[d]
  BY <1>2 DEF FeedInv, Told
<1>11. ASSUME NEW u \in Threads, NEW d \in Ids PROVE Counted(u, d)'
  <2>1. CASE u = t
    BY <1>4, <1>7, <1>8, <2>1 DEF Counted
  <2>2. CASE u # t /\ d # c
    BY <1>1, <1>7, <1>8, <2>2 DEF FeedInv, Counted
  <2>3. CASE u # t /\ d = c
    <3>1. thread'[u] = thread[u] /\ thread[u] \in ThreadRec /\ Counted(u, c)
      BY <1>2, <1>8, <2>3 DEF FeedInv, Types, ServerTypes, ThreadRec
    <3>2. thread[u].rev \in Nat /\ thread[u].revs[c] \in Nat
      BY <3>1 DEF ThreadRec
    <3> QED BY <1>1, <1>7, <1>8, <1>10, <2>3, <3>1, <3>2 DEF Counted
  <2> QED BY <2>1, <2>2, <2>3
<1>12. ASSUME NEW d \in Ids PROVE Told(d)'
  <2>1. CASE d = c
    <3>1. Tellers(c, t)'
      BY <1>8 DEF Tellers
    <3> QED BY <1>1, <1>7, <1>10, <2>1, <3>1 DEF Told
  <2>2. CASE d # c
    <3>1. \A u \in Threads : Tellers(d, u) => Tellers(d, u)'
      BY <1>7, <1>8, <2>2 DEF Tellers
    <3> QED BY <1>1, <1>7, <2>2, <3>1 DEF FeedInv, Told
  <2> QED BY <2>1, <2>2
<1>13. \A b \in Browsers, d \in Ids : Current(b, d)'
  <2>1. \A d \in Ids : sent[d] # rev'[d] \/ (rev'[d] = rev[d] /\ calls'[d] = calls[d])
    BY <1>7, <1>10
  <2> QED BY <1>1, <2>1, CurrentKept DEF FeedInv
<1>14. \A d \in Ids : /\ Ending(d) => Ending(d)'
                      /\ EndDue(d) => EndDue(d)'
                      /\ RingDue(d)' => RingDue(d) \/ (d = c /\ RingIn(tasks))
  BY <1>1, <1>4, <1>5, <1>8, SetThreadLeaves
<1>15. \A d \in Ids : (Rings(d) => Rings(d)') /\ (There(d) => There(d)')
  <2> SUFFICES ASSUME NEW d \in Ids, d # c PROVE (Rings(d) => Rings(d)') /\ (There(d) => There(d)')
    OBVIOUS
  <2>1. calls'[d] = calls[d] /\ owner'[d] = owner[d]
    BY <1>7
  <2> QED BY <1>14, <2>1 DEF Rings, There
<1>16. /\ \A d \in Ids : RingTrue(d)'
       /\ \A b \in Browsers, d \in Ids : RingSeen(b, d)'
  <2>1. \A d \in Ids : RingDue(d)' => RingDue(d) \/ Rings(d)'
    BY <1>14
  <2> QED BY <1>1, <1>15, <2>1, RingsKept DEF FeedInv
<1>17. \A b \in Browsers, d \in Ids : MicHeld(b, d)' /\ HookHeld(b, d)'
  BY <1>1, <1>15, MicKept DEF FeedInv, Answering
<1> QED BY <1>9, <1>11, <1>12, <1>13, <1>16, <1>17 DEF FeedInv

\* upsertCall has the list ahead; a call that comes in has no owner when it rings.
LEMMA UpsertKeeps ==
  ASSUME FeedInv, NEW t \in Writers, NEW c \in Ids, NEW s \in {"ringing", "connected"},
         NEW rings \in BOOLEAN, Upsert(t, c, s, rings)
  PROVE  FeedInv'
<1>1. PICK tasks : tasks = <<"list", "send", "status">> \o (IF rings THEN <<"ring">> ELSE <<>>)
  OBVIOUS
<1>2. /\ tasks = IF rings THEN <<"list", "send", "status", "ring">> ELSE <<"list", "send", "status">>
  BY <1>1
<1>3. tasks \in Plans /\ tasks # <<>> /\ Head(tasks) = "list" /\ (RingIn(tasks) => rings)
  BY <1>2 DEF Plans, RingIn
<1>4. Changes(t, c, s, tasks) /\ t \in Threads /\ (rings => rev[c] = 0) /\ s \in Statuses /\ s # "none"
      /\ owner' = IF calls[c] = "none" THEN [owner EXCEPT ![c] = NoOwner] ELSE owner
  BY <1>1 DEF Upsert, Threads, Statuses
<1>5. /\ calls \in [Ids -> Statuses] /\ owner \in [Ids -> Browsers \cup {Other, NoOwner}]
      /\ calls' = [calls EXCEPT ![c] = s]
  BY <1>4 DEF FeedInv, Types, ServerTypes, Changes
<1>6. /\ owner' \in [Ids -> Browsers \cup {Other, NoOwner}] /\ calls'[c] = s
      /\ \A d \in Ids \ {c} : owner'[d] = owner[d]
      /\ calls[c] = "none" => owner'[c] = NoOwner
      /\ calls[c] # "none" => owner'[c] = owner[c]
  BY <1>4, <1>5
<1>7. Ending(c) => Ending(c)'
  <2>1. PICK r : r = thread'[t]
    OBVIOUS
  <2>2. /\ Free(t) /\ thread \in [Threads -> ThreadRec] /\ hook' = hook
        /\ \A u \in Threads \ {t} : thread'[u] = thread[u]
    BY <1>4 DEF Changes, storeVars, FeedInv, Types, ServerTypes, ThreadRec
  <2>3. \A u \in Threads \ {t} : \A task : Due(u, task)' <=> Due(u, task)
    BY <2>2 DEF Due, Free
  <2>4. \A task : ~Due(t, task)
    BY <2>2 DEF Due, Free
  <2> QED BY <2>2, <2>3, <2>4 DEF Ending
<1>8. There(c)' /\ (Rings(c) => Rings(c)')
  BY <1>4, <1>6, <1>7 DEF There, Rings
<1>9. RingIn(tasks) => Rings(c)'
  <2>1. rev[c] = 0 => calls[c] = "none"
    BY DEF FeedInv, Told
  <2> QED BY <1>3, <1>4, <1>6, <2>1 DEF Rings
<1> QED BY <1>3, <1>4, <1>6, <1>8, <1>9, ChangesKeep

\* endCall has the end ahead, and then the list.
LEMMA EndCallKeeps ==
  ASSUME FeedInv, NEW t \in Writers, NEW c \in Ids, EndCall(t, c)
  PROVE  FeedInv'
<1>1. PICK tasks : tasks = <<"ended", "list", "send">>
  OBVIOUS
<1>2. tasks \in Plans /\ tasks # <<>> /\ Head(tasks) = "ended"
  BY <1>1 DEF Plans
<1>3. ~RingIn(tasks)
  BY <1>2, PlanFacts DEF PlanSound
<1>4. Changes(t, c, "none", tasks) /\ t \in Threads /\ "none" \in Statuses
      /\ owner' = [owner EXCEPT ![c] = NoOwner]
  BY <1>1 DEF EndCall, Threads, Statuses
<1>5. /\ owner' \in [Ids -> Browsers \cup {Other, NoOwner}]
      /\ \A d \in Ids \ {c} : owner'[d] = owner[d]
  BY <1>4 DEF FeedInv, Types, ServerTypes
<1>6. Due(t, "ended")' /\ thread'[t].id = c
  <2>1. PICK r : r = [Silent EXCEPT !.todo = tasks, !.id = c, !.status = "none", !.rev = rev[c] + 1]
    OBVIOUS
  <2>2. r.todo = tasks /\ r.id = c
    BY <2>1 DEF Silent
  <2>3. thread' = [thread EXCEPT ![t] = r] /\ thread \in [Threads -> ThreadRec]
    BY <1>4, <2>1 DEF Changes, FeedInv, Types, ServerTypes, ThreadRec
  <2> QED BY <1>2, <1>4, <2>2, <2>3 DEF Due, Free
<1>7. Rings(c)' /\ There(c)'
  BY <1>4, <1>6 DEF Rings, Ending, There, EndDue
<1> QED BY <1>2, <1>3, <1>4, <1>5, <1>7, ChangesKeep

\* A claim of somebody else's has the event that tells of it ahead.
LEMMA OtherClaimsKeeps ==
  ASSUME FeedInv, NEW t \in Writers, NEW c \in Ids, OtherClaims(t, c)
  PROVE  FeedInv'
<1>1. /\ Free(t) /\ t \in Threads /\ Claimable(c, Other) /\ owner' = [owner EXCEPT ![c] = Other]
      /\ UNCHANGED <<calls, rev, conn, queue, shown, incoming, own, hook, lateMic>>
      /\ UNCHANGED <<sent, overtaken, lateRing, missed, unheard>>
  BY DEF OtherClaims, Threads, storeVars, toldVars
<1>2. PICK r : r = [Silent EXCEPT !.todo = <<"claimed">>, !.id = c]
  OBVIOUS
<1>3. r.todo = <<"claimed">> /\ r.id = c /\ r.rev = 0 /\ r \in ThreadRec
  <2>1. <<"claimed">> \in Seq(Tasks)
    BY DEF Tasks
  <2> QED BY <1>2, <2>1, SilentFacts DEF Silent, ThreadRec
<1>4. r.todo \in Plans /\ r.todo # <<>> /\ Head(r.todo) = "claimed"
  BY <1>3 DEF Plans
<1>5. ~RingIn(r.todo)
  BY <1>4, PlanFacts DEF PlanSound
<1>6. thread' = [thread EXCEPT ![t] = r] /\ Types
  BY <1>2 DEF OtherClaims, FeedInv
<1>7. /\ thread' \in [Threads -> ThreadRec] /\ \A u \in Threads : Planned(u)'
      /\ thread'[t] = r /\ \A u \in Threads \ {t} : thread'[u] = thread[u]
      /\ \A u \in Threads \ {t} : \A task : Due(u, task)' <=> Due(u, task)
      /\ \A task : Due(t, task)' <=> task = "claimed"
      /\ \A task : ~Due(t, task)
  BY <1>1, <1>3, <1>4, <1>6, SetThread
<1>8. Types'
  <2>1. ServerTypes'
    BY <1>1, <1>6, <1>7 DEF Types, ServerTypes, ThreadRec
  <2>2. StreamTypes' /\ ToldTypes' /\ StoreTypes'
    BY <1>1, <1>6 DEF Types, StreamTypes, ToldTypes, StoreTypes, Asked
  <2> QED BY <2>1, <2>2 DEF Types
<1>9. ASSUME NEW u \in Threads, NEW d \in Ids PROVE Counted(u, d)'
  <2>1. CASE u = t
    <3>1. rev[d] \in Nat
      BY <1>6 DEF Types, ServerTypes
    <3> QED BY <1>1, <1>3, <1>7, <2>1, <3>1 DEF Counted
  <2>2. CASE u # t
    BY <1>1, <1>7, <2>2 DEF FeedInv, Counted
  <2> QED BY <2>1, <2>2
<1>10. ASSUME NEW d \in Ids PROVE Told(d)'
  <2>1. \A u \in Threads : Tellers(d, u) => Tellers(d, u)'
    BY <1>1, <1>7 DEF Tellers
  <2> QED BY <1>1, <2>1 DEF FeedInv, Told
<1>11. \A b \in Browsers, d \in Ids : Current(b, d)'
  BY <1>1, CurrentKept DEF FeedInv
<1>12. \A d \in Ids : /\ Ending(d) => Ending(d)'
                      /\ EndDue(d) => EndDue(d)'
                      /\ RingDue(d)' => RingDue(d)
  BY <1>1, <1>3, <1>5, <1>7, SetThreadLeaves
<1>13. \A d \in Ids : (Rings(d) => Rings(d)') /\ (There(d) => There(d)')
  <2>1. ASSUME NEW d \in Ids PROVE Rings(d) => Rings(d)'
    <3>1. CASE d = c
      BY <1>1, <1>3, <1>7, <3>1 DEF Rings, Ending
    <3>2. CASE d # c
      <4>1. owner'[d] = owner[d]
        BY <1>1, <1>6, <3>2 DEF Types, ServerTypes
      <4> QED BY <1>1, <1>12, <4>1 DEF Rings
    <3> QED BY <3>1, <3>2
  <2>2. ASSUME NEW d \in Ids PROVE There(d) => There(d)'
    BY <1>1, <1>12 DEF There
  <2> QED BY <2>1, <2>2
<1>14. /\ \A d \in Ids : RingTrue(d)'
       /\ \A b \in Browsers, d \in Ids : RingSeen(b, d)'
  BY <1>1, <1>12, <1>13, RingsKept DEF FeedInv
<1>15. \A b \in Browsers, d \in Ids : MicHeld(b, d)' /\ HookHeld(b, d)'
  BY <1>1, <1>13, MicKept DEF FeedInv, Answering
<1> QED BY <1>8, <1>9, <1>10, <1>11, <1>14, <1>15 DEF FeedInv

\* A ticket comes and goes; no stream is opened or closed.
LEMMA TicketKeeps ==
  ASSUME FeedInv, NEW b \in Browsers, FetchTicket(b) \/ TicketExpires(b)
  PROVE  FeedInv'
<1>1. /\ UNCHANGED <<calls, owner, rev, thread, queue, shown, incoming, own, hook, lateMic>>
      /\ UNCHANGED <<sent, overtaken, lateRing, missed, unheard>>
  BY DEF FetchTicket, TicketExpires, serverVars, storeVars, toldVars
<1>2. /\ conn \in [Browsers -> {"off", "ticket", "open"}] /\ conn[b] # "open"
      /\ \E s \in {"off", "ticket"} : conn' = [conn EXCEPT ![b] = s]
  BY DEF FeedInv, Types, StreamTypes, FetchTicket, TicketExpires
<1>3. /\ conn' \in [Browsers -> {"off", "ticket", "open"}]
      /\ \A d \in Browsers : conn'[d] = "open" <=> conn[d] = "open"
  BY <1>2
<1>4. Types'
  <2>1. StreamTypes'
    BY <1>1, <1>3 DEF FeedInv, Types, StreamTypes
  <2>2. ToldTypes' /\ StoreTypes' /\ ServerTypes'
    BY <1>1, SameServer DEF FeedInv, Types, ToldTypes, StoreTypes, Asked
  <2> QED BY <2>1, <2>2 DEF Types
<1>5. /\ \A u \in Threads, c \in Ids : Counted(u, c)'
      /\ \A c \in Ids : Told(c)'
      /\ \A c \in Ids : (RingDue(c)' <=> RingDue(c)) /\ (There(c)' <=> There(c))
  BY <1>1, SameThreads
<1>6. \A d \in Browsers, c \in Ids : Current(d, c)'
  BY <1>1, <1>3, CurrentKept DEF FeedInv
<1>7. \A c \in Ids : Rings(c) => Rings(c)'
  BY <1>1 DEF Rings, Ending, Due, Free
<1>8. /\ \A c \in Ids : RingTrue(c)'
      /\ \A d \in Browsers, c \in Ids : RingSeen(d, c)'
  BY <1>1, <1>5, <1>7, RingsKept DEF FeedInv
<1>9. \A d \in Browsers, c \in Ids : MicHeld(d, c)' /\ HookHeld(d, c)'
  BY <1>1, <1>5, MicKept DEF FeedInv, Answering
<1> QED BY <1>4, <1>5, <1>6, <1>8, <1>9 DEF FeedInv

\* A new stream has missed everything until it is told the list.
LEMMA SubscribeKeeps ==
  ASSUME FeedInv, NEW b \in Browsers, Subscribe(b) PROVE FeedInv'
<1>1. /\ Free(b) /\ b \in Threads /\ conn' = [conn EXCEPT ![b] = "open"]
      /\ missed' = [missed EXCEPT ![b] = Ids] /\ conn[b] = "ticket"
      /\ UNCHANGED <<calls, owner, rev, queue, shown, incoming, own, hook, lateMic>>
      /\ UNCHANGED <<sent, overtaken, lateRing, unheard>>
  BY DEF Subscribe, Threads, storeVars
<1>2. PICK r : r = [Silent EXCEPT !.todo = <<"list", "send">>]
  OBVIOUS
<1>3. r.todo = <<"list", "send">> /\ r.id = NoId /\ r.rev = 0 /\ r \in ThreadRec /\ r.id \notin Ids
  <2>1. <<"list", "send">> \in Seq(Tasks)
    BY DEF Tasks
  <2> QED BY <1>2, <2>1, SilentFacts DEF Silent, ThreadRec
<1>4. r.todo \in Plans /\ r.todo # <<>> /\ Head(r.todo) = "list" /\ r.todo \in Bare
  BY <1>3 DEF Plans, Bare
<1>5. thread' = [thread EXCEPT ![b] = r] /\ Types
  BY <1>2 DEF Subscribe, FeedInv
<1>6. /\ thread' \in [Threads -> ThreadRec] /\ \A u \in Threads : Planned(u)'
      /\ thread'[b] = r /\ \A u \in Threads \ {b} : thread'[u] = thread[u]
      /\ \A u \in Threads \ {b} : \A task : Due(u, task)' <=> Due(u, task)
      /\ \A task : Due(b, task)' <=> task = "list"
      /\ \A task : ~Due(b, task)
  BY <1>1, <1>3, <1>4, <1>5, SetThread
<1>7. /\ conn' \in [Browsers -> {"off", "ticket", "open"}] /\ conn'[b] = "open"
      /\ \A d \in Browsers \ {b} : conn'[d] = conn[d]
      /\ missed' \in [Browsers -> SUBSET Ids] /\ missed'[b] = Ids
      /\ \A d \in Browsers \ {b} : missed'[d] = missed[d]
  BY <1>1, <1>5 DEF Types, StreamTypes, ToldTypes
<1>8. Types'
  <2>1. ServerTypes'
    BY <1>1, <1>5, <1>6 DEF Types, ServerTypes, ThreadRec
  <2>2. StreamTypes'
    <3>1. \A d \in Browsers : conn'[d] # "open" => conn[d] # "open"
      BY <1>7
    <3> QED BY <1>1, <1>5, <1>7, <3>1 DEF Types, StreamTypes
  <2>3. ToldTypes' /\ StoreTypes'
    BY <1>1, <1>5, <1>7 DEF Types, ToldTypes, StoreTypes, Asked
  <2> QED BY <2>1, <2>2, <2>3 DEF Types
<1>9. ASSUME NEW u \in Threads, NEW d \in Ids PROVE Counted(u, d)'
  <2>1. CASE u = b
    BY <1>3, <1>6, <2>1 DEF Counted
  <2>2. CASE u # b
    BY <1>1, <1>6, <2>2 DEF FeedInv, Counted
  <2> QED BY <2>1, <2>2
<1>10. ASSUME NEW d \in Ids PROVE Told(d)'
  <2>1. \A u \in Threads : Tellers(d, u) => Tellers(d, u)'
    BY <1>1, <1>6 DEF Tellers
  <2> QED BY <1>1, <2>1 DEF FeedInv, Told
<1>11. \A d \in Browsers, c \in Ids : Current(d, c)'
  <2>1. \A d \in Browsers : conn'[d] = "open" =>
          missed'[d] = Ids \/ (conn[d] = "open" /\ missed[d] \subseteq missed'[d])
    BY <1>7
  <2> QED BY <1>1, <2>1, CurrentKept DEF FeedInv
<1>12. \A d \in Ids : /\ Ending(d) => Ending(d)'
                      /\ EndDue(d) => EndDue(d)'
                      /\ RingDue(d)' => RingDue(d)
  BY <1>1, <1>3, <1>6, SetThreadLeaves
<1>13. \A d \in Ids : (Rings(d) => Rings(d)') /\ (There(d) => There(d)')
  BY <1>1, <1>12 DEF Rings, There
<1>14. /\ \A d \in Ids : RingTrue(d)'
       /\ \A d \in Browsers, c \in Ids : RingSeen(d, c)'
  BY <1>1, <1>12, <1>13, RingsKept DEF FeedInv
<1>15. \A d \in Browsers, c \in Ids : MicHeld(d, c)' /\ HookHeld(d, c)'
  BY <1>1, <1>13, MicKept DEF FeedInv, Answering
<1> QED BY <1>8, <1>9, <1>10, <1>11, <1>14, <1>15 DEF FeedInv

\* What was in the channel of a stream that is lost is counted as unheard.
LEMMA DisconnectKeeps ==
  ASSUME FeedInv, NEW b \in Browsers, Disconnect(b) PROVE FeedInv'
<1>1. /\ conn' = [conn EXCEPT ![b] = "off"] /\ queue' = [queue EXCEPT ![b] = <<>>]
      /\ missed' = [missed EXCEPT ![b] = {}]
      /\ UNCHANGED <<calls, owner, rev, thread, shown, incoming, own, hook, lateMic>>
      /\ UNCHANGED <<sent, overtaken, lateRing>>
  BY DEF Disconnect, serverVars, storeVars
<1>2. /\ conn \in [Browsers -> {"off", "ticket", "open"}] /\ queue \in [Browsers -> Seq(Event)]
      /\ missed \in [Browsers -> SUBSET Ids] /\ unheard \in [Browsers -> SUBSET Ids] /\ Types
  BY DEF FeedInv, Types, StreamTypes, ToldTypes
<1>3. PICK lost : lost = {queue[b][i].id : i \in {j \in DOMAIN queue[b] :
                                                   queue[b][j].kind \in {"ended", "claimed"}}}
  OBVIOUS
<1>4. unheard' = [unheard EXCEPT ![b] = @ \cup lost]
  BY <1>3 DEF Disconnect
<1>5. /\ \A i \in 1..Len(queue[b]) :
           queue[b][i].kind \in {"ended", "claimed"} => queue[b][i].id \in lost
      /\ lost \subseteq Ids
  <2>1. DOMAIN queue[b] = 1..Len(queue[b])
    BY <1>2
  <2>2. \A i \in 1..Len(queue[b]) : Meant(queue[b][i])
    BY <1>2 DEF Types, StreamTypes
  <2> QED BY <1>3, <2>1, <2>2 DEF Meant
<1>6. /\ conn' \in [Browsers -> {"off", "ticket", "open"}] /\ conn'[b] = "off"
      /\ queue' \in [Browsers -> Seq(Event)] /\ queue'[b] = <<>>
      /\ missed' \in [Browsers -> SUBSET Ids]
      /\ unheard' \in [Browsers -> SUBSET Ids] /\ unheard'[b] = unheard[b] \cup lost
      /\ \A d \in Browsers \ {b} : /\ conn'[d] = conn[d] /\ queue'[d] = queue[d]
                                   /\ missed'[d] = missed[d] /\ unheard'[d] = unheard[d]
  BY <1>1, <1>2, <1>4, <1>5
<1>7. Types'
  <2>1. ServerTypes'
    BY <1>1, <1>2, SameServer
  <2>2. ASSUME NEW d \in Browsers
        PROVE  /\ Len(queue'[d]) <= Capacity /\ (conn'[d] # "open" => queue'[d] = <<>>)
               /\ \A i \in 1..Len(queue'[d]) : Meant(queue'[d][i])
    <3>1. CASE d = b
      BY <1>6, <3>1, FeedAssumption
    <3>2. CASE d # b
      BY <1>2, <1>6, <3>2 DEF Types, StreamTypes
    <3> QED BY <3>1, <3>2
  <2>3. StreamTypes'
    BY <1>6, <2>2 DEF StreamTypes, Meant
  <2>4. ToldTypes' /\ StoreTypes'
    BY <1>1, <1>2, <1>6 DEF Types, ToldTypes, StoreTypes, Asked
  <2> QED BY <2>1, <2>3, <2>4 DEF Types
<1>8. /\ \A u \in Threads, c \in Ids : Counted(u, c)'
      /\ \A c \in Ids : Told(c)'
      /\ \A c \in Ids : (RingDue(c)' <=> RingDue(c)) /\ (There(c)' <=> There(c))
  BY <1>1, SameThreads
<1>9. \A c \in Ids : Rings(c)' <=> Rings(c)
  BY <1>1 DEF Rings, Ending, Due, Free
<1>10. ASSUME NEW d \in Browsers, NEW c \in Ids PROVE Current(d, c)'
  <2>1. CASE d = b
    BY <1>6, <2>1 DEF Current
  <2>2. CASE d # b
    <3>1. PICK v : v = calls[c]
      OBVIOUS
    <3>2. Leads(d, c, v)' <=> Leads(d, c, v)
      BY <1>1, <1>6, <2>2 DEF Leads, Says
    <3> QED BY <1>1, <1>6, <2>2, <3>1, <3>2 DEF FeedInv, Current
  <2> QED BY <2>1, <2>2
<1>11. ASSUME NEW c \in Ids PROVE RingTrue(c)'
  BY <1>1, <1>8, <1>9 DEF FeedInv, RingTrue
<1>12. ASSUME NEW d \in Browsers, NEW c \in Ids PROVE RingSeen(d, c)'
  <2>1. RingSeen(d, c)
    BY DEF FeedInv
  <2>2. CASE d = b
    <3> SUFFICES ASSUME incoming[b] = c, ~Rings(c), ~Known(b, c)' PROVE FALSE
      <4>1. 0..Len(queue'[b]) = {0}
        BY <1>6
      <4> QED BY <1>1, <1>9, <2>2, <4>1 DEF RingSeen, RingAt
    <3>1. ~Known(b, c)
      BY <1>1, <1>6 DEF Known
    <3>2. 0 \in 0..Len(queue[b]) /\ RingAt(b, c, 0)
      BY <1>2 DEF RingAt
    <3>3. EndsAfter(b, c, 0)
      BY <2>1, <2>2, <3>1, <3>2 DEF RingSeen
    <3> QED BY <1>5, <1>6, <3>3 DEF EndsAfter, Ends, Known
  <2>3. CASE d # b
    BY <1>1, <1>6, <1>9, <2>1, <2>3 DEF RingSeen, RingAt, Known, EndsAfter
  <2> QED BY <2>2, <2>3
<1>13. ASSUME NEW d \in Browsers, NEW c \in Ids PROVE MicHeld(d, c)' /\ HookHeld(d, c)'
  <2>1. Alive(d, c) => Alive(d, c)'
    <3>1. CASE d = b
      BY <1>5, <1>6, <1>8, <3>1 DEF Alive
    <3>2. CASE d # b
      BY <1>6, <1>8, <3>2 DEF Alive
    <3> QED BY <3>1, <3>2
  <2>2. MicHeld(d, c)'
    BY <1>1, <2>1 DEF FeedInv, MicHeld
  <2>3. HookHeld(d, c)'
    BY <1>1, <2>1 DEF FeedInv, HookHeld, Answering
  <2> QED BY <2>2, <2>3
<1> QED BY <1>7, <1>8, <1>10, <1>11, <1>12, <1>13 DEF FeedInv

\* A step of the answering hook tells nothing and takes nothing from the channel.
HookStep == /\ UNCHANGED <<calls, rev, thread, conn, queue, shown>>
            /\ UNCHANGED <<sent, overtaken, lateRing, missed, unheard>>

\* What it has to see to: a claim is told of, and a microphone is for a call that is there.
LEMMA HookStepKeeps ==
  ASSUME FeedInv, HookStep, ServerTypes', StoreTypes',
         \A b \in Browsers : incoming'[b] \in {incoming[b], NoId},
         \A c \in Ids : Rings(c) => Rings(c)',
         \A b \in Browsers : lateMic[b] \subseteq lateMic'[b],
         \A b \in Browsers, c \in Ids :
           c \in own'[b] => c \in own[b] \/ c \in lateMic'[b] \/ Alive(b, c),
         \A b \in Browsers, c \in Ids : Answering(b)' /\ hook'[b].id = c =>
           There(c) \/ (Answering(b) /\ hook[b].id = c /\ (hook[b].over => hook'[b].over))
  PROVE  FeedInv'
<1>1. /\ UNCHANGED <<calls, rev, thread, conn, queue, shown>>
      /\ UNCHANGED <<sent, overtaken, lateRing, missed, unheard>>
  BY DEF HookStep
<1>2. Types'
  BY <1>1 DEF FeedInv, Types, StreamTypes, ToldTypes
<1>3. /\ \A u \in Threads, c \in Ids : Counted(u, c)'
      /\ \A c \in Ids : Told(c)'
      /\ \A c \in Ids : (RingDue(c)' <=> RingDue(c)) /\ (There(c)' <=> There(c))
  BY <1>1, SameThreads
<1>4. \A b \in Browsers, c \in Ids : Current(b, c)'
  BY <1>1, CurrentKept DEF FeedInv
<1>5. /\ \A c \in Ids : RingTrue(c)'
      /\ \A b \in Browsers, c \in Ids : RingSeen(b, c)'
  BY <1>1, <1>3, RingsKept DEF FeedInv
<1>6. \A b \in Browsers, c \in Ids : Alive(b, c)' <=> Alive(b, c)
  BY <1>1, <1>3 DEF Alive
<1>7. \A b \in Browsers, c \in Ids : MicHeld(b, c)' /\ HookHeld(b, c)'
  BY <1>1, <1>3, <1>6, MicKept DEF FeedInv
<1> QED BY <1>2, <1>3, <1>4, <1>5, <1>7 DEF FeedInv

HookRec == [step : {"idle", "claim", "claimed", "media", "register"},
            id : Ids \cup {NoId}, over : BOOLEAN]

\* Nobody's claim is forgotten by a hook that goes on.
LEMMA EndingKept ==
  ASSUME NEW b \in Browsers, thread' = thread, hook[b].step # "claimed",
         \A d \in Browsers \ {b} : hook'[d] = hook[d]
  PROVE  \A c \in Ids : Ending(c) => Ending(c)'
<1>1. \A u \in Threads : \A task : Due(u, task)' <=> Due(u, task)
  BY DEF Due, Free
<1> SUFFICES ASSUME NEW c \in Ids, Ending(c) PROVE Ending(c)'
  OBVIOUS
<1>2. CASE \E u \in Threads : thread[u].id = c /\ (Due(u, "ended") \/ Due(u, "claimed"))
  BY <1>1, <1>2 DEF Ending
<1>3. ASSUME NEW d \in Browsers, hook[d].step = "claimed", hook[d].id = c
      PROVE  Ending(c)'
  BY <1>3 DEF Ending
<1> QED BY <1>2, <1>3 DEF Ending

\* The hook starts; it holds nothing yet.
LEMMA AnswerKeeps ==
  ASSUME FeedInv, NEW b \in Browsers, NEW c0 \in Ids, Answer(b, c0) PROVE FeedInv'
<1>1. /\ HookStep /\ UNCHANGED <<owner, incoming, own, lateMic>> /\ hook[b].step = "idle"
      /\ hook' = [hook EXCEPT ![b] = [step |-> "claim", id |-> c0, over |-> FALSE]]
  BY DEF Answer, HookStep, serverVars, toldVars
<1>2. hook \in [Browsers -> HookRec] /\ \A d \in Browsers : Asked(d)
  BY DEF FeedInv, Types, StoreTypes, HookRec
<1>3. /\ hook' \in [Browsers -> HookRec] /\ hook'[b].step = "claim" /\ hook'[b].id = c0
      /\ \A d \in Browsers \ {b} : hook'[d] = hook[d]
  BY <1>1, <1>2 DEF HookRec
<1>4. StoreTypes'
  <2>1. \A d \in Browsers : Asked(d)'
    BY <1>2, <1>3 DEF Asked
  <2> QED BY <1>1, <1>3, <2>1 DEF FeedInv, Types, StoreTypes, HookRec, HookStep
<1>5. ServerTypes'
  BY <1>1, SameServer DEF FeedInv, HookStep
<1>6. \A c \in Ids : Rings(c) => Rings(c)'
  BY <1>1, <1>3, EndingKept DEF Rings, HookStep
<1>7. \A d \in Browsers : Answering(d)' => Answering(d) /\ hook'[d] = hook[d]
  BY <1>3 DEF Answering
<1> QED BY <1>1, <1>4, <1>5, <1>6, <1>7, HookStepKeeps

\* A claim that succeeds is for a call that is there, and the hook will tell of it.
LEMMA ClaimKeeps ==
  ASSUME FeedInv, NEW b \in Browsers, Claim(b) PROVE FeedInv'
<1>1. /\ HookStep /\ UNCHANGED <<own, lateMic>> /\ hook[b].step = "claim"
  BY DEF Claim, HookStep, toldVars
<1>2. /\ Types /\ hook \in [Browsers -> HookRec] /\ Asked(b)
      /\ owner \in [Ids -> Browsers \cup {Other, NoOwner}]
      /\ incoming \in [Browsers -> Ids \cup {NoId}]
  BY DEF FeedInv, Types, StoreTypes, ServerTypes, HookRec
<1>3. PICK c0 \in Ids : c0 = hook[b].id
  BY <1>1, <1>2 DEF Asked
<1>4. PICK mine \in BOOLEAN : mine <=> (Claimable(c0, b) /\ ~Busy(b, c0))
  OBVIOUS
<1>5. /\ owner' = IF mine THEN [owner EXCEPT ![c0] = b] ELSE owner
      /\ Goto(b, IF mine THEN "claimed" ELSE "idle")
      /\ incoming' = incoming \/ incoming' = [incoming EXCEPT ![b] = NoId]
  BY <1>3, <1>4 DEF Claim
<1>6. PICK step \in {"claimed", "idle"} : step = IF mine THEN "claimed" ELSE "idle"
  OBVIOUS
<1>7. /\ hook' \in [Browsers -> HookRec]
      /\ \A d \in Browsers : Asked(d)'
      /\ \A d \in Browsers \ {b} : hook'[d] = hook[d]
      /\ hook'[b].step = step
      /\ step # "idle" => hook'[b].id = hook[b].id /\ hook'[b].over = hook[b].over
  <2>1. Goto(b, step)
    BY <1>5, <1>6
  <2> QED BY <1>1, <1>2, <2>1, GotoFacts DEF HookRec
<1>8. /\ incoming' \in [Browsers -> Ids \cup {NoId}]
      /\ \A d \in Browsers : incoming'[d] \in {incoming[d], NoId}
  BY <1>2, <1>5
<1>9. /\ owner' \in [Ids -> Browsers \cup {Other, NoOwner}]
      /\ \A c \in Ids : c # c0 \/ ~mine => owner'[c] = owner[c]
  BY <1>2, <1>5
<1>10. StoreTypes'
  BY <1>1, <1>7, <1>8 DEF FeedInv, Types, StoreTypes, HookRec, HookStep
<1>11. ServerTypes'
  BY <1>1, <1>9 DEF FeedInv, Types, ServerTypes, HookStep, Planned, Due, Free
<1>12. \A c \in Ids : Rings(c) => Rings(c)'
  <2> SUFFICES ASSUME NEW c \in Ids, Rings(c) PROVE Rings(c)'
    OBVIOUS
  <2>1. Ending(c) => Ending(c)'
    BY <1>1, <1>7, EndingKept DEF HookStep
  <2>2. CASE c = c0 /\ mine
    <3>1. hook'[b].step = "claimed" /\ hook'[b].id = c
      BY <1>3, <1>6, <1>7, <2>2
    <3> QED BY <3>1 DEF Rings, Ending
  <2>3. CASE c # c0 \/ ~mine
    BY <1>1, <1>9, <2>1, <2>3 DEF Rings, HookStep
  <2> QED BY <2>2, <2>3
<1>13. ASSUME NEW d \in Browsers, NEW c \in Ids, Answering(d)', hook'[d].id = c
       PROVE  There(c) \/ (Answering(d) /\ hook[d].id = c /\ (hook[d].over => hook'[d].over))
  <2>1. CASE d = b
    <3>1. mine /\ c = c0
      BY <1>3, <1>6, <1>7, <1>13, <2>1 DEF Answering
    <3> QED BY <1>4, <3>1 DEF There, Claimable
  <2>2. CASE d # b
    BY <1>7, <1>13, <2>2 DEF Answering
  <2> QED BY <2>1, <2>2
<1> QED BY <1>1, <1>8, <1>10, <1>11, <1>12, <1>13, HookStepKeeps

\* The hook goes on with the call it has, or gives it up.
LEMMA OpenMediaKeeps ==
  ASSUME FeedInv, NEW b \in Browsers, OpenMedia(b) PROVE FeedInv'
<1>1. /\ HookStep /\ UNCHANGED <<owner, incoming, own, lateMic>> /\ hook[b].step = "media"
  BY DEF OpenMedia, HookStep, serverVars, toldVars
<1>2. PICK step \in {"register", "idle"} : Goto(b, step)
  BY DEF OpenMedia
<1>3. Types /\ Asked(b)
  BY DEF FeedInv, Types, StoreTypes
<1>4. /\ hook' \in [Browsers -> HookRec]
      /\ \A d \in Browsers : Asked(d)'
      /\ \A d \in Browsers \ {b} : hook'[d] = hook[d]
      /\ hook'[b].step = step
      /\ step # "idle" => hook'[b].id = hook[b].id /\ hook'[b].over = hook[b].over
  BY <1>1, <1>2, <1>3, GotoFacts DEF HookRec
<1>5. StoreTypes'
  BY <1>1, <1>4 DEF FeedInv, Types, StoreTypes, HookRec, HookStep
<1>6. ServerTypes'
  BY <1>1, SameServer DEF FeedInv, HookStep
<1>7. \A c \in Ids : Rings(c) => Rings(c)'
  BY <1>1, <1>4, EndingKept DEF Rings, HookStep
<1>8. \A d \in Browsers : Answering(d)' =>
        Answering(d) /\ hook'[d].id = hook[d].id /\ hook'[d].over = hook[d].over
  BY <1>1, <1>4 DEF Answering
<1> QED BY <1>1, <1>5, <1>6, <1>7, <1>8, HookStepKeeps

\* The connection is registered, late or while the call's end is still to come.
LEMMA RegisterKeeps ==
  ASSUME FeedInv, NEW b \in Browsers, Register(b) PROVE FeedInv'
<1>1. /\ HookStep /\ UNCHANGED owner /\ hook[b].step = "register" /\ Goto(b, "idle")
      /\ own' = [own EXCEPT ![b] = @ \cup {hook[b].id}]
      /\ incoming' = [incoming EXCEPT ![b] = NoId]
      /\ lateMic' = [lateMic EXCEPT ![b] = IF hook[b].over THEN @ \cup {hook[b].id} ELSE @]
  BY DEF Register, HookStep, serverVars, toldVars
<1>2. /\ Types /\ Asked(b) /\ incoming \in [Browsers -> Ids \cup {NoId}]
      /\ own \in [Browsers -> SUBSET Ids] /\ lateMic \in [Browsers -> SUBSET Ids]
  BY DEF FeedInv, Types, StoreTypes
<1>3. PICK c0 \in Ids : c0 = hook[b].id
  BY <1>1, <1>2 DEF Asked
<1>4. /\ hook' \in [Browsers -> HookRec]
      /\ \A d \in Browsers : Asked(d)'
      /\ \A d \in Browsers \ {b} : hook'[d] = hook[d]
      /\ hook'[b].step = "idle"
  BY <1>1, <1>2, GotoFacts DEF HookRec
<1>5. /\ own' \in [Browsers -> SUBSET Ids] /\ own'[b] = own[b] \cup {c0}
      /\ \A d \in Browsers \ {b} : own'[d] = own[d]
      /\ incoming' \in [Browsers -> Ids \cup {NoId}]
      /\ \A d \in Browsers : incoming'[d] \in {incoming[d], NoId}
      /\ lateMic' \in [Browsers -> SUBSET Ids]
      /\ lateMic'[b] = IF hook[b].over THEN lateMic[b] \cup {c0} ELSE lateMic[b]
      /\ \A d \in Browsers \ {b} : lateMic'[d] = lateMic[d]
  BY <1>1, <1>2, <1>3
<1>6. StoreTypes'
  BY <1>1, <1>4, <1>5 DEF FeedInv, Types, StoreTypes, HookRec, HookStep
<1>7. ServerTypes'
  BY <1>1, SameServer DEF FeedInv, HookStep
<1>8. \A c \in Ids : Rings(c) => Rings(c)'
  BY <1>1, <1>4, EndingKept DEF Rings, HookStep
<1>9. \A d \in Browsers : lateMic[d] \subseteq lateMic'[d]
  BY <1>5
<1>10. ASSUME NEW d \in Browsers, NEW c \in Ids, c \in own'[d]
       PROVE  c \in own[d] \/ c \in lateMic'[d] \/ Alive(d, c)
  <2>1. CASE d = b /\ c = c0
    <3>1. hook[b].over \/ Alive(b, c)
      BY <1>1, <1>3, <2>1 DEF FeedInv, HookHeld, Answering
    <3> QED BY <1>5, <2>1, <3>1
  <2>2. CASE d # b \/ c # c0
    BY <1>5, <1>10, <2>2
  <2> QED BY <2>1, <2>2
<1>11. \A d \in Browsers : Answering(d)' => Answering(d) /\ hook'[d] = hook[d]
  BY <1>4 DEF Answering
<1> QED BY <1>1, <1>5, <1>6, <1>7, <1>8, <1>9, <1>10, <1>11, HookStepKeeps

\* What the store makes of the first event of the channel.
Taken(b, e) ==
  /\ queue[b] \in Seq(Event) /\ queue[b] # <<>> /\ e = queue[b][1] /\ e \in Event /\ Meant(e)
  /\ \A c \in Ids :
       /\ shown'[b][c] = IF Covers(e, c) \/ (About(e, c) /\ shown[b][c] # "none")
                         THEN e.list[c] ELSE shown[b][c]
       /\ incoming'[b] = c => \/ e.kind = "incoming" /\ e.id = c
                              \/ incoming[b] = c /\ ~Ends(e, c)
       /\ c \in own'[b] => c \in own[b] /\ ~(e.kind = "ended" /\ e.id = c)
  /\ hook'[b].step = hook[b].step /\ hook'[b].id = hook[b].id
  /\ hook'[b].over <=> hook[b].over \/ (e.kind = "ended" /\ e.id = hook[b].id)

\* The channel moves up by one.
LEMMA TailFacts ==
  ASSUME NEW b \in Browsers, queue[b] \in Seq(Event), queue[b] # <<>>, queue'[b] = Tail(queue[b])
  PROVE  /\ Len(queue[b]) \in Nat \ {0} /\ Len(queue'[b]) = Len(queue[b]) - 1
         /\ queue'[b] \in Seq(Event)
         /\ \A i \in 1..Len(queue'[b]) : i + 1 \in 1..Len(queue[b]) /\ queue'[b][i] = queue[b][i + 1]
         /\ \A i \in 1..Len(queue[b]) : i # 1 =>
              i - 1 \in 1..Len(queue'[b]) /\ queue'[b][i - 1] = queue[b][i]
<1>1. PICK q : q = queue[b]
  OBVIOUS
<1>2. PICK n : n = Len(q)
  OBVIOUS
<1>3. q \in Seq(Event) /\ q # <<>> /\ n \in Nat \ {0}
  BY <1>1, <1>2
<1>4. Tail(q) \in Seq(Event) /\ Len(Tail(q)) = n - 1 /\ \A i \in 1..(n - 1) : Tail(q)[i] = q[i + 1]
  BY <1>2, <1>3
<1>5. ASSUME NEW i \in 1..n, i # 1 PROVE i - 1 \in 1..(n - 1) /\ Tail(q)[i - 1] = q[i]
  <2>1. i - 1 \in 1..(n - 1) /\ (i - 1) + 1 = i
    BY <1>3, <1>5
  <2> QED BY <1>4, <2>1
<1>6. \A i \in 1..(n - 1) : i + 1 \in 1..n
  BY <1>3
<1> QED BY <1>1, <1>2, <1>3, <1>4, <1>5, <1>6

\* What the browser will show is the same after it has taken an event.
LEMMA TakenLeads ==
  ASSUME NEW b \in Browsers, NEW c \in Ids, NEW v, NEW e, Taken(b, e),
         queue'[b] = Tail(queue[b]), Leads(b, c, v)
  PROVE  Leads(b, c, v)'
<1>1. PICK n : n = Len(queue[b])
  OBVIOUS
<1>2. /\ n \in Nat \ {0} /\ Len(queue'[b]) = n - 1
      /\ \A i \in 1..(n - 1) : i + 1 \in 1..n /\ queue'[b][i] = queue[b][i + 1]
      /\ \A i \in 1..n : i # 1 => i - 1 \in 1..(n - 1) /\ queue'[b][i - 1] = queue[b][i]
  BY <1>1, TailFacts DEF Taken
<1>3. PICK i \in 0..n : /\ Says(b, c, v, i)
                        /\ \A j \in (i + 1)..n : About(queue[b][j], c) => queue[b][j].list[c] = v
  BY <1>1 DEF Leads
<1>4. /\ shown'[b][c] = IF Covers(e, c) \/ (About(e, c) /\ shown[b][c] # "none")
                        THEN e.list[c] ELSE shown[b][c]
      /\ e = queue[b][1]
  BY DEF Taken
<1>5. CASE i \in {0, 1}
  <2>1. shown'[b][c] = v
    <3>1. CASE i = 0
      <4>1. shown[b][c] = v /\ (About(e, c) => e.list[c] = v) /\ (Covers(e, c) => About(e, c))
        BY <1>2, <1>3, <1>4, <3>1 DEF Says, About
      <4> QED BY <1>4, <4>1
    <3>2. CASE i = 1
      <4>1. Covers(e, c) /\ e.list[c] = v
        BY <1>3, <1>4, <3>2 DEF Says
      <4> QED BY <1>4, <4>1
    <3> QED BY <1>5, <3>1, <3>2
  <2>2. Says(b, c, v, 0)'
    BY <2>1 DEF Says
  <2>3. ASSUME NEW j \in 1..(n - 1), About(queue'[b][j], c) PROVE queue'[b][j].list[c] = v
    <3>1. j + 1 \in 1..n /\ queue'[b][j] = queue[b][j + 1]
      BY <1>2
    <3>2. j + 1 \in (i + 1)..n
      BY <1>2, <1>5
    <3> QED BY <1>3, <2>3, <3>1, <3>2
  <2>4. 0 \in 0..Len(queue'[b]) /\ (0 + 1)..Len(queue'[b]) = 1..(n - 1)
    BY <1>2
  <2> QED BY <2>2, <2>3, <2>4 DEF Leads
<1>6. CASE i \notin {0, 1}
  <2>1. i \in 1..n /\ i - 1 \in 1..(n - 1) /\ queue'[b][i - 1] = queue[b][i] /\ i - 1 # 0
    BY <1>2, <1>3, <1>6
  <2>2. Says(b, c, v, i - 1)'
    BY <1>3, <1>6, <2>1 DEF Says
  <2>3. ASSUME NEW j \in ((i - 1) + 1)..(n - 1), About(queue'[b][j], c)
        PROVE  queue'[b][j].list[c] = v
    <3>1. j \in 1..(n - 1) /\ j + 1 \in (i + 1)..n
      BY <1>2, <2>1
    <3>2. queue'[b][j] = queue[b][j + 1]
      BY <1>2, <3>1
    <3> QED BY <1>3, <2>3, <3>1, <3>2
  <2>4. i - 1 \in 0..Len(queue'[b])
    BY <1>2, <2>1
  <2> QED BY <1>2, <2>2, <2>3, <2>4 DEF Leads
<1> QED BY <1>5, <1>6

\* A ring that is still in the channel or shown: the end of the call has not been taken.
LEMMA TakenRings ==
  ASSUME NEW b \in Browsers, NEW c \in Ids, NEW e, Taken(b, e), RingSeen(b, c),
         queue'[b] = Tail(queue[b]), Rings(c)' <=> Rings(c), Known(b, c)' <=> Known(b, c)
  PROVE  RingSeen(b, c)'
<1>1. PICK n : n = Len(queue[b])
  OBVIOUS
<1>2. /\ n \in Nat \ {0} /\ Len(queue'[b]) = n - 1
      /\ \A i \in 1..(n - 1) : i + 1 \in 1..n /\ queue'[b][i] = queue[b][i + 1]
      /\ \A i \in 1..n : i # 1 => i - 1 \in 1..(n - 1) /\ queue'[b][i - 1] = queue[b][i]
  BY <1>1, TailFacts DEF Taken
<1> SUFFICES ASSUME NEW i \in 0..(n - 1), RingAt(b, c, i)', ~Rings(c), ~Known(b, c)
             PROVE  EndsAfter(b, c, i)'
  BY <1>2 DEF RingSeen
<1>3. PICK k \in 0..n : RingAt(b, c, k) /\ (k = i + 1 \/ (k = 0 /\ i = 0 /\ ~Ends(e, c)))
  <2>1. CASE i = 0
    <3>1. incoming'[b] = c
      BY <2>1 DEF RingAt
    <3>2. CASE e.kind = "incoming" /\ e.id = c
      <4>1. RingAt(b, c, 1) /\ 1 \in 0..n
        BY <1>2, <3>2 DEF RingAt, Taken
      <4> QED BY <2>1, <4>1
    <3>3. CASE incoming[b] = c /\ ~Ends(e, c)
      <4>1. RingAt(b, c, 0) /\ 0 \in 0..n
        BY <1>2, <3>3 DEF RingAt
      <4> QED BY <2>1, <3>3, <4>1
    <3> QED BY <3>1, <3>2, <3>3 DEF Taken
  <2>2. CASE i # 0
    <3>1. i \in 1..(n - 1)
      BY <1>2, <2>2
    <3>2. i + 1 \in 1..n /\ queue'[b][i] = queue[b][i + 1] /\ i + 1 # 0 /\ i + 1 \in 0..n
      BY <1>2, <3>1
    <3>3. RingAt(b, c, i + 1)
      BY <2>2, <3>2 DEF RingAt
    <3> QED BY <3>2, <3>3
  <2> QED BY <2>1, <2>2
<1>4. PICK j \in 1..n : j > k /\ Ends(queue[b][j], c)
  BY <1>1, <1>3 DEF RingSeen, EndsAfter
<1>5. j # 1 /\ j - 1 > i
  <2>1. CASE k = i + 1
    BY <1>2, <1>4, <2>1
  <2>2. CASE k = 0 /\ i = 0 /\ ~Ends(e, c)
    <3>1. j # 1
      BY <1>4, <2>2 DEF Taken
    <3> QED BY <1>2, <2>2, <3>1
  <2> QED BY <1>3, <2>1, <2>2
<1>6. j - 1 \in 1..Len(queue'[b]) /\ queue'[b][j - 1] = queue[b][j]
  BY <1>2, <1>5
<1> QED BY <1>4, <1>5, <1>6 DEF EndsAfter

\* The end of a call that is taken closes its microphone, or finds the hook before it.
LEMMA TakenMic ==
  ASSUME NEW b \in Browsers, NEW c \in Ids, NEW e, Taken(b, e), MicHeld(b, c), HookHeld(b, c),
         queue'[b] = Tail(queue[b]), There(c)' <=> There(c), unheard' = unheard, lateMic' = lateMic
  PROVE  MicHeld(b, c)' /\ HookHeld(b, c)'
<1>1. PICK n : n = Len(queue[b])
  OBVIOUS
<1>2. /\ n \in Nat \ {0} /\ Len(queue'[b]) = n - 1
      /\ \A i \in 1..n : i # 1 => i - 1 \in 1..(n - 1) /\ queue'[b][i - 1] = queue[b][i]
  BY <1>1, TailFacts DEF Taken
<1>3. Alive(b, c) => Alive(b, c)' \/ (e.kind = "ended" /\ e.id = c)
  <2> SUFFICES ASSUME NEW j \in 1..n, queue[b][j].kind = "ended", queue[b][j].id = c
               PROVE  Alive(b, c)' \/ (e.kind = "ended" /\ e.id = c)
    BY <1>1 DEF Alive
  <2>1. CASE j = 1
    BY <2>1 DEF Taken
  <2>2. CASE j # 1
    <3>1. j - 1 \in 1..Len(queue'[b]) /\ queue'[b][j - 1] = queue[b][j]
      BY <1>2, <2>2
    <3> QED BY <3>1 DEF Alive
  <2> QED BY <2>1, <2>2
<1>4. MicHeld(b, c)'
  BY <1>3 DEF MicHeld, Taken
<1>5. HookHeld(b, c)'
  BY <1>3 DEF HookHeld, Answering, Taken
<1> QED BY <1>4, <1>5

\* The store applies the first event of the channel.
LEMMA ReceiveTakes ==
  ASSUME Types, NEW b \in Browsers, Receive(b)
  PROVE  /\ StoreTypes' /\ StreamTypes'
         /\ \E e : Taken(b, e)
         /\ \A d \in Browsers \ {b} : /\ shown'[d] = shown[d] /\ incoming'[d] = incoming[d]
                                      /\ own'[d] = own[d] /\ hook'[d] = hook[d]
                                      /\ queue'[d] = queue[d]
         /\ queue'[b] = Tail(queue[b])
         /\ \A d \in Browsers : hook'[d].step = hook[d].step /\ hook'[d].id = hook[d].id
<1>1. /\ queue \in [Browsers -> Seq(Event)] /\ shown \in [Browsers -> [Ids -> Statuses]]
      /\ incoming \in [Browsers -> Ids \cup {NoId}] /\ own \in [Browsers -> SUBSET Ids]
      /\ hook \in [Browsers -> HookRec] /\ NoId \notin Ids
      /\ \A i \in 1..Len(queue[b]) : Meant(queue[b][i])
      /\ \A d \in Browsers : Asked(d)
  BY FeedAssumption DEF Types, StoreTypes, StreamTypes, HookRec
<1>2. /\ queue[b] # <<>> /\ queue' = [queue EXCEPT ![b] = Tail(@)]
      /\ UNCHANGED <<calls, owner, rev, thread, conn, lateMic>>
  BY DEF Receive, serverVars
<1>3. /\ queue' \in [Browsers -> Seq(Event)] /\ queue'[b] = Tail(queue[b])
      /\ \A d \in Browsers \ {b} : queue'[d] = queue[d]
  <2>1. queue[b] \in Seq(Event)
    BY <1>1
  <2>2. Tail(queue[b]) \in Seq(Event)
    BY <1>2, <2>1
  <2> QED BY <1>1, <1>2, <2>2
<1>4. PICK e : e = Head(queue[b])
  OBVIOUS
<1>5. e = queue[b][1] /\ e \in Event /\ Meant(e)
  <2>1. queue[b] \in Seq(Event)
    BY <1>1
  <2>2. 1 \in 1..Len(queue[b]) /\ e = queue[b][1] /\ queue[b][1] \in Event
    BY <1>2, <1>4, <2>1
  <2> QED BY <1>1, <2>2
<1>6. PICK s : s = shown[b]
  OBVIOUS
<1>7. PICK s2 : s2 = CASE e.kind = "list" -> e.list
                       [] e.kind = "status" /\ s[e.id] # "none" -> [s EXCEPT ![e.id] = e.list[e.id]]
                       [] e.kind = "ended" -> [s EXCEPT ![e.id] = "none"]
                       [] OTHER -> s
  OBVIOUS
<1>8. shown' = [shown EXCEPT ![b] = s2]
  BY <1>4, <1>6, <1>7 DEF Receive
<1>9. /\ e.list \in [Ids -> Statuses] /\ s \in [Ids -> Statuses] /\ "none" \in Statuses
      /\ e.kind # "list" => e.id \in Ids
      /\ e.kind = "ended" => e.list[e.id] = "none"
      /\ e.kind \in {"list", "status", "ended", "incoming", "claimed"}
  BY <1>1, <1>5, <1>6 DEF Event, Meant, Statuses
<1>10. /\ s2 \in [Ids -> Statuses]
       /\ \A c \in Ids : s2[c] = IF Covers(e, c) \/ (About(e, c) /\ s[c] # "none")
                                 THEN e.list[c] ELSE s[c]
  <2>1. CASE e.kind = "list"
    BY <1>7, <1>9, <2>1 DEF Covers
  <2>2. CASE e.kind = "status" /\ s[e.id] # "none"
    <3>1. s2 = [s EXCEPT ![e.id] = e.list[e.id]]
      BY <1>7, <2>2
    <3> QED BY <1>9, <2>2, <3>1 DEF Covers, About
  <2>3. CASE e.kind = "status" /\ s[e.id] = "none"
    <3>1. s2 = s
      BY <1>7, <2>3
    <3> QED BY <1>9, <2>3, <3>1 DEF Covers, About
  <2>4. CASE e.kind = "ended"
    <3>1. s2 = [s EXCEPT ![e.id] = "none"]
      BY <1>7, <2>4
    <3> QED BY <1>9, <2>4, <3>1 DEF Covers, About
  <2>5. CASE e.kind \in {"incoming", "claimed"}
    <3>1. s2 = s
      BY <1>7, <2>5
    <3> QED BY <1>9, <2>5, <3>1 DEF Covers, About
  <2> QED BY <1>9, <2>1, <2>2, <2>3, <2>4, <2>5
<1>11. /\ shown' \in [Browsers -> [Ids -> Statuses]] /\ shown'[b] = s2
       /\ \A d \in Browsers \ {b} : shown'[d] = shown[d]
  BY <1>1, <1>8, <1>10
<1>12. (CASE e.kind = "ended" -> Forgets(b, e.id)
         [] e.kind = "incoming" -> incoming' = [incoming EXCEPT ![b] = e.id] /\ UNCHANGED own
         [] e.kind = "claimed" /\ incoming[b] = e.id ->
              incoming' = [incoming EXCEPT ![b] = NoId] /\ UNCHANGED own
         [] OTHER -> UNCHANGED <<incoming, own>>)
  BY <1>4 DEF Receive
<1>13. /\ incoming' \in [Browsers -> Ids \cup {NoId}] /\ own' \in [Browsers -> SUBSET Ids]
       /\ \A d \in Browsers \ {b} : incoming'[d] = incoming[d] /\ own'[d] = own[d]
       /\ \A c \in Ids :
            /\ incoming'[b] = c => \/ e.kind = "incoming" /\ e.id = c
                                   \/ incoming[b] = c /\ ~Ends(e, c)
            /\ c \in own'[b] => c \in own[b] /\ ~(e.kind = "ended" /\ e.id = c)
  <2>1. CASE e.kind = "ended"
    <3>1. /\ own' = [own EXCEPT ![b] = @ \ {e.id}]
          /\ incoming' = [incoming EXCEPT ![b] = IF @ = e.id THEN NoId ELSE @]
      BY <1>12, <2>1 DEF Forgets
    <3> QED BY <1>1, <2>1, <3>1 DEF Ends
  <2>2. CASE e.kind = "incoming"
    <3>1. incoming' = [incoming EXCEPT ![b] = e.id] /\ own' = own
      BY <1>12, <2>2
    <3> QED BY <1>1, <1>9, <2>2, <3>1
  <2>3. CASE e.kind = "claimed" /\ incoming[b] = e.id
    <3>1. incoming' = [incoming EXCEPT ![b] = NoId] /\ own' = own
      BY <1>12, <2>3
    <3> QED BY <1>1, <2>3, <3>1
  <2>4. CASE ~(e.kind \in {"ended", "incoming"} \/ (e.kind = "claimed" /\ incoming[b] = e.id))
    <3>1. incoming' = incoming /\ own' = own
      BY <1>12, <2>4
    <3> QED BY <1>1, <2>4, <3>1 DEF Ends
  <2> QED BY <2>1, <2>2, <2>3, <2>4
<1>14. PICK over \in BOOLEAN : over <=> hook[b].over \/ (e.kind = "ended" /\ e.id = hook[b].id)
  OBVIOUS
<1>15. PICK h : h = hook[b]
  OBVIOUS
<1>16. PICK g : g = [h EXCEPT !.over = over]
  OBVIOUS
<1>17. g \in HookRec /\ g.step = h.step /\ g.id = h.id /\ g.over = over
  BY <1>1, <1>15, <1>16 DEF HookRec
<1>18. hook' = [hook EXCEPT ![b] = g]
  <2>1. hook' = [hook EXCEPT ![b].over = hook[b].over \/ (e.kind = "ended" /\ e.id = hook[b].id)]
    BY <1>4 DEF Receive
  <2>2. h.over \in BOOLEAN
    BY <1>1, <1>15 DEF HookRec
  <2>3. over = (hook[b].over \/ (e.kind = "ended" /\ e.id = hook[b].id))
    BY <1>14
  <2> QED BY <1>15, <1>16, <2>1, <2>3
<1>19. /\ hook' \in [Browsers -> HookRec] /\ hook'[b] = g
       /\ \A d \in Browsers \ {b} : hook'[d] = hook[d]
  BY <1>1, <1>17, <1>18
<1>20. \A d \in Browsers : hook'[d].step = hook[d].step /\ hook'[d].id = hook[d].id
  BY <1>15, <1>17, <1>19
<1>21. StoreTypes'
  <2>1. \A d \in Browsers : Asked(d)'
    BY <1>1, <1>20 DEF Asked
  <2> QED BY <1>2, <1>11, <1>13, <1>19, <2>1 DEF Types, StoreTypes, HookRec
<1>22. StreamTypes'
  <2>1. ASSUME NEW d \in Browsers
        PROVE  /\ Len(queue'[d]) <= Capacity /\ (conn'[d] # "open" => queue'[d] = <<>>)
               /\ \A i \in 1..Len(queue'[d]) : Meant(queue'[d][i])
    <3>1. /\ Len(queue[d]) <= Capacity /\ (conn[d] # "open" => queue[d] = <<>>)
          /\ \A i \in 1..Len(queue[d]) : Meant(queue[d][i])
      BY DEF Types, StreamTypes
    <3>2. CASE d = b
      <4>1. queue[b] \in Seq(Event)
        BY <1>1
      <4>2. /\ Len(queue[b]) \in Nat \ {0} /\ Len(queue'[b]) = Len(queue[b]) - 1
            /\ \A i \in 1..Len(queue'[b]) : i + 1 \in 1..Len(queue[b])
                                            /\ queue'[b][i] = queue[b][i + 1]
        BY <1>2, <1>3, <4>1, TailFacts
      <4>3. Len(queue'[b]) <= Capacity
        BY <3>1, <3>2, <4>2, FeedAssumption
      <4> QED BY <1>2, <3>1, <3>2, <4>2, <4>3
    <3>3. CASE d # b
      BY <1>2, <1>3, <3>1, <3>3
    <3> QED BY <3>2, <3>3
  <2>2. conn' \in [Browsers -> {"off", "ticket", "open"}]
    BY <1>2 DEF Types, StreamTypes
  <2> QED BY <1>3, <2>1, <2>2 DEF StreamTypes, Meant
<1>23. Taken(b, e)
  <2>1. queue[b] \in Seq(Event) /\ queue[b] # <<>>
    BY <1>1, <1>2
  <2>2. hook'[b].step = hook[b].step /\ hook'[b].id = hook[b].id
        /\ (hook'[b].over <=> hook[b].over \/ (e.kind = "ended" /\ e.id = hook[b].id))
    BY <1>14, <1>15, <1>17, <1>19
  <2>3. \A c \in Ids : shown'[b][c] = IF Covers(e, c) \/ (About(e, c) /\ shown[b][c] # "none")
                                      THEN e.list[c] ELSE shown[b][c]
    BY <1>6, <1>10, <1>11
  <2> QED BY <1>5, <1>13, <2>1, <2>2, <2>3 DEF Taken
<1> QED BY <1>3, <1>11, <1>13, <1>19, <1>20, <1>21, <1>22, <1>23

\* A browser that takes an event knows as much as before.
LEMMA ReceiveKeeps ==
  ASSUME FeedInv, NEW b \in Browsers, Receive(b) PROVE FeedInv'
<1>1. UNCHANGED <<calls, owner, rev, thread, conn, lateMic>>
      /\ UNCHANGED <<sent, overtaken, lateRing, missed, unheard>>
  BY DEF Receive, serverVars, toldVars
<1>2. Types
  BY DEF FeedInv
<1>3. /\ StoreTypes' /\ StreamTypes'
      /\ \A d \in Browsers \ {b} : /\ shown'[d] = shown[d] /\ incoming'[d] = incoming[d]
                                   /\ own'[d] = own[d] /\ hook'[d] = hook[d]
                                   /\ queue'[d] = queue[d]
      /\ queue'[b] = Tail(queue[b])
      /\ \A d \in Browsers : hook'[d].step = hook[d].step /\ hook'[d].id = hook[d].id
  BY <1>2, ReceiveTakes
<1>4. PICK e : Taken(b, e)
  BY <1>2, ReceiveTakes
<1>5. Types'
  BY <1>1, <1>2, <1>3, SameServer DEF Types, ToldTypes
<1>6. /\ \A u \in Threads, c \in Ids : Counted(u, c)'
      /\ \A c \in Ids : Told(c)'
      /\ \A c \in Ids : (RingDue(c)' <=> RingDue(c)) /\ (There(c)' <=> There(c))
  BY <1>1, SameThreads
<1>7. ASSUME NEW c \in Ids PROVE Rings(c)' <=> Rings(c)
  <2>1. \A u \in Threads : \A task : Due(u, task)' <=> Due(u, task)
    BY <1>1 DEF Due, Free
  <2>2. Ending(c)' <=> Ending(c)
    BY <1>1, <1>3, <2>1 DEF Ending
  <2> QED BY <1>1, <2>2 DEF Rings
<1>8. ASSUME NEW d \in Browsers, NEW c \in Ids PROVE Current(d, c)'
  <2>1. PICK v : v = calls[c]
    OBVIOUS
  <2>2. Leads(d, c, v) => Leads(d, c, v)'
    <3>1. CASE d = b
      BY <1>3, <1>4, <3>1, TakenLeads
    <3>2. CASE d # b
      BY <1>3, <3>2 DEF Leads, Says
    <3> QED BY <3>1, <3>2
  <2> QED BY <1>1, <2>1, <2>2 DEF FeedInv, Current
<1>9. ASSUME NEW c \in Ids PROVE RingTrue(c)'
  BY <1>1, <1>6, <1>7 DEF FeedInv, RingTrue
<1>10. ASSUME NEW d \in Browsers, NEW c \in Ids PROVE RingSeen(d, c)'
  <2>1. RingSeen(d, c) /\ (Known(d, c)' <=> Known(d, c))
    BY <1>1 DEF FeedInv, Known
  <2>2. CASE d = b
    BY <1>3, <1>4, <1>7, <2>1, <2>2, TakenRings
  <2>3. CASE d # b
    BY <1>3, <1>7, <2>1, <2>3 DEF RingSeen, RingAt, EndsAfter
  <2> QED BY <2>2, <2>3
<1>11. ASSUME NEW d \in Browsers, NEW c \in Ids PROVE MicHeld(d, c)' /\ HookHeld(d, c)'
  <2>1. MicHeld(d, c) /\ HookHeld(d, c)
    BY DEF FeedInv
  <2>2. CASE d = b
    BY <1>1, <1>3, <1>4, <1>6, <2>1, <2>2, TakenMic
  <2>3. CASE d # b
    <3>1. Alive(d, c) => Alive(d, c)'
      BY <1>1, <1>3, <1>6, <2>3 DEF Alive
    <3> QED BY <1>1, <1>3, <2>1, <2>3, <3>1 DEF MicHeld, HookHeld, Answering
  <2> QED BY <2>2, <2>3
<1> QED BY <1>5, <1>6, <1>8, <1>9, <1>10, <1>11 DEF FeedInv

-------------------------------------------------------------------------------
(* The theorems.                                                           *)

\* Every step of FeedNext keeps the invariant.
LEMMA FeedInvNext == FeedInv /\ [FeedNext]_feedVars => FeedInv'
<1> SUFFICES ASSUME FeedInv, [FeedNext]_feedVars PROVE FeedInv'
  OBVIOUS
<1>1. ASSUME NEW t \in Writers, NEW c \in Ids,
             \/ \E s \in {"ringing", "connected"}, rings \in BOOLEAN : Upsert(t, c, s, rings)
             \/ EndCall(t, c) \/ OtherClaims(t, c)
      PROVE  FeedInv'
  BY <1>1, UpsertKeeps, EndCallKeeps, OtherClaimsKeeps
<1>2. ASSUME NEW t \in Threads, TakeList(t) \/ Tells(t) PROVE FeedInv'
  BY <1>2, TakeListKeeps, TellsKeep
<1>3. ASSUME NEW b \in Browsers,
             FetchTicket(b) \/ TicketExpires(b) \/ Subscribe(b) \/ Disconnect(b) \/ Receive(b)
      PROVE  FeedInv'
  BY <1>3, TicketKeeps, SubscribeKeeps, DisconnectKeeps, ReceiveKeeps
<1>4. ASSUME NEW b \in Browsers,
             (\E c \in Ids : Answer(b, c)) \/ Claim(b) \/ AcceptCall(b) \/ OpenMedia(b) \/ Register(b)
      PROVE  FeedInv'
  BY <1>4, AnswerKeeps, ClaimKeeps, AcceptCallKeeps, OpenMediaKeeps, RegisterKeeps
<1>5. CASE UNCHANGED feedVars
  <2>1. /\ UNCHANGED <<calls, owner, rev, thread, conn, queue, shown, incoming, own, hook, lateMic>>
        /\ UNCHANGED <<sent, overtaken, lateRing, missed, unheard>>
    BY <1>5 DEF feedVars, serverVars, storeVars, toldVars
  <2>2. HookStep /\ ServerTypes' /\ StoreTypes'
    BY <2>1, SameServer DEF FeedInv, Types, StoreTypes, Asked, HookStep
  <2>3. \A c \in Ids : Rings(c) => Rings(c)'
    BY <2>1 DEF Rings, Ending, Due, Free
  <2> QED BY <2>1, <2>2, <2>3, HookStepKeeps DEF Answering
<1> QED BY <1>1, <1>2, <1>3, <1>4, <1>5 DEF FeedNext

\* The goroutines' plans, the events on their way and what the browsers hold
\* always fit together (broker.go, serveSSE, stores/calls.ts, useAcceptCall.ts).
THEOREM FeedInvariant == FeedSpec => []FeedInv
<1>1. FeedInit => FeedInv
  BY FeedInvInit
<1>2. FeedInv /\ [FeedNext]_feedVars => FeedInv'
  BY FeedInvNext
<1> QED BY <1>1, <1>2, PTL DEF FeedSpec

\* Every variable keeps its type; no channel holds more than its capacity, and
\* none that is not subscribed holds anything (subscriberBuffer, broker.go).
THEOREM FeedTypeCorrect == FeedSpec => []FeedTypeOK
<1>1. FeedInv => FeedTypeOK
  BY TypesOfFeed DEF FeedInv
<1> QED BY <1>1, FeedInvariant, PTL

\* A browser that has caught up shows the broker's calls as they are, but for
\* the records it has missed or that were told in the wrong order.
THEOREM BrowsersShowLive == FeedSpec => []ShownIsLive
<1>1. FeedInv => ShownIsLive
  <2> SUFFICES ASSUME FeedInv, NEW b \in Browsers, CaughtUp(b), NEW c \in Ids,
                      c \notin missed[b] \cup overtaken
               PROVE  shown[b][c] = calls[c]
    BY DEF ShownIsLive
  <2>1. /\ conn[b] = "open" /\ queue[b] = <<>> /\ \A t \in Threads : Free(t)
        /\ Current(b, c) /\ Told(c)
    BY DEF CaughtUp, FeedInv
  <2>2. sent[c] = rev[c]
    BY <2>1 DEF Told, Tellers, Due
  <2>3. PICK v : v = calls[c]
    OBVIOUS
  <2>4. Leads(b, c, v)
    BY <2>1, <2>2, <2>3 DEF Current
  <2>5. 0..Len(queue[b]) = {0}
    BY <2>1
  <2> QED BY <2>3, <2>4, <2>5 DEF Leads, Says
<1> QED BY <1>1, FeedInvariant, PTL

\* A browser that has caught up rings for a call that waits for an answer and
\* keeps a microphone open for one that is there, but for those whose end did
\* not reach it or came too early.
THEOREM BrowsersLetGo == FeedSpec => []BrowserLetsGo
<1>1. FeedInv => BrowserLetsGo
  <2> SUFFICES ASSUME FeedInv, NEW b \in Browsers, CaughtUp(b), NEW c \in Ids
               PROVE  /\ incoming[b] = c => (calls[c] # "none" /\ owner[c] = NoOwner)
                                            \/ c \in unheard[b] \cup lateRing
                      /\ c \in own[b] => calls[c] # "none" \/ c \in unheard[b] \cup lateMic[b]
    <3>1. FeedInv => \A d \in Browsers : own[d] \subseteq Ids
      BY DEF FeedInv, Types, StoreTypes
    <3> QED BY <3>1 DEF BrowserLetsGo
  <2>1. /\ queue[b] = <<>> /\ \A t \in Threads : Free(t)
        /\ \A d \in Browsers : hook[d].step # "claimed"
        /\ RingSeen(b, c) /\ MicHeld(b, c)
    BY DEF CaughtUp, FeedInv
  <2>2. ~Ending(c) /\ ~EndDue(c)
    BY <2>1 DEF Ending, EndDue, Due
  <2>3. Len(queue[b]) = 0 /\ 0 \in 0..Len(queue[b]) /\ 1..Len(queue[b]) = {}
    BY <2>1
  <2>4. ASSUME incoming[b] = c
        PROVE  (calls[c] # "none" /\ owner[c] = NoOwner) \/ c \in unheard[b] \cup lateRing
    <3>1. RingAt(b, c, 0) /\ ~EndsAfter(b, c, 0)
      BY <2>3, <2>4 DEF RingAt, EndsAfter
    <3>2. Rings(c) \/ Known(b, c)
      BY <2>1, <2>3, <3>1 DEF RingSeen
    <3> QED BY <2>2, <3>2 DEF Rings, Known
  <2>5. ASSUME c \in own[b] PROVE calls[c] # "none" \/ c \in unheard[b] \cup lateMic[b]
    BY <2>1, <2>2, <2>3, <2>5 DEF MicHeld, Alive, There
  <2> QED BY <2>4, <2>5
<1> QED BY <1>1, FeedInvariant, PTL

-------------------------------------------------------------------------------
(* CallViews.                                                              *)

\* A behaviour of the composition is one of either account, the other standing still.
THEOREM HalvesOfViews == ViewSpec => Spec /\ FeedSpec
<1>1. ViewInit => Init /\ FeedInit
  BY DEF ViewInit
<1>2. [ViewNext]_<<vars, feedVars, view>> => [Next]_vars /\ [FeedNext]_feedVars
  BY DEF ViewNext
<1> QED BY <1>1, <1>2, PTL DEF ViewSpec, Spec, FeedSpec

\* What the run checks of the two accounts holds of every instance of them.
THEOREM ViewsAreTrue == ViewSpec => [](DurationIsTalkTime /\ ShownIsLive /\ BrowserLetsGo)
BY HalvesOfViews, DurationCorrect, BrowsersShowLive, BrowsersLetGo, PTL
===============================================================================

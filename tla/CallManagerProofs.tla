-------------------------- MODULE CallManagerProofs --------------------------
(***************************************************************************)
(* CallManager's safety for every set of relays and actors and any number  *)
(* of messages of the peer.  IInv is inductive: one lemma per action, then *)
(* the theorems; the last part shows that every step of the threads is a   *)
(* step of CallLifecycle, or none.                                         *)
(***************************************************************************)
EXTENDS CallManager, TLAPS

\* Only the outgoing side creates a call, before its CallInfo exists.
LEMMA CreateCallInv == ASSUME IInv, CreateCall PROVE IInv'
<1> USE DEF IInv, CreateCall, mediaVars, relayVars, history, Goto, At
<1>1. TypeOK'
  BY DEF TypeOK, Threads, EndActors, Steps, CallStates, Pool!ConnStates
<1>2. Fresh' /\ Creation' /\ Supervision' /\ Holding' /\ Keyed' /\ Ending' /\
      CodecClosedOnce' /\ NoMediaAfterCleanup' /\ EndedNotifiedOnce' /\
      OrphanedOnlyBy'
  BY DEF TypeOK, Fresh, Creation, Supervision, Holding, Keyed, Ending,
         CodecClosedOnce, NoMediaAfterCleanup, EndedNotifiedOnce,
         OrphanedOnlyBy, Threads, EndActors, CallStates, LiveStates
<1>3. Dropping'
  BY DEF TypeOK, Creation, Dropping, Threads, EndActors, CallStates,
         LiveStates
<1> QED
  BY <1>1, <1>2, <1>3

\* The first media of the call: Fresh says nothing was released before.
LEMMA StartCallInv == ASSUME IInv, StartCall PROVE IInv'
<1> USE DEF IInv, StartCall, relayVars, history, Goto, At
<1>1. TypeOK'
  BY ManagerAssumption DEF TypeOK, Threads, EndActors, Steps, CallStates,
         Pool!ConnStates
<1>2. Fresh' /\ Creation' /\ Holding' /\ Keyed'
  BY DEF TypeOK, Fresh, Creation, Holding, Keyed, Threads, EndActors
<1>3. Supervision'
  BY DEF TypeOK, Creation, Supervision, Threads, EndActors, CallStates,
         LiveStates
<1>4. Ending'
  BY DEF TypeOK, Creation, Ending, Threads, EndActors, CallStates, LiveStates
<1>5. Dropping'
  BY DEF TypeOK, Fresh, Creation, Dropping, Threads, EndActors, CallStates,
         LiveStates
<1>6. CodecClosedOnce'
  BY DEF TypeOK, Fresh, Creation, CodecClosedOnce, Threads, EndActors,
         CallStates, LiveStates
<1>7. NoMediaAfterCleanup'
  BY DEF TypeOK, Fresh, Creation, NoMediaAfterCleanup, Threads, EndActors,
         CallStates, LiveStates
<1>8. EndedNotifiedOnce'
  BY DEF TypeOK, Creation, EndedNotifiedOnce, Threads, EndActors, CallStates,
         LiveStates
<1>9. OrphanedOnlyBy'
  BY DEF TypeOK, Creation, OrphanedOnlyBy, Threads, EndActors, CallStates,
         LiveStates
<1> QED
  BY <1>1, <1>2, <1>3, <1>4, <1>5, <1>6, <1>7, <1>8, <1>9

\* The failed offer orphans a call that stays initiating for good.
LEMMA OfferFailsInv == ASSUME IInv, OfferFails PROVE IInv'
<1> USE DEF IInv, OfferFails, mediaVars, relayVars, history, Goto, At
<1>1. TypeOK'
  BY DEF TypeOK, Threads, EndActors, Steps, CallStates, Pool!ConnStates
<1>2. Fresh' /\ Creation' /\ Supervision' /\ Holding' /\ Keyed' /\ Ending' /\
      Dropping' /\ CodecClosedOnce' /\ NoMediaAfterCleanup' /\
      EndedNotifiedOnce'
  BY DEF TypeOK, Fresh, Creation, Supervision, Holding, Keyed, Ending,
         Dropping, CodecClosedOnce, NoMediaAfterCleanup, EndedNotifiedOnce,
         Threads, EndActors, CallStates, LiveStates
<1>3. OrphanedOnlyBy'
  BY DEF TypeOK, Creation, OrphanedOnlyBy, Threads, EndActors, CallStates,
         LiveStates
<1> QED
  BY <1>1, <1>2, <1>3

\* A call that a drain has ended meanwhile stays ended.
LEMMA OfferSentInv == ASSUME IInv, OfferSent PROVE IInv'
<1> USE DEF IInv, OfferSent, mediaVars, relayVars, history, Transitions,
          LegalFrom, Target, CanApply, After, Goto, At
<1>1. TypeOK'
  BY DEF TypeOK, Threads, EndActors, Steps, CallStates, LiveStates,
         Pool!ConnStates
<1>2. Fresh' /\ Creation' /\ Supervision' /\ Holding' /\ Ending' /\ Dropping'
      /\ CodecClosedOnce' /\ NoMediaAfterCleanup' /\ EndedNotifiedOnce' /\
      OrphanedOnlyBy'
  BY DEF TypeOK, Fresh, Creation, Supervision, Holding, Ending, Dropping,
         CodecClosedOnce, NoMediaAfterCleanup, EndedNotifiedOnce,
         OrphanedOnlyBy, Threads, EndActors, CallStates, LiveStates
<1>3. Keyed'
  BY DEF TypeOK, Creation, Keyed, Threads, EndActors, CallStates, LiveStates
<1> QED
  BY <1>1, <1>2, <1>3

\* The listener removes the call only if it has ended.
LEMMA StartEmitInv == ASSUME IInv, StartEmit PROVE IInv'
<1> USE DEF IInv, StartEmit, mediaVars, relayVars, history, At, Listener
<1>1. TypeOK'
  BY DEF TypeOK, Threads, EndActors, Steps, CallStates, Pool!ConnStates
<1>2. Fresh' /\ Creation' /\ Supervision' /\ Holding' /\ Keyed' /\ Ending' /\
      Dropping' /\ CodecClosedOnce' /\ NoMediaAfterCleanup' /\
      EndedNotifiedOnce'
  BY DEF TypeOK, Fresh, Creation, Supervision, Holding, Keyed, Ending,
         Dropping, CodecClosedOnce, NoMediaAfterCleanup, EndedNotifiedOnce,
         Threads, EndActors, CallStates, LiveStates
<1>3. OrphanedOnlyBy'
  BY DEF TypeOK, OrphanedOnlyBy, Threads, EndActors, CallStates, LiveStates
<1> QED
  BY <1>1, <1>2, <1>3

\* Only the ack goroutine moves.
LEMMA AckUselessInv == ASSUME IInv, AckUseless PROVE IInv'
<1> USE DEF IInv, AckUseless, callVars, mediaVars, relayVars, history, Goto, At
<1>1. TypeOK'
  BY DEF TypeOK, Threads, EndActors, Steps, CallStates, Pool!ConnStates
<1>2. Fresh' /\ Creation' /\ Supervision' /\ Holding' /\ Keyed' /\ Ending' /\
      Dropping' /\ CodecClosedOnce' /\ NoMediaAfterCleanup' /\
      EndedNotifiedOnce' /\ OrphanedOnlyBy'
  BY DEF TypeOK, Fresh, Creation, Supervision, Holding, Keyed, Ending,
         Dropping, CodecClosedOnce, NoMediaAfterCleanup, EndedNotifiedOnce,
         OrphanedOnlyBy, Threads, EndActors, CallStates, LiveStates
<1> QED
  BY <1>1, <1>2

\* The ack may key the call; it never looks at the state.
LEMMA HandleCallAckInv == ASSUME IInv, HandleCallAck PROVE IInv'
<1> USE DEF IInv, HandleCallAck, relayVars, history, Goto, At
<1>1. TypeOK'
  BY DEF TypeOK, Threads, EndActors, Steps, CallStates, Pool!ConnStates
<1>2. Fresh' /\ Creation' /\ Supervision' /\ Holding' /\ Keyed' /\ Ending' /\
      Dropping' /\ CodecClosedOnce' /\ NoMediaAfterCleanup' /\
      EndedNotifiedOnce' /\ OrphanedOnlyBy'
  BY DEF TypeOK, Fresh, Creation, Supervision, Holding, Keyed, Ending,
         Dropping, CodecClosedOnce, NoMediaAfterCleanup, EndedNotifiedOnce,
         OrphanedOnlyBy, Threads, EndActors, CallStates, LiveStates
<1> QED
  BY <1>1, <1>2

\* Looking a relay up and dialling it touch the relays only.
LEMMA LookUpInv == ASSUME IInv, NEW t \in Threads, LookUp(t) PROVE IInv'
<1> USE DEF IInv, LookUp, callVars, mediaVars, history, At
<1>1. TypeOK'
  BY DEF TypeOK, Threads, EndActors, Steps, CallStates, Pool!ConnStates
<1>2. Fresh' /\ Creation' /\ Supervision' /\ Holding' /\ Keyed' /\ Ending' /\
      Dropping' /\ CodecClosedOnce' /\ NoMediaAfterCleanup' /\
      EndedNotifiedOnce' /\ OrphanedOnlyBy'
  BY DEF Fresh, Creation, Supervision, Holding, Keyed, Ending, Dropping,
         CodecClosedOnce, NoMediaAfterCleanup, EndedNotifiedOnce,
         OrphanedOnlyBy
<1> QED
  BY <1>1, <1>2

\* The dialling goroutine inserts its connection.
LEMMA DialInv == ASSUME IInv, NEW t \in Threads, Dial(t) PROVE IInv'
<1> USE DEF IInv, Dial, Pool!Inserts, callVars, mediaVars, local, history, At
<1>1. TypeOK'
  BY DEF TypeOK, Threads, EndActors, Steps, CallStates, Pool!ConnStates
<1>2. Fresh' /\ Creation' /\ Supervision' /\ Holding' /\ Keyed' /\ Ending' /\
      Dropping' /\ CodecClosedOnce' /\ NoMediaAfterCleanup' /\
      EndedNotifiedOnce' /\ OrphanedOnlyBy'
  BY DEF Fresh, Creation, Supervision, Holding, Keyed, Ending, Dropping,
         CodecClosedOnce, NoMediaAfterCleanup, EndedNotifiedOnce,
         OrphanedOnlyBy
<1> QED
  BY <1>1, <1>2

\* The dialling thread moves on.
LEMMA DialledInv == ASSUME IInv, NEW t \in Threads, Dialled(t) PROVE IInv'
<1> USE DEF IInv, Dialled, callVars, mediaVars, relayVars, history, Goto, At
<1>1. TypeOK'
  BY DEF TypeOK, Threads, EndActors, Steps, CallStates, Pool!ConnStates
<1>2. Fresh' /\ Creation' /\ Supervision' /\ Holding' /\ Keyed' /\ Ending' /\
      Dropping' /\ CodecClosedOnce' /\ NoMediaAfterCleanup' /\
      EndedNotifiedOnce' /\ OrphanedOnlyBy'
  BY DEF TypeOK, Fresh, Creation, Supervision, Holding, Keyed, Ending,
         Dropping, CodecClosedOnce, NoMediaAfterCleanup, EndedNotifiedOnce,
         OrphanedOnlyBy, Threads, EndActors, CallStates, LiveStates
<1> QED
  BY <1>1, <1>2

\* The relay opens; its callback is pending.
LEMMA RelayOpensInv == ASSUME IInv, NEW r \in Relays, RelayOpens(r) PROVE IInv'
<1> USE DEF IInv, RelayOpens, Pool!Opens, Pool!OpensAside, callVars, mediaVars, local, history, At
<1>1. TypeOK'
  BY DEF TypeOK, Threads, EndActors, Steps, CallStates, Pool!ConnStates
<1>2. Fresh' /\ Creation' /\ Supervision' /\ Holding' /\ Keyed' /\ Ending' /\
      Dropping' /\ CodecClosedOnce' /\ NoMediaAfterCleanup' /\
      EndedNotifiedOnce' /\ OrphanedOnlyBy'
  BY DEF Fresh, Creation, Supervision, Holding, Keyed, Ending, Dropping,
         CodecClosedOnce, NoMediaAfterCleanup, EndedNotifiedOnce,
         OrphanedOnlyBy
<1> QED
  BY <1>1, <1>2

\* The relay goes.
LEMMA RelayDropsInv == ASSUME IInv, NEW r \in Relays, RelayDrops(r) PROVE IInv'
<1> USE DEF IInv, RelayDrops, Pool!Drops, callVars, mediaVars, local, history, At
<1>1. TypeOK'
  BY DEF TypeOK, Threads, EndActors, Steps, CallStates, Pool!ConnStates
<1>2. Fresh' /\ Creation' /\ Supervision' /\ Holding' /\ Keyed' /\ Ending' /\
      Dropping' /\ CodecClosedOnce' /\ NoMediaAfterCleanup' /\
      EndedNotifiedOnce' /\ OrphanedOnlyBy'
  BY DEF Fresh, Creation, Supervision, Holding, Keyed, Ending, Dropping,
         CodecClosedOnce, NoMediaAfterCleanup, EndedNotifiedOnce,
         OrphanedOnlyBy
<1> QED
  BY <1>1, <1>2

\* The callback activates a connecting call and arms the keepalive at once.
LEMMA OnRelayConnectedInv ==
  ASSUME IInv, NEW r \in Relays,
         OnRelayConnected(r)
  PROVE  IInv'
<1> USE DEF IInv, OnRelayConnected, Pool!Upcall, history, Transitions, Target,
          MediaConnected, WithKeepalive, At
<1>1. TypeOK'
  BY DEF TypeOK, Threads, EndActors, Steps, CallStates, Pool!ConnStates
<1>2. Fresh' /\ Creation' /\ Supervision' /\ Holding' /\ Keyed' /\ Ending' /\
      Dropping' /\ CodecClosedOnce' /\ NoMediaAfterCleanup' /\
      EndedNotifiedOnce'
  BY DEF TypeOK, Fresh, Creation, Supervision, Holding, Keyed, Ending,
         Dropping, CodecClosedOnce, NoMediaAfterCleanup, EndedNotifiedOnce,
         Threads, EndActors, CallStates, LiveStates
<1>3. OrphanedOnlyBy'
  BY DEF TypeOK, OrphanedOnlyBy, Threads, EndActors, CallStates, LiveStates
<1> QED
  BY <1>1, <1>2, <1>3

\* An incoming call enters the registry before it is parsed.
LEMMA OfferArrivesInv == ASSUME IInv, OfferArrives PROVE IInv'
<1> USE DEF IInv, OfferArrives, mediaVars, relayVars, history, Goto, At
<1>1. TypeOK'
  BY DEF TypeOK, Threads, EndActors, Steps, CallStates, Pool!ConnStates
<1>2. Fresh' /\ Creation' /\ Supervision' /\ Holding' /\ Keyed' /\ Ending' /\
      Dropping' /\ CodecClosedOnce' /\ NoMediaAfterCleanup' /\
      EndedNotifiedOnce' /\ OrphanedOnlyBy'
  BY DEF TypeOK, Fresh, Creation, Supervision, Holding, Keyed, Ending,
         Dropping, CodecClosedOnce, NoMediaAfterCleanup, EndedNotifiedOnce,
         OrphanedOnlyBy, Threads, EndActors, CallStates, LiveStates
<1> QED
  BY <1>1, <1>2

\* The first media of the call: Fresh says nothing was released before.
LEMMA HandleCallOfferInv == ASSUME IInv, HandleCallOffer PROVE IInv'
<1> USE DEF IInv, HandleCallOffer, relayVars, history, Goto, At
<1>1. TypeOK'
  BY ManagerAssumption DEF TypeOK, Threads, EndActors, Steps, CallStates,
         Pool!ConnStates
<1>2. Fresh' /\ Creation' /\ Holding' /\ Keyed'
  BY DEF TypeOK, Fresh, Creation, Holding, Keyed, Threads, EndActors
<1>3. Supervision'
  BY DEF TypeOK, Creation, Supervision, Threads, EndActors, CallStates,
         LiveStates
<1>4. Ending'
  BY DEF TypeOK, Creation, Ending, Threads, EndActors, CallStates, LiveStates
<1>5. Dropping'
  BY DEF TypeOK, Fresh, Creation, Dropping, Threads, EndActors, CallStates,
         LiveStates
<1>6. CodecClosedOnce'
  BY DEF TypeOK, Fresh, Creation, CodecClosedOnce, Threads, EndActors,
         CallStates, LiveStates
<1>7. NoMediaAfterCleanup'
  BY DEF TypeOK, Fresh, Creation, NoMediaAfterCleanup, Threads, EndActors,
         CallStates, LiveStates
<1>8. EndedNotifiedOnce'
  BY DEF TypeOK, Creation, EndedNotifiedOnce, Threads, EndActors, CallStates,
         LiveStates
<1>9. OrphanedOnlyBy'
  BY DEF TypeOK, Creation, OrphanedOnlyBy, Threads, EndActors, CallStates,
         LiveStates
<1> QED
  BY <1>1, <1>2, <1>3, <1>4, <1>5, <1>6, <1>7, <1>8, <1>9

\* Outgoing calls hear of the peer only once the offer is out.
LEMMA PeerSendsInv ==
  ASSUME IInv, NEW step \in {"accepted", "transport", "terminate"},
         PeerSends(step)
  PROVE  IInv'
<1> USE DEF IInv, PeerSends, callVars, mediaVars, relayVars, history, Goto, At,
          Public
<1>1. TypeOK'
  BY ManagerAssumption DEF TypeOK, Threads, EndActors, Steps, CallStates,
         Pool!ConnStates
<1>2. Fresh' /\ Creation' /\ Supervision' /\ Holding' /\ Keyed' /\ Ending' /\
      Dropping' /\ CodecClosedOnce' /\ NoMediaAfterCleanup' /\
      EndedNotifiedOnce' /\ OrphanedOnlyBy'
  BY DEF TypeOK, Fresh, Creation, Supervision, Holding, Keyed, Ending,
         Dropping, CodecClosedOnce, NoMediaAfterCleanup, EndedNotifiedOnce,
         OrphanedOnlyBy, Threads, EndActors, CallStates, LiveStates
<1> QED
  BY <1>1, <1>2

\* The accept keys the call as it leaves ringing.
LEMMA HandleCallAcceptInv == ASSUME IInv, HandleCallAccept PROVE IInv'
<1> USE DEF IInv, HandleCallAccept, relayVars, history, Transitions, LegalFrom,
          Target, CanApply, After, Goto, At, HasConnection
<1>1. TypeOK'
  BY DEF TypeOK, Threads, EndActors, Steps, CallStates, LiveStates,
         Pool!ConnStates
<1>2. Fresh' /\ Creation' /\ Supervision' /\ Holding' /\ Keyed' /\ Ending' /\
      Dropping' /\ CodecClosedOnce' /\ NoMediaAfterCleanup' /\
      EndedNotifiedOnce' /\ OrphanedOnlyBy'
  BY DEF TypeOK, Fresh, Creation, Supervision, Holding, Keyed, Ending,
         Dropping, CodecClosedOnce, NoMediaAfterCleanup, EndedNotifiedOnce,
         OrphanedOnlyBy, Threads, EndActors, CallStates, LiveStates
<1> QED
  BY <1>1, <1>2

\* Activation under a relay that was open at the accept.
LEMMA AcceptWithRelayInv == ASSUME IInv, AcceptWithRelay PROVE IInv'
<1> USE DEF IInv, AcceptWithRelay, relayVars, history, Transitions, LegalFrom,
          Target, CanApply, Goto, At, Listener, MediaConnected, WithKeepalive
<1>1. TypeOK'
  BY DEF TypeOK, Threads, EndActors, Steps, CallStates, LiveStates,
         Pool!ConnStates
<1>2. Fresh' /\ Creation' /\ Supervision' /\ Holding' /\ Keyed' /\ Ending' /\
      Dropping' /\ CodecClosedOnce' /\ NoMediaAfterCleanup' /\
      EndedNotifiedOnce'
  BY DEF TypeOK, Fresh, Creation, Supervision, Holding, Keyed, Ending,
         Dropping, CodecClosedOnce, NoMediaAfterCleanup, EndedNotifiedOnce,
         Threads, EndActors, CallStates, LiveStates
<1>3. OrphanedOnlyBy'
  BY DEF TypeOK, OrphanedOnlyBy, Threads, EndActors, CallStates, LiveStates
<1> QED
  BY <1>1, <1>2, <1>3

\* The repeated RemoteAccepted finds no ringing call.
LEMMA AcceptWithoutRelayInv == ASSUME IInv, AcceptWithoutRelay PROVE IInv'
<1> USE DEF IInv, AcceptWithoutRelay, mediaVars, relayVars, history,
          Transitions, LegalFrom, Target, CanApply, After, Goto, At, Listener
<1>1. TypeOK'
  BY DEF TypeOK, Threads, EndActors, Steps, CallStates, LiveStates,
         Pool!ConnStates
<1>2. Fresh' /\ Creation' /\ Supervision' /\ Holding' /\ Keyed' /\ Ending' /\
      Dropping' /\ CodecClosedOnce' /\ NoMediaAfterCleanup' /\
      EndedNotifiedOnce' /\ OrphanedOnlyBy'
  BY DEF TypeOK, Fresh, Creation, Supervision, Holding, Keyed, Ending,
         Dropping, CodecClosedOnce, NoMediaAfterCleanup, EndedNotifiedOnce,
         OrphanedOnlyBy, Threads, EndActors, CallStates, LiveStates
<1> QED
  BY <1>1, <1>2

\* The listener removes the call only if it has ended.
LEMMA SigEmitInv == ASSUME IInv, SigEmit PROVE IInv'
<1> USE DEF IInv, SigEmit, mediaVars, relayVars, history, Goto, At, Listener
<1>1. TypeOK'
  BY DEF TypeOK, Threads, EndActors, Steps, CallStates, Pool!ConnStates
<1>2. Fresh' /\ Creation' /\ Supervision' /\ Holding' /\ Keyed' /\ Ending' /\
      Dropping' /\ CodecClosedOnce' /\ NoMediaAfterCleanup' /\
      EndedNotifiedOnce' /\ OrphanedOnlyBy'
  BY DEF TypeOK, Fresh, Creation, Supervision, Holding, Keyed, Ending,
         Dropping, CodecClosedOnce, NoMediaAfterCleanup, EndedNotifiedOnce,
         OrphanedOnlyBy, Threads, EndActors, CallStates, LiveStates
<1> QED
  BY <1>1, <1>2

\* Only the signalling thread moves.
LEMMA TransportLookInv == ASSUME IInv, TransportLook PROVE IInv'
<1> USE DEF IInv, TransportLook, callVars, mediaVars, relayVars, history, Goto,
          At, HasConnection
<1>1. TypeOK'
  BY DEF TypeOK, Threads, EndActors, Steps, CallStates, Pool!ConnStates
<1>2. Fresh' /\ Creation' /\ Supervision' /\ Holding' /\ Keyed' /\ Ending' /\
      Dropping' /\ CodecClosedOnce' /\ NoMediaAfterCleanup' /\
      EndedNotifiedOnce' /\ OrphanedOnlyBy'
  BY DEF TypeOK, Fresh, Creation, Supervision, Holding, Keyed, Ending,
         Dropping, CodecClosedOnce, NoMediaAfterCleanup, EndedNotifiedOnce,
         OrphanedOnlyBy, Threads, EndActors, CallStates, LiveStates
<1> QED
  BY <1>1, <1>2

\* The endpoints of the call are replaced.
LEMMA TransportOverwriteInv == ASSUME IInv, TransportOverwrite PROVE IInv'
<1> USE DEF IInv, TransportOverwrite, mediaVars, relayVars, history, Goto, At
<1>1. TypeOK'
  BY DEF TypeOK, Threads, EndActors, Steps, CallStates, Pool!ConnStates
<1>2. Fresh' /\ Creation' /\ Supervision' /\ Holding' /\ Keyed' /\ Ending' /\
      Dropping' /\ CodecClosedOnce' /\ NoMediaAfterCleanup' /\
      EndedNotifiedOnce' /\ OrphanedOnlyBy'
  BY DEF TypeOK, Fresh, Creation, Supervision, Holding, Keyed, Ending,
         Dropping, CodecClosedOnce, NoMediaAfterCleanup, EndedNotifiedOnce,
         OrphanedOnlyBy, Threads, EndActors, CallStates, LiveStates
<1> QED
  BY <1>1, <1>2

\* The peer ends the call, or finds it ended.
LEMMA HandleCallTerminateInv == ASSUME IInv, HandleCallTerminate PROVE IInv'
<1> USE DEF IInv, HandleCallTerminate, mediaVars, relayVars, history,
          Transitions, LegalFrom, Target, CanApply, After, Goto, At
<1>1. TypeOK'
  BY DEF TypeOK, Threads, EndActors, Steps, CallStates, LiveStates,
         Pool!ConnStates
<1>2. Fresh' /\ Creation' /\ Supervision' /\ Holding' /\ Keyed' /\ Dropping' /\
      CodecClosedOnce' /\ NoMediaAfterCleanup' /\ EndedNotifiedOnce' /\
      OrphanedOnlyBy'
  BY DEF TypeOK, Fresh, Creation, Supervision, Holding, Keyed, Dropping,
         CodecClosedOnce, NoMediaAfterCleanup, EndedNotifiedOnce,
         OrphanedOnlyBy, Threads, EndActors, CallStates, LiveStates
<1>3. Ending'
  BY DEF TypeOK, Fresh, Ending, Threads, EndActors, CallStates, LiveStates
<1> QED
  BY <1>1, <1>2, <1>3

\* The operator has seen the call, so it exists.
LEMMA AcceptRequestInv == ASSUME IInv, AcceptRequest PROVE IInv'
<1> USE DEF IInv, AcceptRequest, callVars, mediaVars, relayVars, history, Goto,
          At, Public
<1>1. TypeOK'
  BY DEF TypeOK, Threads, EndActors, Steps, CallStates, Pool!ConnStates
<1>2. Fresh' /\ Creation' /\ Supervision' /\ Holding' /\ Keyed' /\ Ending' /\
      Dropping' /\ CodecClosedOnce' /\ NoMediaAfterCleanup' /\
      EndedNotifiedOnce' /\ OrphanedOnlyBy'
  BY DEF TypeOK, Fresh, Creation, Supervision, Holding, Keyed, Ending,
         Dropping, CodecClosedOnce, NoMediaAfterCleanup, EndedNotifiedOnce,
         OrphanedOnlyBy, Threads, EndActors, CallStates, LiveStates
<1> QED
  BY <1>1, <1>2

\* Only an incoming ringing call is accepted.
LEMMA AcceptCallInv == ASSUME IInv, AcceptCall PROVE IInv'
<1> USE DEF IInv, AcceptCall, mediaVars, relayVars, history, Transitions,
          LegalFrom, Target, CanApply, After, CanAccept, Goto, At
<1>1. TypeOK'
  BY DEF TypeOK, Threads, EndActors, Steps, CallStates, LiveStates,
         Pool!ConnStates
<1>2. Fresh' /\ Creation' /\ Supervision' /\ Holding' /\ Ending' /\ Dropping'
      /\ CodecClosedOnce' /\ NoMediaAfterCleanup' /\ EndedNotifiedOnce' /\
      OrphanedOnlyBy'
  BY DEF TypeOK, Fresh, Creation, Supervision, Holding, Ending, Dropping,
         CodecClosedOnce, NoMediaAfterCleanup, EndedNotifiedOnce,
         OrphanedOnlyBy, Threads, EndActors, CallStates, LiveStates
<1>3. Keyed'
  BY DEF TypeOK, Creation, Keyed, Threads, EndActors, CallStates, LiveStates
<1> QED
  BY <1>1, <1>2, <1>3

\* The listener removes the call only if it has ended.
LEMMA AcceptDialsInv == ASSUME IInv, AcceptDials PROVE IInv'
<1> USE DEF IInv, AcceptDials, mediaVars, relayVars, history, Goto, At,
          Listener
<1>1. TypeOK'
  BY DEF TypeOK, Threads, EndActors, Steps, CallStates, Pool!ConnStates
<1>2. Fresh' /\ Creation' /\ Supervision' /\ Holding' /\ Keyed' /\ Ending' /\
      Dropping' /\ CodecClosedOnce' /\ NoMediaAfterCleanup' /\
      EndedNotifiedOnce' /\ OrphanedOnlyBy'
  BY DEF TypeOK, Fresh, Creation, Supervision, Holding, Keyed, Ending,
         Dropping, CodecClosedOnce, NoMediaAfterCleanup, EndedNotifiedOnce,
         OrphanedOnlyBy, Threads, EndActors, CallStates, LiveStates
<1> QED
  BY <1>1, <1>2

\* The operator has seen the call, so it exists.
LEMMA RejectRequestInv == ASSUME IInv, RejectRequest PROVE IInv'
<1> USE DEF IInv, RejectRequest, callVars, mediaVars, relayVars, history, Goto,
          At, Public
<1>1. TypeOK'
  BY DEF TypeOK, Threads, EndActors, Steps, CallStates, Pool!ConnStates
<1>2. Fresh' /\ Creation' /\ Supervision' /\ Holding' /\ Keyed' /\ Ending' /\
      Dropping' /\ CodecClosedOnce' /\ NoMediaAfterCleanup' /\
      EndedNotifiedOnce' /\ OrphanedOnlyBy'
  BY DEF TypeOK, Fresh, Creation, Supervision, Holding, Keyed, Ending,
         Dropping, CodecClosedOnce, NoMediaAfterCleanup, EndedNotifiedOnce,
         OrphanedOnlyBy, Threads, EndActors, CallStates, LiveStates
<1> QED
  BY <1>1, <1>2

\* A refused transition changes nothing; the media goes either way.
LEMMA RejectCallInv == ASSUME IInv, RejectCall PROVE IInv'
<1> USE DEF IInv, RejectCall, mediaVars, relayVars, history, Transitions,
          LegalFrom, Target, CanApply, After, Goto, At
<1>1. TypeOK'
  BY DEF TypeOK, Threads, EndActors, Steps, CallStates, LiveStates,
         Pool!ConnStates
<1>2. Fresh' /\ Creation' /\ Supervision' /\ Holding' /\ Keyed' /\ Ending' /\
      Dropping' /\ CodecClosedOnce' /\ NoMediaAfterCleanup' /\
      EndedNotifiedOnce' /\ OrphanedOnlyBy'
  BY DEF TypeOK, Fresh, Creation, Supervision, Holding, Keyed, Ending,
         Dropping, CodecClosedOnce, NoMediaAfterCleanup, EndedNotifiedOnce,
         OrphanedOnlyBy, Threads, EndActors, CallStates, LiveStates
<1> QED
  BY <1>1, <1>2

\* Operators act on a call that exists; a drain may come before it does.
LEMMA EndRequestInv ==
  ASSUME IInv, NEW a \in EndActors,
         EndRequest(a)
  PROVE  IInv'
<1> USE DEF IInv, EndRequest, mediaVars, relayVars, history, Goto, At, Public
<1>1. TypeOK'
  BY DEF TypeOK, Threads, EndActors, Steps, CallStates, Pool!ConnStates
<1>2. Fresh' /\ Creation' /\ Supervision' /\ Holding' /\ Keyed' /\ Ending' /\
      Dropping' /\ CodecClosedOnce' /\ NoMediaAfterCleanup' /\
      EndedNotifiedOnce' /\ OrphanedOnlyBy'
  BY DEF TypeOK, Fresh, Creation, Supervision, Holding, Keyed, Ending,
         Dropping, CodecClosedOnce, NoMediaAfterCleanup, EndedNotifiedOnce,
         OrphanedOnlyBy, Threads, EndActors, CallStates, LiveStates
<1> QED
  BY <1>1, <1>2

\* The transition succeeds for one thread only, which goes on to onEnded.
LEMMA EndCallInv == ASSUME IInv, NEW t \in Threads, EndCall(t) PROVE IInv'
<1> USE DEF IInv, EndCall, mediaVars, relayVars, history, Transitions,
          LegalFrom, Target, CanApply, Goto, At
<1>1. TypeOK'
  BY DEF TypeOK, Threads, EndActors, Steps, CallStates, LiveStates,
         Pool!ConnStates
<1>2. Fresh' /\ Holding' /\ Keyed' /\ Dropping' /\ CodecClosedOnce' /\
      NoMediaAfterCleanup' /\ EndedNotifiedOnce' /\ OrphanedOnlyBy'
  BY DEF TypeOK, Fresh, Holding, Keyed, Dropping, CodecClosedOnce,
         NoMediaAfterCleanup, EndedNotifiedOnce, OrphanedOnlyBy, Threads,
         EndActors, CallStates, LiveStates
<1>3. Creation'
  BY DEF TypeOK, Creation, Threads, EndActors, CallStates, LiveStates
<1>4. Supervision'
  BY DEF TypeOK, Fresh, Supervision, Threads, EndActors, CallStates,
         LiveStates
<1>5. Ending'
  <2>1. CASE st \in LiveStates
    <3>1. \A u \in Threads : pc[u] # "onEnded" /\ u \notin notified
      BY <2>1 DEF Ending, EndedNotifiedOnce, LiveStates
    <3>2. \A u \in Threads : pc'[u] = "onEnded" => u = t
      BY <3>1 DEF TypeOK
    <3>3. st' = "ended" /\ notified' = notified
      BY <2>1
    <3> QED
      BY <3>1, <3>2, <3>3 DEF Ending
  <2>2. CASE st \notin LiveStates
    <3>1. \A u \in Threads : pc'[u] = "onEnded" => pc[u] = "onEnded"
      BY <2>2 DEF TypeOK
    <3> QED
      BY <2>2, <3>1 DEF Ending
  <2> QED
    BY <2>1, <2>2
<1> QED
  BY <1>1, <1>2, <1>3, <1>4, <1>5

\* The call has ended: leaving the registry orphans nobody.
LEMMA OnEndedInv == ASSUME IInv, NEW t \in Threads, OnEnded(t) PROVE IInv'
<1> USE DEF IInv, OnEnded, mediaVars, relayVars, Goto, At
<1>1. TypeOK'
  <2>1. notified' \subseteq Threads
    BY DEF TypeOK
  <2> QED
    BY <2>1 DEF TypeOK, Threads, EndActors, Steps
<1>2. Fresh' /\ Holding' /\ Keyed' /\ CodecClosedOnce' /\ NoMediaAfterCleanup'
  BY DEF TypeOK, Fresh, Holding, Keyed, CodecClosedOnce, NoMediaAfterCleanup,
         Threads, EndActors
<1>3. Creation'
  BY DEF TypeOK, Creation, Ending, Threads, EndActors, CallStates, LiveStates
<1>4. Supervision'
  BY DEF TypeOK, Supervision, Threads, EndActors, CallStates, LiveStates
<1>5. Ending'
  <2>1. ASSUME NEW u \in Threads, pc'[u] = "onEnded" \/ u \in notified'
        PROVE  pc[u] = "onEnded" \/ u \in notified
    BY <2>1 DEF TypeOK
  <2>2. \A u \in Threads : pc'[u] = "onEnded" => pc[u] = "onEnded"
    BY DEF TypeOK
  <2>3. UNCHANGED st
    OBVIOUS
  <2> QED
    BY <2>1, <2>2, <2>3 DEF Ending
<1>6. Dropping'
  BY DEF TypeOK, Ending, Dropping, Threads, EndActors, CallStates, LiveStates
<1>7. EndedNotifiedOnce'
  BY DEF TypeOK, Ending, EndedNotifiedOnce, Threads, EndActors, CallStates,
         LiveStates
<1>8. OrphanedOnlyBy'
  BY DEF TypeOK, Ending, OrphanedOnlyBy, Threads, EndActors, CallStates,
         LiveStates
<1> QED
  BY <1>1, <1>2, <1>3, <1>4, <1>5, <1>6, <1>7, <1>8

\* The codec changes hands: no thread held one before.
LEMMA CleanupMediaInv ==
  ASSUME IInv, NEW t \in Threads,
         CleanupMedia(t)
  PROVE  IInv'
<1> USE DEF IInv, CleanupMedia, relayVars, Goto, At, Listener
<1>1. TypeOK'
  BY DEF TypeOK, Threads, EndActors, Steps, CallStates, Pool!ConnStates
<1>2. Fresh' /\ Creation' /\ Supervision' /\ Holding' /\ Keyed' /\ Ending' /\
      Dropping' /\ CodecClosedOnce' /\ NoMediaAfterCleanup' /\
      EndedNotifiedOnce' /\ OrphanedOnlyBy'
  BY DEF TypeOK, Fresh, Creation, Supervision, Holding, Keyed, Ending,
         Dropping, CodecClosedOnce, NoMediaAfterCleanup, EndedNotifiedOnce,
         OrphanedOnlyBy, Threads, EndActors, CallStates, LiveStates
<1> QED
  BY <1>1, <1>2

\* The held codec is closed and held no more.
LEMMA ReleaseMediaInv ==
  ASSUME IInv, NEW t \in Threads,
         ReleaseMedia(t)
  PROVE  IInv'
<1> USE DEF IInv, ReleaseMedia, Pool!Clears, callVars, mediaVars, Goto, At
<1>1. TypeOK'
  BY DEF TypeOK, Threads, EndActors, Steps, CallStates, Pool!ConnStates
<1>2. Fresh' /\ Creation' /\ Supervision' /\ Holding' /\ Keyed' /\ Ending' /\
      Dropping' /\ CodecClosedOnce' /\ NoMediaAfterCleanup' /\
      EndedNotifiedOnce' /\ OrphanedOnlyBy'
  BY DEF TypeOK, Fresh, Creation, Supervision, Holding, Keyed, Ending,
         Dropping, CodecClosedOnce, NoMediaAfterCleanup, EndedNotifiedOnce,
         OrphanedOnlyBy, Threads, EndActors, CallStates, LiveStates
<1> QED
  BY <1>1, <1>2

\* What leaves the registry here has ended, had left before, or was rejected.
LEMMA DropInv == ASSUME IInv, NEW t \in Threads, Drop(t) PROVE IInv'
<1> USE DEF IInv, Drop, mediaVars, relayVars, history, Goto, At
<1>1. TypeOK'
  BY DEF TypeOK, Threads, EndActors, Steps, CallStates, Pool!ConnStates
<1>2. Fresh' /\ Supervision' /\ Holding' /\ Keyed' /\ Ending' /\ Dropping' /\
      CodecClosedOnce' /\ NoMediaAfterCleanup' /\ EndedNotifiedOnce'
  BY DEF TypeOK, Fresh, Supervision, Holding, Keyed, Ending, Dropping,
         CodecClosedOnce, NoMediaAfterCleanup, EndedNotifiedOnce, Threads,
         EndActors, CallStates, LiveStates
<1>3. Creation'
  BY DEF TypeOK, Fresh, Creation, Dropping, Threads, EndActors, CallStates,
         LiveStates
<1>4. OrphanedOnlyBy'
  BY DEF TypeOK, Fresh, Creation, Dropping, OrphanedOnlyBy, Threads,
         EndActors, CallStates, LiveStates
<1> QED
  BY <1>1, <1>2, <1>3, <1>4

\* The goroutine stops because the media was released.
LEMMA KeepaliveStopsInv == ASSUME IInv, KeepaliveStops PROVE IInv'
<1> USE DEF IInv, KeepaliveStops, callVars, mediaVars, relayVars, history,
          Goto, At
<1>1. TypeOK'
  BY DEF TypeOK, Threads, EndActors, Steps, CallStates, Pool!ConnStates
<1>2. Fresh' /\ Creation' /\ Supervision' /\ Holding' /\ Keyed' /\ Ending' /\
      Dropping' /\ CodecClosedOnce' /\ NoMediaAfterCleanup' /\
      EndedNotifiedOnce' /\ OrphanedOnlyBy'
  BY DEF TypeOK, Fresh, Creation, Supervision, Holding, Keyed, Ending,
         Dropping, CodecClosedOnce, NoMediaAfterCleanup, EndedNotifiedOnce,
         OrphanedOnlyBy, Threads, EndActors, CallStates, LiveStates
<1> QED
  BY <1>1, <1>2

\* The goroutine is on its way to end the call.
LEMMA KeepaliveExpiresInv == ASSUME IInv, KeepaliveExpires PROVE IInv'
<1> USE DEF IInv, KeepaliveExpires, callVars, mediaVars, relayVars, history,
          Goto, At, HasConnection
<1>1. TypeOK'
  BY DEF TypeOK, Threads, EndActors, Steps, CallStates, Pool!ConnStates
<1>2. Fresh' /\ Creation' /\ Supervision' /\ Holding' /\ Keyed' /\ Ending' /\
      Dropping' /\ CodecClosedOnce' /\ NoMediaAfterCleanup' /\
      EndedNotifiedOnce' /\ OrphanedOnlyBy'
  BY DEF TypeOK, Fresh, Creation, Supervision, Holding, Keyed, Ending,
         Dropping, CodecClosedOnce, NoMediaAfterCleanup, EndedNotifiedOnce,
         OrphanedOnlyBy, Threads, EndActors, CallStates, LiveStates
<1> QED
  BY <1>1, <1>2
\* Nothing has happened to a call nobody has created.
LEMMA InitInv == Init => IInv
<1> SUFFICES ASSUME Init PROVE IInv
    OBVIOUS
<1> USE DEF Init
<1>1. TypeOK
  <2>1. relayData \in [known : BOOLEAN, eps : SUBSET Relays]
    BY DEF NoRelayData
  <2>2. pc \in [Threads -> Steps]
    BY DEF Steps
  <2>3. /\ conn \in [Relays -> Pool!ConnStates] /\ upcalls \subseteq Relays
        /\ dialled \subseteq Relays
    BY DEF Pool!PoolInit, Pool!ConnStates
  <2>4. going \in [Threads -> SUBSET Relays] /\ todo \in [Threads -> SUBSET Relays] /\ held \in [Threads -> BOOLEAN]
    OBVIOUS
  <2>5. signals \in 0..MaxSignals
    BY ManagerAssumption
  <2> QED
    BY <2>1, <2>2, <2>3, <2>4, <2>5 DEF TypeOK
<1>2. Fresh /\ Creation /\ Supervision /\ Holding /\ Keyed
  BY DEF Fresh, Creation, Supervision, Holding, Keyed, Threads, EndActors
<1>3. Ending /\ Dropping
  BY DEF Ending, Dropping, Threads, EndActors
<1>4. CodecClosedOnce /\ NoMediaAfterCleanup /\ EndedNotifiedOnce /\ OrphanedOnlyBy
  BY DEF CodecClosedOnce, NoMediaAfterCleanup, EndedNotifiedOnce, OrphanedOnlyBy,
         LiveStates, CallStates
<1> QED
  BY <1>1, <1>2, <1>3, <1>4 DEF IInv

\* What a thread does of its own accord keeps IInv.
LEMMA InternalInv ==
  ASSUME IInv, NEW t \in Threads, Internal(t)
  PROVE  IInv'
<1>1. CASE t = "start" /\ StartStep
  BY <1>1, StartCallInv, OfferFailsInv, OfferSentInv, StartEmitInv DEF StartStep
<1>2. CASE t = "ack" /\ (AckUseless \/ HandleCallAck)
  BY <1>2, AckUselessInv, HandleCallAckInv
<1>3. CASE t = "sig" /\ SigStep
  BY <1>3, HandleCallOfferInv, HandleCallAcceptInv, AcceptWithRelayInv,
     AcceptWithoutRelayInv, SigEmitInv, TransportLookInv, TransportOverwriteInv,
     HandleCallTerminateInv DEF SigStep
<1>4. CASE t = "accept" /\ (AcceptCall \/ AcceptDials)
  BY <1>4, AcceptCallInv, AcceptDialsInv
<1>5. CASE t = "reject" /\ RejectCall
  BY <1>5, RejectCallInv
<1>6. CASE t = "keepalive" /\ Keepalive
  BY <1>6, KeepaliveStopsInv, KeepaliveExpiresInv DEF Keepalive
<1>7. CASE LookUp(t) \/ Dial(t) \/ Dialled(t)
  BY <1>7, LookUpInv, DialInv, DialledInv
<1>8. CASE EndSteps(t)
  BY <1>8, EndCallInv, OnEndedInv, CleanupMediaInv, ReleaseMediaInv, DropInv
     DEF EndSteps
<1> QED
  BY <1>1, <1>2, <1>3, <1>4, <1>5, <1>6, <1>7, <1>8 DEF Internal

\* Operators, the peer and the network keep IInv.
LEMMA EnvironmentInv == ASSUME IInv, Environment PROVE IInv'
<1>1. CASE CreateCall \/ OfferArrives
  BY <1>1, CreateCallInv, OfferArrivesInv
<1>2. CASE \E step \in {"accepted", "transport", "terminate"} : PeerSends(step)
  BY <1>2, PeerSendsInv
<1>3. CASE AcceptRequest \/ RejectRequest
  BY <1>3, AcceptRequestInv, RejectRequestInv
<1>4. CASE \E a \in EndActors : EndRequest(a)
  BY <1>4, EndRequestInv
<1>5. CASE \E r \in Relays : RelayOpens(r) \/ RelayDrops(r)
  BY <1>5, RelayOpensInv, RelayDropsInv
<1> QED
  BY <1>1, <1>2, <1>3, <1>4, <1>5 DEF Environment

\* Every step of the call manager and its surroundings keeps IInv.
LEMMA NextInv == IInv /\ [Next]_vars => IInv'
<1> SUFFICES ASSUME IInv, [Next]_vars PROVE IInv'
    OBVIOUS
<1>1. CASE Environment
  BY <1>1, EnvironmentInv
<1>2. ASSUME NEW t \in Threads, Internal(t) PROVE IInv'
  BY <1>2, InternalInv
<1>3. ASSUME NEW r \in Relays, OnRelayConnected(r) PROVE IInv'
  BY <1>3, OnRelayConnectedInv
<1>4. CASE UNCHANGED vars
  BY <1>4 DEF vars, callVars, mediaVars, relayVars, local, history, IInv, TypeOK,
              Fresh, Creation, Supervision, Holding, Keyed, Ending, Dropping,
              CodecClosedOnce, NoMediaAfterCleanup, EndedNotifiedOnce,
              OrphanedOnlyBy, At
<1> QED
  BY <1>1, <1>2, <1>3, <1>4 DEF Next
-----------------------------------------------------------------------------
\* IInv holds whatever the interleaving of handlers, callbacks and goroutines.
THEOREM Invariance == Spec => []IInv
BY InitInv, NextInv, PTL DEF Spec

\* TypeOK for every set of relays, actors and bound of the peer's messages.
THEOREM TypeCorrect == Spec => []TypeOK
<1>1. IInv => TypeOK
  BY DEF IInv
<1> QED
  BY <1>1, Invariance, PTL

\* No interleaving of enders, rejections and terminations destroys the native
\* codec twice, or while a locked path may still use it.
THEOREM CodecIsClosedOnce == Spec => []CodecClosedOnce
<1>1. IInv => CodecClosedOnce
  BY DEF IInv
<1> QED
  BY <1>1, Invariance, PTL

\* Nothing that arrives after cleanupMedia brings the codec or the keepalive back.
THEOREM MediaStaysReleased == Spec => []NoMediaAfterCleanup
<1>1. IInv => NoMediaAfterCleanup
  BY DEF IInv
<1> QED
  BY <1>1, Invariance, PTL

\* onEnded runs for ended calls only, and for one of the local enders only.
THEOREM NotifiedOnce == Spec => []EndedNotifiedOnce
<1>1. IInv => EndedNotifiedOnce
  BY DEF IInv
<1> QED
  BY <1>1, Invariance, PTL

\* A live call leaves the registry through a failed offer, a rejection or a drain,
\* never through a hang-up.
THEOREM OrphansExplained == Spec => []OrphanedOnlyBy
<1>1. IInv => OrphanedOnlyBy
  BY DEF IInv
<1> QED
  BY <1>1, Invariance, PTL

\* An active call with its media has a running keepalive goroutine.
THEOREM ActiveSupervised == Spec => []ActiveIsSupervised
<1>1. IInv => ActiveIsSupervised
  BY DEF IInv, Supervision, ActiveIsSupervised
<1> QED
  BY <1>1, Invariance, PTL

\* An active outgoing call with its media has its SRTP session.
THEOREM ActiveKeyed == Spec => []ActiveOutgoingIsKeyed
<1>1. IInv => ActiveOutgoingIsKeyed
  BY DEF IInv, Keyed, ActiveOutgoingIsKeyed
<1> QED
  BY <1>1, Invariance, PTL
-----------------------------------------------------------------------------
\* The moves the state of a call can make in one step.
Moves(s, n) ==
  \/ n = s
  \/ s = "none" /\ n \in {"initiating", "incoming_ringing"}
  \/ s = "initiating" /\ n = "ringing"
  \/ s \in {"ringing", "incoming_ringing"} /\ n = "connecting"
  \/ s = "connecting" /\ n = "active"
  \/ s \in LiveStates /\ n = "ended"

\* The actions that leave the state, the media and the records of the end alone.
Quiet ==
  \/ CreateCall \/ OfferFails \/ StartEmit \/ AckUseless \/ HandleCallAck
  \/ OfferArrives \/ SigEmit \/ TransportLook \/ TransportOverwrite
  \/ AcceptRequest \/ AcceptDials \/ RejectRequest
  \/ KeepaliveStops \/ KeepaliveExpires
  \/ \E step \in {"accepted", "transport", "terminate"} : PeerSends(step)
  \/ \E a \in EndActors : EndRequest(a)
  \/ \E r \in Relays : RelayOpens(r) \/ RelayDrops(r)
  \/ \E t \in Threads : LookUp(t) \/ Dial(t) \/ Dialled(t) \/ Drop(t)

lifeVars == <<st, codec, kaArmed, cleaned, codecCloses, notified>>

\* They do: bookkeeping of the registry, the relays and the threads.
LEMMA QuietStep == Quiet => UNCHANGED lifeVars
BY DEF Quiet, lifeVars, callVars, mediaVars, history, CreateCall, OfferFails,
       StartEmit, AckUseless, HandleCallAck, OfferArrives, SigEmit, TransportLook,
       TransportOverwrite, AcceptRequest, AcceptDials, RejectRequest,
       KeepaliveStops, KeepaliveExpires, PeerSends, EndRequest, RelayOpens,
       RelayDrops, LookUp, Dial, Dialled, Drop

\* The other actions.
Busy ==
  \/ StartCall \/ OfferSent \/ HandleCallOffer \/ HandleCallAccept
  \/ AcceptWithRelay \/ AcceptWithoutRelay \/ HandleCallTerminate
  \/ AcceptCall \/ RejectCall
  \/ \E r \in Relays : OnRelayConnected(r)
  \/ \E t \in Threads : EndCall(t) \/ OnEnded(t) \/ CleanupMedia(t) \/ ReleaseMedia(t)

\* There are no others.
LEMMA NextSplit == Next => Quiet \/ Busy
BY DEF Next, Environment, Internal, StartStep, SigStep, EndSteps, Keepalive, Quiet,
       Busy

\* Every transition the code applies is one of the moves.
LEMMA StateMoves == ASSUME IInv, [Next]_vars PROVE Moves(st, st')
<1> USE DEF Moves
<1>1. CASE Quiet
  BY <1>1, QuietStep DEF lifeVars
<1>2. CASE StartCall \/ HandleCallOffer
  BY <1>2 DEF StartCall, HandleCallOffer, At, IInv, Creation
<1>3. CASE OfferSent \/ HandleCallAccept \/ AcceptWithoutRelay
           \/ HandleCallTerminate \/ AcceptCall \/ RejectCall
  BY <1>3 DEF OfferSent, HandleCallAccept, AcceptWithoutRelay, HandleCallTerminate,
              AcceptCall, RejectCall, After, CanApply, LegalFrom, Target,
              Transitions, LiveStates, CallStates
<1>4. CASE AcceptWithRelay \/ \E r \in Relays : OnRelayConnected(r)
  BY <1>4 DEF AcceptWithRelay, OnRelayConnected, MediaConnected, CanApply,
              LegalFrom, Target, Transitions
<1>5. ASSUME NEW t \in Threads, EndCall(t) PROVE Moves(st, st')
  BY <1>5 DEF EndCall, CanApply, LegalFrom, Target, Transitions
<1>6. ASSUME NEW t \in Threads, OnEnded(t) \/ CleanupMedia(t) \/ ReleaseMedia(t)
      PROVE  Moves(st, st')
  BY <1>6 DEF OnEnded, CleanupMedia, ReleaseMedia, callVars
<1>7. CASE UNCHANGED vars
  BY <1>7 DEF vars, callVars
<1> QED
  BY <1>1, <1>2, <1>3, <1>4, <1>5, <1>6, <1>7, NextSplit DEF Busy

\* No step brings a call back to an earlier phase.
THEOREM CallMovesForward == Spec => ForwardOnly
<1>1. IInv /\ [Next]_vars => [Phase(st') >= Phase(st)]_vars
  BY StateMoves DEF Moves, Phase, LiveStates, CallStates, IInv, TypeOK
<1> QED
  BY <1>1, Invariance, PTL DEF Spec, ForwardOnly
-----------------------------------------------------------------------------
\* A step that changes nothing the life cycle can see.
LEMMA Stutter == UNCHANGED lifeVars => UNCHANGED Lifecycle!vars
BY DEF lifeVars, Lifecycle!vars

\* A call nobody has created is one that has not been set up.
LEMMA StartsAlike == Init => Lifecycle!Init
BY DEF Init, Lifecycle!Init

\* Building the CallInfo is SetUp; the moves are Answer, Activate and End; the
\* clean-up is Release and Close, and onEnded is Tell.
LEMMA StepSimulation ==
  ASSUME IInv, [Next]_vars
  PROVE  [Lifecycle!Next]_(Lifecycle!vars)
<1> USE DEF Lifecycle!Next, Lifecycle!vars, Lifecycle!Live
<1>1. CASE Quiet \/ UNCHANGED vars
  BY <1>1, QuietStep, Stutter DEF vars, callVars, mediaVars, history, lifeVars
<1>2. CASE StartCall \/ HandleCallOffer
  <2>1. /\ st = "none" /\ ~codec /\ ~kaArmed /\ ~cleaned
        /\ st' \in {"initiating", "incoming_ringing"}
        /\ UNCHANGED <<kaArmed, cleaned, codecCloses, notified>>
    BY <1>2 DEF StartCall, HandleCallOffer, At, IInv, Creation, Fresh, history
  <2> QED
    BY <2>1 DEF Lifecycle!SetUp
<1>3. CASE OfferSent \/ HandleCallAccept \/ AcceptWithoutRelay
           \/ HandleCallTerminate \/ AcceptCall \/ RejectCall
           \/ \E t \in Threads : EndCall(t)
  <2>1. UNCHANGED <<codec, kaArmed, cleaned, codecCloses, notified>>
    BY <1>3 DEF OfferSent, HandleCallAccept, AcceptWithoutRelay,
                HandleCallTerminate, AcceptCall, RejectCall, EndCall, mediaVars,
                history
  <2>2. st # "none" \/ st' = st
    BY <1>3 DEF OfferSent, HandleCallAccept, AcceptWithoutRelay,
                HandleCallTerminate, AcceptCall, RejectCall, EndCall, After,
                CanApply, LegalFrom, Transitions, LiveStates, CallStates
  <2> QED
    BY <2>1, <2>2, StateMoves
       DEF Moves, LiveStates, CallStates, Lifecycle!Answer, Lifecycle!Activate,
           Lifecycle!End
<1>4. CASE AcceptWithRelay \/ \E r \in Relays : OnRelayConnected(r)
  <2>1. \/ UNCHANGED <<st, kaArmed>>
        \/ st = "connecting" /\ st' = "active" /\ kaArmed' = (kaArmed \/ codec)
    BY <1>4 DEF AcceptWithRelay, OnRelayConnected, MediaConnected, CanApply,
                LegalFrom, Target, Transitions
  <2>2. UNCHANGED <<codec, cleaned, codecCloses, notified>>
    BY <1>4 DEF AcceptWithRelay, OnRelayConnected, history
  <2>3. (codec \/ kaArmed) = (codec \/ kaArmed)'
    BY <2>1, <2>2 DEF IInv, TypeOK
  <2>4. CASE st' = st
    BY <2>2, <2>3, <2>4
  <2>5. CASE st = "connecting" /\ st' = "active"
    BY <2>2, <2>3, <2>5 DEF Lifecycle!Activate
  <2> QED
    BY <2>1, <2>4, <2>5
<1>5. ASSUME NEW t \in Threads, OnEnded(t) PROVE Lifecycle!Tell
  <2>1. /\ st = "ended" /\ t \in notified'
        /\ UNCHANGED <<st, codec, kaArmed, cleaned, codecCloses>>
    BY <1>5 DEF OnEnded, At, IInv, Ending, mediaVars
  <2> QED
    BY <2>1 DEF Lifecycle!Tell
<1>6. ASSUME NEW t \in Threads, CleanupMedia(t)
      PROVE  Lifecycle!Release \/ UNCHANGED Lifecycle!vars
  <2>1. /\ ~codec' /\ ~kaArmed' /\ cleaned'
        /\ UNCHANGED <<st, codecCloses, notified>>
    BY <1>6 DEF CleanupMedia
  <2>2. st # "none"
    BY <1>6 DEF CleanupMedia, At, IInv, Fresh, Threads, EndActors
  <2> QED
    BY <2>1, <2>2 DEF Lifecycle!Release, IInv, TypeOK, CallStates
<1>7. ASSUME NEW t \in Threads, ReleaseMedia(t)
      PROVE  Lifecycle!Close \/ UNCHANGED Lifecycle!vars
  <2>1. UNCHANGED <<st, codec, kaArmed, cleaned, notified>>
    BY <1>7 DEF ReleaseMedia, callVars, mediaVars
  <2>2. CASE held[t]
    <3>1. codecCloses = 0 /\ codecCloses' = 1 /\ ~codec
      BY <1>7, <2>2 DEF ReleaseMedia, IInv, CodecClosedOnce
    <3>2. cleaned /\ ~kaArmed
      BY <2>2 DEF IInv, Holding, NoMediaAfterCleanup
    <3> QED
      BY <2>1, <3>1, <3>2 DEF Lifecycle!Close
  <2>3. CASE ~held[t]
    BY <1>7, <2>1, <2>3 DEF ReleaseMedia, IInv, TypeOK
  <2> QED
    BY <2>2, <2>3
<1> QED
  BY <1>1, <1>2, <1>3, <1>4, <1>5, <1>6, <1>7, NextSplit DEF Busy

\* The safety part of CallLifecycle: what the session relies on holds of every
\* interleaving of the threads.
THEOREM LifecycleSafety ==
  Spec => Lifecycle!Init /\ [][Lifecycle!Next]_(Lifecycle!vars)
<1>1. IInv /\ [Next]_vars => [Lifecycle!Next]_(Lifecycle!vars)
  BY StepSimulation
<1> QED
  BY <1>1, StartsAlike, Invariance, PTL DEF Spec
=============================================================================

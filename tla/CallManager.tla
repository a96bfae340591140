----------------------------- MODULE CallManager -----------------------------
(***************************************************************************)
(* One CallManager (internal/voip/call) and the goroutines that drive it:  *)
(* the HTTP handlers that start, accept, reject and hang up, the whatsmeow *)
(* event goroutine that delivers the peer's signalling, the goroutine that *)
(* waits for the offer ack, the relay callbacks and the silence-keepalive  *)
(* goroutine.  A step of a thread is what it does in one critical section  *)
(* of m.mu, or between two of them; everything else interleaves.           *)
(*                                                                         *)
(* The relays are a RelayPool, which RelayTransport implements; the        *)
(* session registry is abstracted to whether it still holds this call      *)
(* (SessionCalls has the detail), keys and SSRCs to the existence of the   *)
(* SRTP session.                                                           *)
(***************************************************************************)
EXTENDS CallState, Naturals

CONSTANTS Relays,         \* relay endpoints usable by buildRelayConfigs
          Actors,         \* the session-level callers that may act on the call
          MaxSignals,     \* bound on the peer's messages after the offer
          CodecAvailable  \* FALSE: built without -tags mlow, signalling only

\* doEndCall, the browser bridge's OnTerminalICE, teardownAllCalls
EndActors == {"hangup", "ice", "drain"}

ASSUME ManagerAssumption ==
  /\ Actors \subseteq EndActors \cup {"accept", "reject"}
  /\ MaxSignals \in Nat
  /\ CodecAvailable \in BOOLEAN

Threads == {"start", "ack", "sig", "keepalive", "accept", "reject"} \cup EndActors

VARIABLES
  dir,         \* CallInfo.Direction
  st,          \* currentCall.StateData.State, "none" while currentCall is nil
  inReg,       \* the session's callRegistry holds the call
  relayData,   \* call.RelayData: [known, eps], eps the usable Endpoints
  srtp,        \* m.srtpSession # nil
  codec,       \* m.codec # nil
  kaArmed,     \* m.keepaliveStop # nil
  conn,        \* RelayPool: the relay manager's view of each relay
  upcalls,     \* RelayPool: relays whose onRelayConnected call is on its way
  dialled,     \* RelayPool: relays dialled so far
  going,       \* relays for which a thread has a dialling goroutine of its own
  signals,     \* messages the peer may still send
  pc,          \* where each thread is
  todo,        \* relays a thread inside ConfigureRelays has yet to look up
  held,        \* the codec a thread inside cleanupMedia is about to Close
  hasConn,     \* HandleCallAccept's local hasConn
  codecCloses, \* history: codec.Close calls
  notified,    \* history: threads whose EndCall/HandleCallTerminate ran onEnded
  cleaned      \* history: cleanupMedia has cleared the media fields

callVars  == <<dir, st, inReg, relayData>>
mediaVars == <<srtp, codec, kaArmed>>
relayVars == <<conn, upcalls, dialled, going>>
local     == <<pc, todo, held, hasConn>>
history   == <<codecCloses, notified, cleaned>>
vars      == <<callVars, mediaVars, relayVars, signals, local, history>>

\* The relay manager, as far as it shows.
Pool == INSTANCE RelayPool

Steps == {"off", "idle", "run", "offer", "sent", "emit", "wait", "dial",
          "transport", "overwrite", "accepted", "media", "terminate", "end",
          "onEnded", "cleanup", "release", "drop", "done"}

TypeOK ==
  /\ dir \in {"outgoing", "incoming"}
  /\ st \in CallStates \cup {"none"}
  /\ inReg \in BOOLEAN
  /\ relayData \in [known : BOOLEAN, eps : SUBSET Relays]
  /\ srtp \in BOOLEAN /\ codec \in BOOLEAN /\ kaArmed \in BOOLEAN
  /\ conn \in [Relays -> Pool!ConnStates]
  /\ upcalls \subseteq Relays /\ dialled \subseteq Relays
  /\ going \in [Threads -> SUBSET Relays]
  /\ signals \in 0..MaxSignals
  /\ pc \in [Threads -> Steps]
  /\ todo \in [Threads -> SUBSET Relays]
  /\ held \in [Threads -> BOOLEAN]
  /\ hasConn \in BOOLEAN
  /\ codecCloses \in Nat
  /\ notified \subseteq Threads
  /\ cleaned \in BOOLEAN

NoRelayData == [known |-> FALSE, eps |-> {}]

\* The whatsmeow client and the HTTP server hand a call to these threads; a
\* call starts with no CallInfo and no relay.
Init ==
  /\ dir \in {"outgoing", "incoming"}
  /\ st = "none" /\ inReg = FALSE /\ relayData = NoRelayData
  /\ srtp = FALSE /\ codec = FALSE /\ kaArmed = FALSE
  /\ Pool!PoolInit /\ going = [t \in Threads |-> {}]
  /\ signals = MaxSignals
  /\ pc = [t \in Threads |-> IF t \in {"ack", "keepalive"} THEN "off" ELSE "idle"]
  /\ todo = [t \in Threads |-> {}]
  /\ held = [t \in Threads |-> FALSE]
  /\ hasConn = FALSE
  /\ codecCloses = 0 /\ notified = {} /\ cleaned = FALSE
-----------------------------------------------------------------------------
Goto(t, step) == pc' = [pc EXCEPT ![t] = step]

At(t, step) == pc[t] = step

HasConnection == \E r \in Relays : conn[r] = "open"

\* The call id has been published (emitState, the incoming event, the offer on
\* the wire): operators and the peer can refer to the call.
Public == st # "none" /\ (dir = "outgoing" => At("start", "done"))

\* Session.wireCall's state listener, as far as the registry goes: an ended call
\* is removed.  emitState runs it after the critical section that moved the
\* state; here it runs with the thread's next step.
Listener == inReg' = (inReg /\ st # "ended")

\* Mistake: startSilenceKeepaliveLocked does not look at m.codec.
MediaConnectedUnchecked ==
  /\ st' = Target["media_connected"]
  /\ kaArmed' = TRUE

\* TransitionMediaConnected together with startSilenceKeepaliveLocked, in one
\* critical section: the keepalive starts only if there is a codec.
MediaConnected ==
  /\ st' = Target["media_connected"]
  /\ kaArmed' = (kaArmed \/ codec)

\* The thread steps p, and the keepalive goroutine if MediaConnected starts it.
WithKeepalive(p) ==
  IF ~kaArmed /\ codec THEN [p EXCEPT !["keepalive"] = "run"] ELSE p
-----------------------------------------------------------------------------
(* Session.startOutgoing and CallManager.StartCall *)

CreateCall ==
  /\ dir = "outgoing" /\ At("start", "idle")
  /\ inReg' = TRUE
  /\ Goto("start", "run")
  /\ UNCHANGED <<dir, st, relayData, mediaVars, relayVars, signals, todo, held,
                 hasConn, history>>

StartCall ==
  /\ At("start", "run")
  /\ st' = "initiating"
  /\ codec' = CodecAvailable
  /\ Goto("start", "offer")
  /\ UNCHANGED <<dir, inReg, relayData, srtp, kaArmed, relayVars, signals, todo,
                 held, hasConn, history>>

\* BuildOfferStanza failed: startOutgoing forgets the call as it is.
OfferFails ==
  /\ At("start", "offer")
  /\ inReg' = FALSE
  /\ Goto("start", "done")
  /\ UNCHANGED <<dir, st, relayData, mediaVars, relayVars, signals, todo, held,
                 hasConn, history>>

OfferSent ==
  /\ At("start", "offer")
  /\ st' = After(st, "offer_sent")
  /\ Goto("start", "emit")
  /\ UNCHANGED <<dir, inReg, relayData, mediaVars, relayVars, signals, todo, held,
                 hasConn, history>>

\* emitState, then `go Query(offer)`.
StartEmit ==
  /\ At("start", "emit")
  /\ Listener
  /\ pc' = [pc EXCEPT !["start"] = "done", !["ack"] = "wait"]
  /\ UNCHANGED <<dir, st, relayData, mediaVars, relayVars, signals, todo, held,
                 hasConn, history>>

StartStep == StartCall \/ OfferFails \/ OfferSent \/ StartEmit
-----------------------------------------------------------------------------
(* The goroutine waiting for the offer ack *)

\* The query failed, timed out after 15 s, or the ack is an error or has no relay.
AckUseless ==
  /\ At("ack", "wait")
  /\ Goto("ack", "done")
  /\ UNCHANGED <<callVars, mediaVars, relayVars, signals, todo, held, hasConn,
                 history>>

\* HandleCallAck: nothing here looks at the state of the call.
HandleCallAck ==
  /\ At("ack", "wait")
  /\ \E eps \in SUBSET Relays, participants \in BOOLEAN :
       /\ relayData' = [known |-> TRUE, eps |-> eps]
       /\ srtp' = (srtp \/ participants)
       /\ todo' = [todo EXCEPT !["ack"] = eps]
  /\ Goto("ack", "dial")
  /\ UNCHANGED <<dir, st, inReg, codec, kaArmed, relayVars, signals, held, hasConn,
                 history>>
-----------------------------------------------------------------------------
(* connectRelays / ConfigureRelays, for the threads that call it *)

\* One relay of the list is looked up; if the map does not have it a goroutine is
\* started to dial it.
LookUp(t) ==
  /\ At(t, "dial")
  /\ \E r \in todo[t] :
       /\ todo' = [todo EXCEPT ![t] = @ \ {r}]
       /\ going' = IF conn[r] = "none" THEN [going EXCEPT ![t] = @ \cup {r}] ELSE going
  /\ UNCHANGED <<callVars, mediaVars, conn, upcalls, dialled, signals, pc, held,
                 hasConn, history>>

\* The goroutine inserts its connection, over one that came since it was looked up.
Dial(t) ==
  /\ \E r \in going[t] :
       /\ going' = [going EXCEPT ![t] = @ \ {r}]
       /\ Pool!Inserts(r)
  /\ UNCHANGED <<callVars, mediaVars, signals, local, history>>

Dialled(t) ==
  /\ At(t, "dial") /\ todo[t] = {} /\ going[t] = {}
  /\ Goto(t, IF t = "sig" THEN "idle" ELSE "done")
  /\ UNCHANGED <<callVars, mediaVars, relayVars, signals, todo, held, hasConn,
                 history>>

(* The relays, and their OnOpen callback *)

RelayOpens(r) ==
  /\ Pool!Opens(r) \/ Pool!OpensAside(r)
  /\ UNCHANGED <<callVars, mediaVars, going, signals, local, history>>

RelayDrops(r) ==
  /\ Pool!Drops(r)
  /\ UNCHANGED <<callVars, mediaVars, going, signals, local, history>>

\* Mistake: the relay callback activates the call but leaves the keepalive to the
\* accept handler.
OnRelayConnectedUnsupervised(r) ==
  /\ Pool!Upcall(r)
  /\ st' = After(st, "media_connected")
  /\ UNCHANGED <<dir, inReg, relayData, mediaVars, going, signals, local, history>>

\* Mistake: the relay callback does not look at the state of the call.
OnRelayConnectedAnyState(r) ==
  /\ Pool!Upcall(r)
  /\ MediaConnected /\ pc' = WithKeepalive(pc)
  /\ UNCHANGED <<dir, inReg, relayData, srtp, codec, going, signals, todo, held,
                 hasConn, history>>

OnRelayConnected(r) ==
  /\ Pool!Upcall(r)
  /\ IF st = "connecting"
       THEN MediaConnected /\ pc' = WithKeepalive(pc)
       ELSE UNCHANGED <<st, kaArmed, pc>>
  /\ UNCHANGED <<dir, inReg, relayData, srtp, codec, going, signals, todo, held,
                 hasConn, history>>
-----------------------------------------------------------------------------
(* The whatsmeow event goroutine: one call event at a time *)

\* Session.onIncomingOffer up to createCall.
OfferArrives ==
  /\ dir = "incoming" /\ At("sig", "idle") /\ st = "none"
  /\ inReg' = TRUE
  /\ Goto("sig", "offer")
  /\ UNCHANGED <<dir, st, relayData, mediaVars, relayVars, signals, todo, held,
                 hasConn, history>>

\* HandleCallOffer: the SRTP session needs the call key and a parsed relay, which
\* may be an unusable one.
HandleCallOffer ==
  /\ At("sig", "offer")
  /\ st' = "incoming_ringing"
  /\ codec' = CodecAvailable
  /\ \E eps \in SUBSET Relays : relayData' = [known |-> TRUE, eps |-> eps]
  /\ srtp' \in BOOLEAN
  /\ Goto("sig", "emit")
  /\ UNCHANGED <<dir, inReg, kaArmed, relayVars, signals, todo, held, hasConn,
                 history>>

\* handleEvent finds the call in the registry and calls its handler.  The accept
\* of an incoming call is filtered out there.
PeerSends(step) ==
  /\ Public /\ inReg /\ At("sig", "idle") /\ signals > 0
  /\ step = "accepted" => dir = "outgoing"
  /\ signals' = signals - 1
  /\ Goto("sig", step)
  /\ UNCHANGED <<callVars, mediaVars, relayVars, todo, held, hasConn, history>>

\* Mistake: the handler takes the peer's answer without deriving the SRTP session.
HandleCallAcceptUnkeyed ==
  /\ At("sig", "accepted")
  /\ st' = After(st, "remote_accepted")
  /\ hasConn' = HasConnection
  /\ todo' = [todo EXCEPT !["sig"] = relayData.eps]
  /\ Goto("sig", "media")
  /\ UNCHANGED <<dir, inReg, relayData, srtp, codec, kaArmed, relayVars, signals,
                 held, history>>

\* HandleCallAccept, first critical section: the peer answered; the SRTP session is
\* derived, and whether a relay is open is read for the steps that follow the unlock.
HandleCallAccept ==
  /\ At("sig", "accepted")
  /\ st' = After(st, "remote_accepted")
  /\ srtp' = TRUE
  /\ hasConn' = HasConnection
  /\ todo' = [todo EXCEPT !["sig"] = relayData.eps]
  /\ Goto("sig", "media")
  /\ UNCHANGED <<dir, inReg, relayData, codec, kaArmed, relayVars, signals, held,
                 history>>

\* Mistake: with a relay already open the handler leaves the activation to the
\* relay callback, which has run.
AcceptWithRelayNoActivation ==
  /\ At("sig", "media") /\ hasConn
  /\ Listener
  /\ todo' = [todo EXCEPT !["sig"] = {}]
  /\ Goto("sig", "idle")
  /\ UNCHANGED <<dir, st, relayData, mediaVars, relayVars, signals, held, hasConn,
                 history>>

\* The rest of HandleCallAccept, after the stanzas are sent: it trusts hasConn.
AcceptWithRelay ==
  /\ At("sig", "media") /\ hasConn
  /\ Listener
  /\ todo' = [todo EXCEPT !["sig"] = {}]
  /\ IF CanApply(st, "media_connected")
       THEN /\ MediaConnected
            /\ pc' = [WithKeepalive(pc) EXCEPT !["sig"] = "emit"]
       ELSE /\ Goto("sig", "idle")
            /\ UNCHANGED <<st, kaArmed>>
  /\ UNCHANGED <<dir, relayData, srtp, codec, relayVars, signals, held, hasConn,
                 history>>

\* The repeated RemoteAccepted is refused: the first section left "ringing".
AcceptWithoutRelay ==
  /\ At("sig", "media") /\ ~hasConn
  /\ Listener
  /\ st' = After(st, "remote_accepted")
  /\ Goto("sig", IF todo["sig"] # {} THEN "dial" ELSE "idle")
  /\ UNCHANGED <<dir, relayData, mediaVars, relayVars, signals, todo, held, hasConn,
                 history>>

SigEmit ==
  /\ At("sig", "emit")
  /\ Listener
  /\ Goto("sig", "idle")
  /\ UNCHANGED <<dir, st, relayData, mediaVars, relayVars, signals, todo, held,
                 hasConn, history>>

\* HandleCallTransport: ExtractRelayEndpoints never fills RawToken, so none of
\* the endpoints it stores is usable and its own connectRelays dials nothing.
TransportLook ==
  /\ At("sig", "transport")
  /\ Goto("sig", IF HasConnection THEN "idle" ELSE "overwrite")
  /\ UNCHANGED <<callVars, mediaVars, relayVars, signals, todo, held, hasConn,
                 history>>

\* The endpoints of a transport stanza replace the usable ones.
TransportOverwrite ==
  /\ At("sig", "overwrite")
  /\ relayData' = [known |-> TRUE, eps |-> {}]
  /\ Goto("sig", "idle")
  /\ UNCHANGED <<dir, st, inReg, mediaVars, relayVars, signals, todo, held, hasConn,
                 history>>

\* HandleCallTerminate, for a terminate or a reject of the peer: it goes on to
\* onEnded and cleanupMedia even if the call had ended already.
HandleCallTerminate ==
  /\ At("sig", "terminate")
  /\ st' = After(st, "terminated")
  /\ Goto("sig", "onEnded")
  /\ UNCHANGED <<dir, inReg, relayData, mediaVars, relayVars, signals, todo, held,
                 hasConn, history>>

SigStep == \/ HandleCallOffer \/ HandleCallAccept \/ AcceptWithRelay
           \/ AcceptWithoutRelay \/ SigEmit \/ TransportLook
           \/ TransportOverwrite \/ HandleCallTerminate
-----------------------------------------------------------------------------
(* AcceptCall, from doAccept or the auto-answer *)

AcceptRequest ==
  /\ "accept" \in Actors /\ Public /\ At("accept", "idle")
  /\ Goto("accept", IF inReg THEN "run" ELSE "done")
  /\ UNCHANGED <<callVars, mediaVars, relayVars, signals, todo, held, hasConn,
                 history>>

AcceptCall ==
  /\ At("accept", "run")
  /\ st' = After(st, "local_accepted")
  /\ Goto("accept", IF CanAccept(st) THEN "accepted" ELSE "done")
  /\ UNCHANGED <<dir, inReg, relayData, mediaVars, relayVars, signals, todo, held,
                 hasConn, history>>

\* The captured RelayData is read without m.mu, after the state is emitted.
AcceptDials ==
  /\ At("accept", "accepted")
  /\ Listener
  /\ todo' = [todo EXCEPT !["accept"] = relayData.eps]
  /\ Goto("accept", "dial")
  /\ UNCHANGED <<dir, st, relayData, mediaVars, relayVars, signals, held, hasConn,
                 history>>

(* RejectCall, from doReject: legal or not, the media goes *)

RejectRequest ==
  /\ "reject" \in Actors /\ Public /\ At("reject", "idle")
  /\ Goto("reject", IF inReg THEN "run" ELSE "drop")
  /\ UNCHANGED <<callVars, mediaVars, relayVars, signals, todo, held, hasConn,
                 history>>

RejectCall ==
  /\ At("reject", "run")
  /\ st' = After(st, "local_rejected")
  /\ Goto("reject", "cleanup")
  /\ UNCHANGED <<dir, inReg, relayData, mediaVars, relayVars, signals, todo, held,
                 hasConn, history>>
-----------------------------------------------------------------------------
(* EndCall, and the tail it shares with HandleCallTerminate and RejectCall *)

\* Mistake: doEndCall takes the call out of the registry before it ends it.
EndRequestRemoves(a) ==
  /\ a \in Actors \cap EndActors /\ At(a, "idle")
  /\ a # "drain" => Public
  /\ a = "drain" => inReg
  /\ inReg' = FALSE
  /\ Goto(a, IF inReg THEN "end" ELSE IF a = "hangup" THEN "drop" ELSE "done")
  /\ UNCHANGED <<dir, st, relayData, mediaVars, relayVars, signals, todo, held,
                 hasConn, history>>

\* doEndCall and OnTerminalICE look the call up; teardownAllCalls drains it.
EndRequest(a) ==
  /\ a \in Actors \cap EndActors /\ At(a, "idle")
  /\ a # "drain" => Public
  /\ a = "drain" => inReg
  /\ inReg' = (inReg /\ a # "drain")
  /\ Goto(a, IF inReg THEN "end" ELSE IF a = "hangup" THEN "drop" ELSE "done")
  /\ UNCHANGED <<dir, st, relayData, mediaVars, relayVars, signals, todo, held,
                 hasConn, history>>

\* Mistake: EndCall drops the error of ApplyTransition, as RejectCall does.
EndCallTwice(t) ==
  /\ At(t, "end")
  /\ st' = After(st, "terminated")
  /\ Goto(t, "onEnded")
  /\ UNCHANGED <<dir, inReg, relayData, mediaVars, relayVars, signals, todo, held,
                 hasConn, history>>

EndCall(t) ==
  /\ At(t, "end")
  /\ IF CanApply(st, "terminated")
       THEN st' = Target["terminated"] /\ Goto(t, "onEnded")
       ELSE UNCHANGED st /\ Goto(t, IF t = "hangup" THEN "drop" ELSE "done")
  /\ UNCHANGED <<dir, inReg, relayData, mediaVars, relayVars, signals, todo, held,
                 hasConn, history>>

\* Mistake: the tail of EndCall stops after onEnded.
OnEndedNoCleanup(t) ==
  /\ At(t, "onEnded")
  /\ inReg' = FALSE
  /\ notified' = notified \cup {t}
  /\ Goto(t, IF t = "sig" THEN "idle" ELSE "done")
  /\ UNCHANGED <<dir, st, relayData, mediaVars, relayVars, signals, todo, held,
                 hasConn, codecCloses, cleaned>>

\* emitState and onEnded: both remove the call from the registry.
OnEnded(t) ==
  /\ At(t, "onEnded")
  /\ inReg' = FALSE
  /\ notified' = notified \cup {t}
  /\ Goto(t, "cleanup")
  /\ UNCHANGED <<dir, st, relayData, mediaVars, relayVars, signals, todo, held,
                 hasConn, codecCloses, cleaned>>

\* Mistake: cleanupMedia leaves m.codec set.
CleanupMediaKeepsCodec(t) ==
  /\ At(t, "cleanup")
  /\ Listener
  /\ held' = [held EXCEPT ![t] = codec]
  /\ srtp' = FALSE /\ kaArmed' = FALSE
  /\ cleaned' = TRUE
  /\ Goto(t, "release")
  /\ UNCHANGED <<dir, st, codec, relayData, relayVars, signals, todo, hasConn,
                 codecCloses, notified>>

\* cleanupMedia, its critical section.
CleanupMedia(t) ==
  /\ At(t, "cleanup")
  /\ Listener
  /\ held' = [held EXCEPT ![t] = codec]
  /\ srtp' = FALSE /\ codec' = FALSE /\ kaArmed' = FALSE
  /\ cleaned' = TRUE
  /\ Goto(t, "release")
  /\ UNCHANGED <<dir, st, relayData, relayVars, signals, todo, hasConn, codecCloses,
                 notified>>

\* relay.Cleanup and codec.Close, outside the lock.
ReleaseMedia(t) ==
  /\ At(t, "release")
  /\ Pool!Clears
  /\ codecCloses' = codecCloses + (IF held[t] THEN 1 ELSE 0)
  /\ held' = [held EXCEPT ![t] = FALSE]
  /\ Goto(t, CASE t = "sig" -> "idle"
               [] t \in {"hangup", "reject"} -> "drop"
               [] OTHER -> "done")
  /\ UNCHANGED <<callVars, mediaVars, going, signals, todo, hasConn, notified,
                 cleaned>>

\* doEndCall and doReject remove the call whatever its state.
Drop(t) ==
  /\ At(t, "drop")
  /\ inReg' = FALSE
  /\ Goto(t, "done")
  /\ UNCHANGED <<dir, st, relayData, mediaVars, relayVars, signals, todo, held,
                 hasConn, history>>

EndSteps(t) ==
  EndCall(t) \/ OnEnded(t) \/ CleanupMedia(t) \/ ReleaseMedia(t) \/ Drop(t)

(* The silence-keepalive goroutine *)

\* keepaliveStop was closed; the goroutine may see the tick first.
KeepaliveStops ==
  /\ At("keepalive", "run") /\ ~kaArmed
  /\ Goto("keepalive", "done")
  /\ UNCHANGED <<callVars, mediaVars, relayVars, signals, todo, held, hasConn,
                 history>>

\* Mistake: after 12 s without a relay the goroutine just returns.
KeepaliveGivesUp ==
  /\ At("keepalive", "run") /\ ~HasConnection
  /\ Goto("keepalive", "done")
  /\ UNCHANGED <<callVars, mediaVars, relayVars, signals, todo, held, hasConn,
                 history>>

\* No relay for more than 12 s at a tick: EndCall(timeout), after the unlock.
KeepaliveExpires ==
  /\ At("keepalive", "run") /\ ~HasConnection
  /\ Goto("keepalive", "end")
  /\ UNCHANGED <<callVars, mediaVars, relayVars, signals, todo, held, hasConn,
                 history>>

Keepalive == KeepaliveStops \/ KeepaliveExpires
-----------------------------------------------------------------------------
\* What thread t does of its own accord once it has been started.
Internal(t) ==
  \/ t = "start" /\ StartStep
  \/ t = "ack" /\ (AckUseless \/ HandleCallAck)
  \/ t = "sig" /\ SigStep
  \/ t = "accept" /\ (AcceptCall \/ AcceptDials)
  \/ t = "reject" /\ RejectCall
  \/ t = "keepalive" /\ Keepalive
  \/ LookUp(t) \/ Dial(t) \/ Dialled(t)
  \/ EndSteps(t)

\* Operators, the peer and the network.
Environment ==
  \/ CreateCall \/ OfferArrives
  \/ \E step \in {"accepted", "transport", "terminate"} : PeerSends(step)
  \/ AcceptRequest \/ RejectRequest
  \/ \E a \in EndActors : EndRequest(a)
  \/ \E r \in Relays : RelayOpens(r) \/ RelayDrops(r)

Next ==
  \/ Environment
  \/ \E t \in Threads : Internal(t)
  \/ \E r \in Relays : OnRelayConnected(r)

\* A started goroutine or callback runs to its end; nobody has to call, answer
\* or hang up, and no relay has to open.
Fairness ==
  /\ \A t \in Threads : WF_vars(Internal(t))
  /\ \A r \in Relays : WF_vars(OnRelayConnected(r))

Spec == Init /\ [][Next]_vars

FairSpec == Spec /\ Fairness
-----------------------------------------------------------------------------
(* Properties *)

\* The native codec is destroyed at most once however many enders, rejections
\* and terminations run cleanupMedia, and never while m.codec still points to it
\* (the locked paths would encode into freed memory).
CodecClosedOnce ==
  /\ codecCloses <= 1
  /\ \A t \in Threads : held[t] => codecCloses = 0 /\ ~codec
  /\ \A t, u \in Threads : held[t] /\ held[u] => t = u
  /\ codec => codecCloses = 0

\* Once the media fields are cleared nothing brings codec or keepalive back,
\* although accepts, acks and relay callbacks of the dead call still arrive.
NoMediaAfterCleanup == cleaned => ~codec /\ ~kaArmed

\* A call that went active is supervised: the keepalive goroutine that ends it
\* when the relay is lost is running, unless the call has no codec or its media
\* was taken away.
ActiveIsSupervised ==
  st = "active" /\ CodecAvailable /\ ~cleaned =>
    /\ codec /\ kaArmed
    /\ pc["keepalive"] \in {"run", "end"}

\* An outgoing call never goes active before its SRTP session exists, whichever
\* of the ack, the accept and the relay callback comes last.
ActiveOutgoingIsKeyed ==
  st = "active" /\ dir = "outgoing" /\ ~cleaned => srtp

\* onEnded, which sends the NPS and follow-up automations, runs only for an ended
\* call, and only one of the threads that race in EndCall gets to run it: a
\* second run needs a terminate of the peer.
EndedNotifiedOnce ==
  /\ notified # {} => st = "ended"
  /\ \A t, u \in notified \ {"sig"} : t = u

\* A live call can be lost from the registry, out of reach of every operator and
\* of the peer's terminate, only through a failed offer, a rejection or a drain:
\* hanging up never does it.
OrphanedOnlyBy ==
  st \in LiveStates /\ ~inReg =>
    \/ At("start", "done") /\ st = "initiating"
    \/ At("reject", "done")
    \/ pc["drain"] # "idle"

\* The call only moves forward: no late stanza or callback brings it back to an
\* earlier phase, and an ended call stays ended.
Phase(s) ==
  CASE s = "none" -> 0
    [] s = "initiating" -> 1
    [] s \in {"ringing", "incoming_ringing"} -> 2
    [] s = "connecting" -> 3
    [] s \in {"active", "on_hold"} -> 4
    [] s = "ended" -> 5

ForwardOnly == [][Phase(st') >= Phase(st)]_vars

\* Activation is not lost: a call that is connecting while a relay stays open
\* becomes active or ends, although the relay may have opened before the accept,
\* when its callback had nothing to activate.
ActivationNotLost ==
  \A r \in Relays :
    (st = "connecting" /\ conn[r] = "open")
      ~> (st # "connecting" \/ conn[r] # "open")

\* A supervised active call whose relays are gone ends, unless a relay comes
\* back or a rejection takes its media.
LostCallEnds ==
  (st = "active" /\ pc["keepalive"] = "run" /\ ~HasConnection)
    ~> (st = "ended" \/ HasConnection \/ cleaned)

\* Every call that ends gets its media released for good.
EndedIsReleased == (st = "ended") ~> [](cleaned /\ ~codec /\ ~kaArmed)

-----------------------------------------------------------------------------
(* An inductive invariant: what the properties rest on *)

\* Before the CallInfo exists nobody but the creator, and a drain, has the call.
Fresh ==
  st = "none" =>
    /\ ~codec /\ ~kaArmed /\ ~cleaned
    /\ codecCloses = 0 /\ notified = {} /\ \A t \in Threads : ~held[t]
    /\ pc["start"] \in {"idle", "run"} /\ pc["sig"] \in {"idle", "offer"}
    /\ pc["ack"] = "off" /\ pc["keepalive"] = "off"
    /\ pc["drain"] \in {"idle", "end", "done"}
    /\ \A t \in {"hangup", "ice", "accept", "reject"} : pc[t] = "idle"

\* The CallInfo is built once: by StartCall for an outgoing call, by
\* HandleCallOffer for an incoming one.
Creation ==
  /\ dir = "outgoing" => /\ pc["sig"] # "offer" /\ st # "incoming_ringing"
                         /\ pc["start"] = "idle" => st = "none"
                         /\ pc["start"] # "done" => pc["sig"] = "idle"
  /\ dir = "incoming" => pc["start"] = "idle" /\ st # "initiating"
  /\ pc["start"] = "run" \/ pc["sig"] = "offer"
       => st = "none" /\ (inReg \/ pc["drain"] # "idle")
  /\ pc["start"] = "offer" => st \in {"initiating", "ended"}

\* The media exists from the creation to the first cleanup, and the keepalive
\* goroutine runs while it is armed.
Supervision ==
  /\ st # "none" /\ ~cleaned => codec = CodecAvailable
  /\ kaArmed /\ st # "ended" => pc["keepalive"] \in {"run", "end"}
  /\ st = "active" /\ codec => kaArmed
  /\ st # "on_hold"

\* A codec on its way to Close was taken by a cleanup.
Holding == \A t \in Threads : held[t] => cleaned

\* An outgoing call leaves "ringing" only through HandleCallAccept, which keys it.
Keyed ==
  /\ dir = "outgoing" /\ st \in {"connecting", "active"} /\ ~cleaned => srtp
  /\ st = "ringing" => dir = "outgoing" /\ pc["sig"] # "media"

\* Only the thread whose EndCall made the transition is on its way to onEnded.
Ending ==
  /\ \A t \in Threads : pc[t] = "onEnded" => st = "ended"
  /\ \A t, u \in Threads \ {"sig"} :
       /\ pc[t] = "onEnded" \/ t \in notified
       /\ pc[u] = "onEnded" \/ u \in notified
       => t = u

\* doEndCall removes the call after EndCall, or because it was gone already.
Dropping ==
  /\ pc["hangup"] = "drop" => st \notin LiveStates \/ ~inReg
  /\ pc["hangup"] \in {"cleanup", "release"} => st = "ended"
  /\ \A t \in Threads \ {"hangup", "reject"} : pc[t] # "drop"

IInv == /\ TypeOK /\ Fresh /\ Creation /\ Supervision /\ Holding /\ Keyed
        /\ Ending /\ Dropping
        /\ CodecClosedOnce /\ NoMediaAfterCleanup /\ EndedNotifiedOnce
        /\ OrphanedOnlyBy
-----------------------------------------------------------------------------
\* The threads, stanzas and relays together implement the life cycle the session
\* relies on: the state goes through the phases in order, the codec and the
\* keepalive are the media it holds, and onEnded tells it of the end.
Lifecycle ==
  INSTANCE CallLifecycle WITH
    phase  <- CASE st = "none"       -> "none"
                [] st = "connecting" -> "answered"
                [] st \in {"active", "on_hold"} -> "active"
                [] st = "ended"      -> "over"
                [] OTHER             -> "setup",
    media  <- IF codec \/ kaArmed THEN "held"
              ELSE IF cleaned THEN "released" ELSE "none",
    closed <- codecCloses > 0,
    told   <- notified # {}

ImplementsLifecycle == Lifecycle!Spec
=============================================================================

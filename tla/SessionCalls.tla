----------------------------- MODULE SessionCalls -----------------------------
(***************************************************************************)
(* The calls of one session: cmd/server/session.go, the callRegistry, the  *)
(* Broker's call records and the HTTP handlers that start, accept, reject  *)
(* and end a call or attach a browser to it, all running concurrently with *)
(* the whatsmeow event goroutine, relay callbacks and ICE callbacks.       *)
(*                                                                         *)
(* A thread holds a job: a call and the step it is at.  One step is one    *)
(* critical section of the registry, of the Broker or of the CallManager.  *)
(* Of a CallManager only the state of its call is kept (CallManager has    *)
(* the rest); emitState runs the session's listener, whose check, read and *)
(* upsert are separate steps, as in the code.                              *)
(***************************************************************************)
EXTENDS CallState, Naturals, FiniteSets

CONSTANTS OutCalls, InCalls,  \* calls the session places and receives
          Operators,          \* X-Client-Id of the browsers
          Server,             \* serverOwnerID, the auto-answering agent
          NoOne,              \* a nil Owner
          Bridges, NoBridge,  \* browser bridges, one per doWebRTC request
          Workers, Sig,       \* HTTP and callback goroutines; event goroutine
          NoCall,
          MaxCalls,           \* maxCalls, at least 1 (0 means no limit)
          Requests            \* the kinds of requests that reach the session

RequestKinds == {"start", "accept", "auto", "webrtc", "end", "reject", "ice",
                 "timeout", "drain"}

Calls == OutCalls \cup InCalls
Threads == Workers \cup {Sig}
Owners == Operators \cup {Server, NoOne}

ASSUME SessionAssumption ==
  /\ OutCalls \cap InCalls = {} /\ NoCall \notin Calls
  /\ Server \notin Operators /\ NoOne \notin Operators \cup {Server}
  /\ NoBridge \notin Bridges
  /\ Sig \notin Workers
  /\ MaxCalls \in Nat \ {0}
  /\ Requests \subseteq RequestKinds

VARIABLES
  st,       \* state of each CallManager's call, "none" before it has one
  reg,      \* callRegistry.calls
  entry,    \* activeCall.bridge, NoBridge while nil
  rec,      \* Broker.calls: owner and status, status "none" when absent
  filed,    \* calls with a row in Broker.history
  bridge,   \* state of each browser bridge
  of,       \* the call a bridge was made for
  autoDue,  \* calls an auto-answer goroutine sleeps on
  batch,    \* calls teardownAllCalls drained and has yet to end
  job,      \* what each thread is doing
  lost,     \* history: live calls that a late rejection or an early drain let go
  late      \* history: calls whose record was inserted after the end

callVars   == <<st, reg, entry>>
recVars    == <<rec, filed, late>>
bridgeVars == <<bridge, of>>
drainVars  == <<autoDue, batch, lost>>
vars == <<callVars, recVars, bridgeVars, drainVars, job>>

Statuses == {"starting", "ringing", "connected", "ended"}
NoRecord == [owner |-> NoOne, status |-> "none"]
Record   == [owner : Owners, status : Statuses] \cup {NoRecord}

Steps == {"idle", "create", "created", "incoming", "emit", "read", "put", "forget",
          "row", "publish", "abandon", "auto", "own", "answer", "end", "attach",
          "drain", "drained"}

Job == [step : Steps, call : Calls \cup {NoCall}, who : Owners,
        seen : Record, rounds : 0..3, then : Steps, bridge : Bridges \cup {NoBridge}]

Idle == [step |-> "idle", call |-> NoCall, who |-> NoOne, seen |-> NoRecord,
         rounds |-> 0, then |-> "idle", bridge |-> NoBridge]

TypeOK ==
  /\ st \in [Calls -> CallStates \cup {"none"}]
  /\ reg \subseteq Calls
  /\ entry \in [Calls -> Bridges \cup {NoBridge}]
  /\ rec \in [Calls -> Record]
  /\ filed \subseteq Calls
  /\ bridge \in [Bridges -> {"new", "made", "attached", "closed"}]
  /\ of \in [Bridges -> Calls \cup {NoCall}]
  /\ autoDue \subseteq InCalls /\ batch \subseteq Calls
  /\ job \in [Threads -> Job]
  /\ lost \subseteq Calls /\ late \subseteq Calls
  /\ \A t \in Threads : job[t].step # "idle" /\ job[t].step # "drain"
                          => job[t].call \in Calls

Init ==
  /\ st = [c \in Calls |-> "none"] /\ reg = {}
  /\ entry = [c \in Calls |-> NoBridge]
  /\ rec = [c \in Calls |-> NoRecord] /\ filed = {}
  /\ bridge = [b \in Bridges |-> "new"] /\ of = [b \in Bridges |-> NoCall]
  /\ autoDue = {} /\ batch = {}
  /\ job = [t \in Threads |-> Idle]
  /\ lost = {} /\ late = {}
-----------------------------------------------------------------------------
At(t, step) == job[t].step = step

Goto(t, step) == job' = [job EXCEPT ![t].step = step]

Finish(t) == job' = [job EXCEPT ![t] = Idle]

\* An idle thread takes up call c at the given step.
Begin(t, c, step, fields) ==
  /\ At(t, "idle")
  /\ job' = [job EXCEPT ![t] = [fields EXCEPT !.call = c, !.step = step]]

\* After its listeners a thread has the removals of onEnded and of the handler
\* ahead, then whatever the caller does next.
Onward(t, rounds) ==
  LET step == IF rounds > 0 THEN "forget" ELSE job[t].then IN
  IF step = "idle"
    THEN Finish(t)
    ELSE job' = [job EXCEPT ![t].step = step, ![t].rounds = rounds,
                            ![t].seen = NoRecord]

\* The browsers know a call from the records broadcast to them.
Known(c) == rec[c] # NoRecord \/ c \in filed

mapStatus(s) ==
  CASE s = "active"     -> "connected"
    [] s = "ended"      -> "ended"
    [] s = "initiating" -> "starting"
    [] OTHER            -> "ringing"

\* Broker.upsertCall
Upsert(c, r) ==
  /\ rec' = [rec EXCEPT ![c] = r]
  /\ late' = IF st[c] = "ended" THEN late \cup {c} ELSE late
  /\ UNCHANGED filed

CloseBridge(b) == [x \in Bridges |-> IF x = b THEN "closed" ELSE bridge[x]]
-----------------------------------------------------------------------------
(* Starting a call: doStartCall and startOutgoing *)

\* The capacity check, made before the call exists; a full session answers 429.
StartRequest(t, o, c) ==
  /\ "start" \in Requests
  /\ c \in OutCalls /\ st[c] = "none" /\ \A u \in Threads : job[u].call # c
  /\ c \notin reg \cup batch
  /\ Cardinality(reg) < MaxCalls
  /\ Begin(t, c, "create", [Idle EXCEPT !.who = o, !.then = "publish"])
  /\ UNCHANGED <<callVars, recVars, bridgeVars, drainVars>>

\* Session.createCall
CreateCall(t) ==
  /\ At(t, "create")
  /\ reg' = reg \cup {job[t].call}
  /\ Goto(t, "created")
  /\ UNCHANGED <<st, entry, recVars, bridgeVars, drainVars>>

\* CallManager.StartCall, up to emitState; it may fail to build the offer.
StartCall(t) ==
  /\ At(t, "created") /\ job[t].call \in OutCalls
  /\ \/ st' = [st EXCEPT ![job[t].call] = "ringing"] /\ Goto(t, "emit")
     \/ st' = [st EXCEPT ![job[t].call] = "initiating"] /\ Goto(t, "abandon")
  /\ UNCHANGED <<reg, entry, recVars, bridgeVars, drainVars>>

\* The record gets its owner, whatever became of the call meanwhile.
Publish(t) ==
  /\ At(t, "publish")
  /\ Upsert(job[t].call, [owner |-> job[t].who, status |-> "ringing"])
  /\ Finish(t)
  /\ UNCHANGED <<callVars, bridgeVars, drainVars>>
-----------------------------------------------------------------------------
(* emitState: the listener of wireCall *)

Emit(t) ==
  LET c == job[t].call IN
  /\ At(t, "emit")
  /\ IF st[c] = "ended"
       THEN Onward(t, job[t].rounds + 1)
       ELSE job' = [job EXCEPT ![t].step = "read", ![t].seen = rec[c]]
  /\ UNCHANGED <<callVars, recVars, bridgeVars, drainVars>>

\* The state is read again for the new record.
ReadState(t) ==
  /\ At(t, "read")
  /\ job' = [job EXCEPT ![t].step = "put",
                        ![t].seen.status = mapStatus(st[job[t].call])]
  /\ UNCHANGED <<callVars, recVars, bridgeVars, drainVars>>

Put(t) ==
  /\ At(t, "put")
  /\ Upsert(job[t].call, job[t].seen)
  /\ Onward(t, job[t].rounds)
  /\ UNCHANGED <<callVars, bridgeVars, drainVars>>

\* Session.removeCall: out of the registry first, then the bridge is closed.
Remove(c) ==
  /\ reg' = reg \ {c}
  /\ bridge' = IF c \in reg THEN CloseBridge(entry[c]) ELSE bridge

Forget(t) ==
  /\ At(t, "forget")
  /\ Remove(job[t].call)
  /\ Goto(t, "row")
  /\ UNCHANGED <<st, entry, recVars, of, drainVars>>

\* Mistake: the call is marked ended and filed, but stays in the list.
EndRecordKeeps(t) ==
  LET c == job[t].call IN
  /\ At(t, "row")
  /\ rec' = IF rec[c] # NoRecord THEN [rec EXCEPT ![c].status = "ended"] ELSE rec
  /\ filed' = IF rec[c] # NoRecord THEN filed \cup {c} ELSE filed
  /\ Onward(t, job[t].rounds - 1)
  /\ UNCHANGED <<late, callVars, bridgeVars, drainVars>>

\* Broker.endCall: the record, if there is one, becomes a row of the history.
EndRecord(t) ==
  LET c == job[t].call IN
  /\ At(t, "row")
  /\ rec' = [rec EXCEPT ![c] = NoRecord]
  /\ filed' = IF rec[c] # NoRecord THEN filed \cup {c} ELSE filed
  /\ Onward(t, job[t].rounds - 1)
  /\ UNCHANGED <<late, callVars, bridgeVars, drainVars>>

\* startOutgoing removes a call whose offer could not be built.
Abandon(t) ==
  /\ At(t, "abandon")
  /\ Remove(job[t].call)
  /\ Finish(t)
  /\ UNCHANGED <<st, entry, recVars, of, drainVars>>
-----------------------------------------------------------------------------
(* The whatsmeow event goroutine: onIncomingOffer and handleEvent *)

\* The capacity check of the offer; a full session rejects the call.
OfferArrives(c) ==
  /\ c \in InCalls \ (reg \cup batch) /\ st[c] = "none"
  /\ Cardinality(reg) < MaxCalls
  /\ Begin(Sig, c, "create", [Idle EXCEPT !.then = "auto"])
  /\ UNCHANGED <<callVars, recVars, bridgeVars, drainVars>>

HandleCallOffer(t) ==
  /\ At(t, "created") /\ job[t].call \in InCalls
  /\ st' = [st EXCEPT ![job[t].call] = "incoming_ringing"]
  /\ Goto(t, "incoming")
  /\ UNCHANGED <<reg, entry, recVars, bridgeVars, drainVars>>

\* onIncoming inserts the record and rings the browsers.
OnIncoming(t) ==
  /\ At(t, "incoming")
  /\ Upsert(job[t].call, [owner |-> NoOne, status |-> "ringing"])
  /\ Goto(t, "emit")
  /\ UNCHANGED <<callVars, bridgeVars, drainVars>>

\* The offer is handled; auto-answer starts a goroutine, which may sleep first.
OfferHandled(t) ==
  /\ At(t, "auto")
  /\ autoDue' = IF "auto" \in Requests THEN autoDue \cup {job[t].call} ELSE autoDue
  /\ Finish(t)
  /\ UNCHANGED <<callVars, recVars, bridgeVars, batch, lost>>

\* HandleCallAccept emits the state whether or not the transition was legal.
PeerAccepts(c) ==
  /\ c \in OutCalls \cap reg /\ st[c] \notin {"none", "initiating"}
  /\ st' = [st EXCEPT ![c] = After(@, "remote_accepted")]
  /\ Begin(Sig, c, "emit", Idle)
  /\ UNCHANGED <<reg, entry, recVars, bridgeVars, drainVars>>

\* HandleCallTerminate: the listener, then onEnded.
PeerTerminates(c) ==
  /\ c \in reg /\ st[c] \notin {"none", "initiating"}
  /\ st' = [st EXCEPT ![c] = After(@, "terminated")]
  /\ Begin(Sig, c, "emit", [Idle EXCEPT !.rounds = 1])
  /\ UNCHANGED <<reg, entry, recVars, bridgeVars, drainVars>>
-----------------------------------------------------------------------------
(* Answering: doAccept and the auto-answer goroutine *)

\* The call exists and the operator is on no other call (ownerActiveCall).
AcceptRequest(t, o, c) ==
  /\ "accept" \in Requests /\ c \in reg /\ Known(c)
  /\ \A d \in Calls \ {c} : rec[d].owner # o \/ rec[d].status \in {"none", "ended"}
  /\ Begin(t, c, "own", [Idle EXCEPT !.who = o])
  /\ UNCHANGED <<callVars, recVars, bridgeVars, drainVars>>

\* The goroutine wakes; after a delay it checks that the call still rings for
\* nobody else, without a delay it checks nothing.
AutoAnswerWakes(t, c, delayed) ==
  /\ c \in autoDue /\ At(t, "idle")
  /\ autoDue' = autoDue \ {c}
  /\ IF delayed /\ ~(/\ c \in reg /\ st[c] = "incoming_ringing"
                     /\ rec[c].owner \in {NoOne, Server})
       THEN UNCHANGED job
       ELSE Begin(t, c, "own", [Idle EXCEPT !.who = Server])
  /\ UNCHANGED <<callVars, recVars, bridgeVars, batch, lost>>

\* Broker.setOwner; the auto-answer ignores its result.
SetOwner(t) ==
  LET c == job[t].call  o == job[t].who
      free == rec[c] # NoRecord /\ rec[c].owner \in {NoOne, o} IN
  /\ At(t, "own")
  /\ rec' = IF free THEN [rec EXCEPT ![c].owner = o] ELSE rec
  /\ IF free \/ o = Server THEN Goto(t, "answer") ELSE Finish(t)
  /\ UNCHANGED <<filed, late, callVars, bridgeVars, drainVars>>

\* CallManager.AcceptCall; when it fails the owner stays set.
AcceptCall(t) ==
  LET c == job[t].call IN
  /\ At(t, "answer")
  /\ st' = [st EXCEPT ![c] = After(@, "local_accepted")]
  /\ IF CanAccept(st[c])
       THEN job' = [job EXCEPT ![t].step = "emit", ![t].who = NoOne]
       ELSE Finish(t)
  /\ UNCHANGED <<reg, entry, recVars, bridgeVars, drainVars>>

\* onRelayConnected
RelayConnects(t, c) ==
  /\ st[c] = "connecting"
  /\ st' = [st EXCEPT ![c] = "active"]
  /\ Begin(t, c, "emit", Idle)
  /\ UNCHANGED <<reg, entry, recVars, bridgeVars, drainVars>>
-----------------------------------------------------------------------------
(* Ending: doEndCall, doReject, OnTerminalICE, the keepalive, teardownAllCalls *)

\* Mistake: doEndCall removes and files the call without ending it.
EndRequestNoEnd(t, c) ==
  /\ "end" \in Requests /\ Known(c)
  /\ Begin(t, c, "forget", [Idle EXCEPT !.rounds = 1])
  /\ UNCHANGED <<callVars, recVars, bridgeVars, drainVars>>

\* After EndCall (emitState and onEnded) doEndCall removes the call once more.
EndRequest(t, c) ==
  /\ "end" \in Requests /\ Known(c)
  /\ IF c \in reg THEN Begin(t, c, "end", [Idle EXCEPT !.rounds = 2])
     ELSE Begin(t, c, "forget", [Idle EXCEPT !.rounds = 1])
  /\ UNCHANGED <<callVars, recVars, bridgeVars, drainVars>>

\* RejectCall emits the state, legal transition or not, and has no onEnded.
RejectRequest(t, c) ==
  /\ "reject" \in Requests /\ Known(c)
  /\ lost' = IF c \in reg /\ After(st[c], "local_rejected") # "ended"
               THEN lost \cup {c} ELSE lost
  /\ IF c \in reg
       THEN /\ st' = [st EXCEPT ![c] = After(@, "local_rejected")]
            /\ Begin(t, c, "emit", [Idle EXCEPT !.rounds = 1])
       ELSE /\ UNCHANGED st
            /\ Begin(t, c, "forget", [Idle EXCEPT !.rounds = 1])
  /\ UNCHANGED <<reg, entry, recVars, bridgeVars, autoDue, batch>>

\* The browser's ICE failed or the bridge was closed: terminateCall.
OnTerminalICE(t, b) ==
  /\ "ice" \in Requests
  /\ bridge[b] \in {"attached", "closed"} /\ of[b] \in reg
  /\ Begin(t, of[b], "end", [Idle EXCEPT !.rounds = 1])
  /\ UNCHANGED <<callVars, recVars, bridgeVars, drainVars>>

\* The keepalive goroutine of an active call gives up on the relay.
KeepaliveExpires(t, c) ==
  /\ "timeout" \in Requests /\ st[c] = "active"
  /\ Begin(t, c, "end", [Idle EXCEPT !.rounds = 1])
  /\ UNCHANGED <<callVars, recVars, bridgeVars, drainVars>>

\* CallManager.EndCall: a call that does not exist yet or has ended is left alone.
EndCall(t) ==
  LET c == job[t].call IN
  /\ At(t, "end")
  /\ IF CanApply(st[c], "terminated")
       THEN st' = [st EXCEPT ![c] = "ended"] /\ Goto(t, "emit")
       ELSE UNCHANGED st /\ Onward(t, job[t].rounds - 1)
  /\ lost' = IF st[c] = "none" THEN lost \cup {c} ELSE lost
  /\ UNCHANGED <<reg, entry, recVars, bridgeVars, autoDue, batch>>

\* teardownAllCalls: drain the registry, then one call after the other.
Drain(t) ==
  /\ "drain" \in Requests /\ reg # {} /\ batch = {} /\ \A u \in Threads : ~At(u, "drain")
  /\ At(t, "idle") /\ t \in Workers
  /\ batch' = reg /\ reg' = {}
  /\ Goto(t, "drain")
  /\ UNCHANGED <<st, entry, recVars, bridgeVars, autoDue, lost>>

DrainNext(t) ==
  /\ At(t, "drain")
  /\ \/ batch = {} /\ Finish(t)
     \/ \E c \in batch :
          job' = [job EXCEPT ![t] = [Idle EXCEPT !.step = "end", !.call = c,
                                     !.rounds = 1, !.then = "drained"]]
  /\ UNCHANGED <<callVars, recVars, bridgeVars, drainVars>>

Drained(t) ==
  LET c == job[t].call IN
  /\ At(t, "drained")
  /\ bridge' = CloseBridge(entry[c])
  /\ batch' = batch \ {c}
  /\ job' = [job EXCEPT ![t] = [Idle EXCEPT !.step = "drain"]]
  /\ UNCHANGED <<callVars, recVars, of, autoDue, lost>>
-----------------------------------------------------------------------------
(* Browser audio: doWebRTC *)

WebRTCRequest(t, c, b) ==
  /\ "webrtc" \in Requests /\ c \in reg /\ Known(c) /\ bridge[b] = "new"
  /\ bridge' = [bridge EXCEPT ![b] = "made"]
  /\ of' = [of EXCEPT ![b] = c]
  /\ Begin(t, c, "attach", [Idle EXCEPT !.bridge = b])
  /\ UNCHANGED <<callVars, recVars, drainVars>>

\* Mistake: the bridge of an earlier attachment is forgotten.
SetBridgeKeepsOld(t) ==
  LET c == job[t].call  b == job[t].bridge IN
  /\ At(t, "attach")
  /\ IF c \in reg
       THEN /\ entry' = [entry EXCEPT ![c] = b]
            /\ bridge' = [bridge EXCEPT ![b] = "attached"]
       ELSE /\ UNCHANGED entry
            /\ bridge' = CloseBridge(b)
  /\ Finish(t)
  /\ UNCHANGED <<st, reg, recVars, of, drainVars>>

\* Mistake: setBridge does not look whether it found the call.
SetBridgeTooLate(t) ==
  LET c == job[t].call  b == job[t].bridge  old == entry[c] IN
  /\ At(t, "attach")
  /\ IF c \in reg
       THEN /\ entry' = [entry EXCEPT ![c] = b]
            /\ bridge' = [CloseBridge(old) EXCEPT ![b] = "attached"]
       ELSE UNCHANGED <<entry, bridge>>
  /\ Finish(t)
  /\ UNCHANGED <<st, reg, recVars, of, drainVars>>

\* Session.setBridge: the bridge it replaces is closed, or the new one if the
\* call went away while the SDP answer was built.
SetBridge(t) ==
  LET c == job[t].call  b == job[t].bridge  old == entry[c] IN
  /\ At(t, "attach")
  /\ IF c \in reg
       THEN /\ entry' = [entry EXCEPT ![c] = b]
            /\ bridge' = [CloseBridge(old) EXCEPT ![b] = "attached"]
       ELSE /\ UNCHANGED entry
            /\ bridge' = CloseBridge(b)
  /\ Finish(t)
  /\ UNCHANGED <<st, reg, recVars, of, drainVars>>
-----------------------------------------------------------------------------
\* What a thread does once it has taken up a call.
Internal(t) ==
  \/ CreateCall(t) \/ StartCall(t) \/ Publish(t) \/ Abandon(t)
  \/ Emit(t) \/ ReadState(t) \/ Put(t) \/ Forget(t) \/ EndRecord(t)
  \/ HandleCallOffer(t) \/ OnIncoming(t) \/ OfferHandled(t)
  \/ SetOwner(t) \/ AcceptCall(t) \/ EndCall(t)
  \/ DrainNext(t) \/ Drained(t) \/ SetBridge(t)

\* Requests, stanzas and callbacks that reach the session.
Environment ==
  \/ \E c \in Calls : OfferArrives(c) \/ PeerAccepts(c) \/ PeerTerminates(c)
  \/ \E t \in Workers :
       \/ \E c \in Calls :
            \/ \E o \in Operators :
                 StartRequest(t, o, c) \/ AcceptRequest(t, o, c)
            \/ \E delayed \in BOOLEAN : AutoAnswerWakes(t, c, delayed)
            \/ RelayConnects(t, c) \/ EndRequest(t, c) \/ RejectRequest(t, c)
            \/ KeepaliveExpires(t, c)
            \/ \E b \in Bridges : WebRTCRequest(t, c, b)
       \/ \E b \in Bridges : OnTerminalICE(t, b)
       \/ Drain(t)

Next == Environment \/ \E t \in Threads : Internal(t)

Spec == Init /\ [][Next]_vars

\* A goroutine that has started runs to its end; nobody has to call.
FairSpec == Spec /\ \A t \in Threads : WF_vars(Internal(t))
-----------------------------------------------------------------------------
(* Properties *)

\* A bridge that was attached to a call is closed with it: it is always within
\* reach of the registry entry of a call that is there or is being torn down.
NoBridgeLeak ==
  \A b \in Bridges : bridge[b] = "attached" =>
    entry[of[b]] = b /\ of[b] \in reg \cup batch

\* A row of the history is the row of a call that is over: only a call that was
\* rejected too late, or drained before it was set up, is filed while it lives,
\* and one that teardownAllCalls is about to end.
HistoryIsOver ==
  \A c \in Calls : c \in filed /\ st[c] # "ended" => c \in lost \cup batch

\* The parts that make the two inductive.  A call that is over: it has ended, or
\* was let go by a late rejection or an early drain (Settled), or teardownAllCalls
\* holds it.
Settled(c) == st[c] = "ended" \/ c \in lost
Over(c) == Settled(c) \/ c \in batch

\* Nobody but who is making the call knows of it.
Quiet(c) ==
  /\ st[c] \in {"none", "initiating"}
  /\ ~Known(c) /\ c \notin autoDue /\ \A b \in Bridges : of[b] # c
  /\ \A t \in Threads : job[t].call = c
                         => job[t].step \in {"create", "created", "abandon"}

\* A call without a set-up CallManager, or out of the registry, is quiet or over.
Unheard ==
  \A c \in Calls : st[c] \in {"none", "initiating"} \/ c \notin reg
                   => Over(c) \/ Quiet(c)

\* One thread makes a call, which has no state until then.
Creation ==
  /\ \A t \in Threads :
       job[t].step \in {"create", "created"} =>
         /\ st[job[t].call] = "none"
         /\ job[t].call \in InCalls => t = Sig
         /\ \A u \in Threads : job[u].step \in {"create", "created"}
                                /\ job[u].call = job[t].call => u = t
  /\ \A t \in Threads : At(t, "created") => job[t].call \in reg \/ Over(job[t].call)
  /\ \A t \in Threads :
       At(t, "auto") \/ job[t].then = "auto" => job[t].call \in InCalls
  /\ \A t \in Threads :
       At(t, "abandon") => st[job[t].call] = "initiating" \/ Over(job[t].call)

\* Removals are ahead only of a thread whose call is over.
Rounds ==
  \A t \in Threads :
    /\ job[t].then \in {"idle", "publish", "auto", "drained"}
    /\ job[t].step \in {"idle", "drain", "create", "created", "incoming",
                           "own", "answer"}
         => job[t].rounds = 0 /\ job[t].then # "drained"
    /\ job[t].step \in {"end", "forget", "row"} => job[t].rounds > 0
    /\ job[t].step \in {"end", "emit", "read", "put"} => job[t].rounds <= 2
    /\ job[t].step \in {"emit", "read", "put", "forget", "row"} /\ job[t].rounds > 0
         => Over(job[t].call)

\* A call that teardownAllCalls has ended is settled before it leaves the batch.
Draining ==
  \A t \in Threads :
    At(t, "drained") \/ (job[t].then = "drained" /\ ~At(t, "end"))
      => Settled(job[t].call)

\* doWebRTC attaches the bridge it made, to the call it made it for.
Attaching ==
  \A t \in Threads : At(t, "attach") =>
    /\ job[t].bridge \in Bridges /\ of[job[t].bridge] = job[t].call
    /\ bridge[job[t].bridge] # "new"

IInv == TypeOK /\ Unheard /\ Creation /\ Rounds /\ Draining /\ Attaching
        /\ NoBridgeLeak /\ HistoryIsOver

\* maxCalls bounds the calls a session has at a time.
SessionCapRespected == Cardinality(reg) <= MaxCalls

\* An owner that was set on a live record stays: no concurrent update of the
\* record loses it.
OwnerKept ==
  [][\A c \in Calls : rec[c].owner # NoOne /\ rec'[c] # NoRecord
       => rec'[c].owner = rec[c].owner]_vars

\* A call that ends, whichever of its enders ran, leaves the registry, which frees
\* its place in the capacity, and its record goes to the history, unless a
\* listener or the start handler, late, puts it back.
EndedLeaves ==
  \A c \in Calls :
    (st[c] = "ended") ~> (c \notin reg /\ (rec[c] = NoRecord \/ c \in late))

\* Every bridge made for a call that ends is closed, even one whose SDP answer
\* came after the end.
BridgesClose ==
  \A b \in Bridges : \A c \in Calls :
    (of[b] = c /\ st[c] = "ended") ~> (bridge[b] = "closed")
=============================================================================

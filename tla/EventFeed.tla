------------------------------- MODULE EventFeed -------------------------------
(***************************************************************************)
(* What the browsers know of the calls: the events Broker broadcasts       *)
(* (broker.go), the stream each browser reads them from (serveSSE,         *)
(* event-stream.ts) and the store that applies them (stores/calls.ts),     *)
(* with the hook that answers a call (useAcceptCall.ts).                   *)
(*                                                                         *)
(* A record is written under the broker's lock and told to the browsers    *)
(* after it, in several broadcasts: the list of all calls, taken under the *)
(* lock once more, and an event of the one call.  A subscriber's channel   *)
(* is of limited size and a broadcast that finds it full passes it by.     *)
(*                                                                         *)
(* A record is its status; the owner is kept apart.  Peers, times, session *)
(* lists, QR codes and transcripts are data that travel the same way.      *)
(***************************************************************************)
EXTENDS Naturals, Sequences, Functions

CONSTANTS Ids, NoId,   \* call ids; a null incoming
          Browsers,    \* tabs, each with a client id
          Other,       \* any other operator, or serverOwnerID
          NoOwner,     \* a nil Owner
          Writers,     \* goroutines that write records
          Capacity,    \* of a subscriber's channel, 32 in the code
          MaxRevs      \* bound on the changes of the records, together

ASSUME FeedAssumption ==
  /\ NoId \notin Ids /\ Browsers \cap (Writers \cup {Other, NoOwner}) = {}
  /\ Capacity \in Nat \ {0} /\ MaxRevs \in Nat

VARIABLES
  calls,     \* Broker.calls: each record's status
  owner,     \* ... and owner
  rev,       \* history: how often each record has changed
  thread,    \* what each goroutine has yet to broadcast: the record it has
             \* changed, as it was then, and the list it has taken
  conn,      \* each browser's EventSource: none, a ticket, or open
  queue,     \* the channel of its subscriber
  shown,     \* useCalls.calls of each browser
  incoming,  \* useCalls.incoming
  own,       \* useCalls.ownConnections: calls its microphone is open for
  hook,      \* the answering hook: step, call, and whether its end was applied
  sent,      \* history: the latest change of each record told
  overtaken, \* history: records last told of in an older state than before
  lateRing,  \* history: calls whose end or claim was broadcast before their ring
  missed,    \* history: records each browser was not told the latest of
  unheard,   \* history: calls whose end or claim did not reach the browser
  lateMic    \* history: calls whose connection was registered after their end

serverVars == <<calls, owner, rev, thread>>
storeVars  == <<shown, incoming, own, hook, lateMic>>
toldVars   == <<sent, overtaken, lateRing, missed, unheard>>
feedVars   == <<serverVars, conn, queue, storeVars, toldVars>>

Statuses == {"none", "ringing", "connected"}
Threads == Writers \cup Browsers
NoCalls == [c \in Ids |-> "none"]
NoHook == [step |-> "idle", id |-> NoId, over |-> FALSE]
Silent == [todo |-> <<>>, id |-> NoId, status |-> "none", rev |-> 0,
           list |-> NoCalls, revs |-> [c \in Ids |-> 0]]

Event == [kind : {"list", "status", "ended", "incoming", "claimed"},
          id : Ids \cup {NoId}, list : [Ids -> Statuses]]
Tasks == {"list", "send", "status", "ring", "ended", "claimed"}

FeedTypeOK ==
  /\ calls \in [Ids -> Statuses] /\ owner \in [Ids -> Browsers \cup {Other, NoOwner}]
  /\ rev \in [Ids -> Nat]
  /\ thread \in [Threads -> [todo : Seq(Tasks), id : Ids \cup {NoId},
                             status : Statuses, rev : Nat,
                             list : [Ids -> Statuses], revs : [Ids -> Nat]]]
  /\ conn \in [Browsers -> {"off", "ticket", "open"}]
  /\ queue \in [Browsers -> Seq(Event)]
  /\ \A b \in Browsers : Len(queue[b]) <= Capacity /\ (conn[b] # "open" => queue[b] = <<>>)
  /\ shown \in [Browsers -> [Ids -> Statuses]]
  /\ incoming \in [Browsers -> Ids \cup {NoId}]
  /\ own \in [Browsers -> SUBSET Ids]
  /\ hook \in [Browsers -> [step : {"idle", "claim", "claimed", "media", "register"},
                            id : Ids \cup {NoId}, over : BOOLEAN]]
  /\ sent \in [Ids -> Nat]
  /\ {overtaken, lateRing} \subseteq SUBSET Ids
  /\ {missed, unheard, lateMic} \subseteq [Browsers -> SUBSET Ids]

FeedInit ==
  /\ calls = NoCalls /\ owner = [c \in Ids |-> NoOwner] /\ rev = [c \in Ids |-> 0]
  /\ thread = [t \in Threads |-> Silent]
  /\ conn = [b \in Browsers |-> "off"] /\ queue = [b \in Browsers |-> <<>>]
  /\ shown = [b \in Browsers |-> NoCalls] /\ incoming = [b \in Browsers |-> NoId]
  /\ own = [b \in Browsers |-> {}]
  /\ hook = [b \in Browsers |-> NoHook]
  /\ sent = rev /\ overtaken = {} /\ lateRing = {}
  /\ missed = own /\ unheard = own /\ lateMic = own

-------------------------------------------------------------------------------
\* broadcast, under the read lock: each open stream gets the event unless its
\* channel is full.  tells: the records the event speaks of, in state revs.
\* A ring is the last thing its goroutine tells.
RingIn(todo) == todo # <<>> /\ todo[Len(todo)] = "ring"
RingDue(c) == \E t \in Threads : thread[t].id = c /\ RingIn(thread[t].todo)
Reaches(b) == conn[b] = "open" /\ Len(queue[b]) < Capacity
Send(e, tells, revs) ==
  LET whole == e.kind \in {"list", "ended"}
      last  == e.kind \in {"ended", "claimed"}
      old   == {c \in tells : revs[c] < sent[c]}
  IN
  /\ queue' = [b \in Browsers |-> IF Reaches(b) THEN Append(queue[b], e) ELSE queue[b]]
  /\ sent' = [c \in Ids |-> IF c \in tells \ old THEN revs[c] ELSE sent[c]]
  /\ overtaken' = (IF whole THEN overtaken \ tells ELSE overtaken) \cup old
  /\ lateRing' = IF last /\ RingDue(e.id) THEN lateRing \cup {e.id} ELSE lateRing
  /\ missed' = [b \in Browsers |-> IF conn[b] # "open" THEN missed[b]
                                   ELSE IF ~Reaches(b) THEN missed[b] \cup tells
                                   ELSE IF whole THEN missed[b] \ tells ELSE missed[b]]
  /\ unheard' = [b \in Browsers |-> IF last /\ ~Reaches(b) THEN unheard[b] \cup {e.id}
                                    ELSE unheard[b]]

\* Goroutine t has nothing left to tell; what it tells next; it has told it.
Free(t) == thread[t].todo = <<>>
Due(t, task) == ~Free(t) /\ Head(thread[t].todo) = task
Spoken(t) ==
  LET r == thread[t]
  IN  thread' = [thread EXCEPT ![t] = IF Len(r.todo) = 1 THEN Silent
                                      ELSE [r EXCEPT !.todo = Tail(r.todo)]]

\* Goroutine t changes the record of c and has tasks ahead.
Changes(t, c, s, tasks) ==
  /\ Free(t) /\ FoldFunction(+, 0, rev) < MaxRevs
  /\ calls' = [calls EXCEPT ![c] = s] /\ rev' = [rev EXCEPT ![c] = @ + 1]
  /\ thread' = [thread EXCEPT ![t] = [Silent EXCEPT !.todo = tasks, !.id = c,
                                                    !.status = s, !.rev = rev[c] + 1]]
  /\ UNCHANGED <<conn, queue, storeVars, toldVars>>

\* Mutant of Upsert: only the event of the one call follows.
UpsertNoList(t, c, s, rings) ==
  /\ rings => rev[c] = 0 /\ s = "ringing"
  /\ Changes(t, c, s, IF rings THEN <<"status", "ring">> ELSE <<"status">>)
  /\ owner' = IF calls[c] = "none" THEN [owner EXCEPT ![c] = NoOwner] ELSE owner

\* upsertCall; a call that comes in rings after it (wireCall).  The owner of a
\* record that is there is kept: that a listener may lose it is in SessionCalls.
Upsert(t, c, s, rings) ==
  /\ rings => rev[c] = 0 /\ s = "ringing"
  /\ Changes(t, c, s, <<"list", "send", "status">> \o (IF rings THEN <<"ring">> ELSE <<>>))
  /\ owner' = IF calls[c] = "none" THEN [owner EXCEPT ![c] = NoOwner] ELSE owner

\* endCall, of a record that is there.
EndCall(t, c) ==
  /\ calls[c] # "none"
  /\ Changes(t, c, "none", <<"ended", "list", "send">>)
  /\ owner' = [owner EXCEPT ![c] = NoOwner]

\* setOwner: it fails on a call of somebody else.
Claimable(c, who) == calls[c] # "none" /\ owner[c] \in {NoOwner, who}

\* Another operator's doAccept, or the auto-answer; that the latter tells of its
\* claim also when it failed is left out.
OtherClaims(t, c) ==
  /\ Free(t) /\ Claimable(c, Other) /\ owner[c] # Other
  /\ owner' = [owner EXCEPT ![c] = Other]
  /\ thread' = [thread EXCEPT ![t] = [Silent EXCEPT !.todo = <<"claimed">>, !.id = c]]
  /\ UNCHANGED <<calls, rev, conn, queue, storeVars, toldVars>>

\* broadcastCallList takes the list ...
TakeList(t) ==
  /\ Due(t, "list")
  /\ LET r == thread[t]
     IN  thread' = [thread EXCEPT ![t] = [r EXCEPT !.todo = Tail(r.todo), !.list = calls, !.revs = rev]]
  /\ UNCHANGED <<calls, owner, rev, conn, queue, storeVars, toldVars>>

\* ... and broadcasts it, with the records as they were.
TellList(t) ==
  /\ Due(t, "send") /\ Spoken(t)
  /\ Send([kind |-> "list", id |-> thread[t].id, list |-> thread[t].list], Ids, thread[t].revs)
  /\ UNCHANGED <<calls, owner, rev, conn, storeVars>>

\* The other events carry the record the goroutine has changed, as it was then.
Tell(t, task, kind, tells) ==
  /\ Due(t, task) /\ Spoken(t)
  /\ LET c == thread[t].id
         about == [d \in Ids |-> IF d = c THEN thread[t].status ELSE "none"]
     IN  Send([kind |-> kind, id |-> c, list |-> about], tells, [d \in Ids |-> thread[t].rev])
  /\ UNCHANGED <<calls, owner, rev, conn, storeVars>>

Tells(t) ==
  \/ TellList(t)
  \/ Tell(t, "status", "status", {thread[t].id})
  \/ Tell(t, "ended", "ended", {thread[t].id})
  \/ Tell(t, "ring", "incoming", {})
  \/ Tell(t, "claimed", "claimed", {})

-------------------------------------------------------------------------------
\* EventStream: a ticket is fetched for each attempt (issue) ...
FetchTicket(b) ==
  /\ conn[b] = "off" /\ conn' = [conn EXCEPT ![b] = "ticket"]
  /\ UNCHANGED <<serverVars, queue, storeVars, toldVars>>

\* ... and used up by it, in time or not (consume).
TicketExpires(b) ==
  /\ conn[b] = "ticket" /\ conn' = [conn EXCEPT ![b] = "off"]
  /\ UNCHANGED <<serverVars, queue, storeVars, toldVars>>

\* serveSSE: the goroutine of the request subscribes, then broadcasts the list.
Subscribe(b) ==
  /\ conn[b] = "ticket" /\ Free(b)
  /\ conn' = [conn EXCEPT ![b] = "open"] /\ missed' = [missed EXCEPT ![b] = Ids]
  /\ thread' = [thread EXCEPT ![b] = [Silent EXCEPT !.todo = <<"list", "send">>]]
  /\ UNCHANGED <<calls, owner, rev, queue, storeVars, sent, overtaken, lateRing, unheard>>

\* The connection is lost, and with it what is in the channel; serveSSE returns
\* from its loop and unsubscribes.  The browser tries again later.
Disconnect(b) ==
  /\ conn[b] = "open" /\ Free(b)
  /\ conn' = [conn EXCEPT ![b] = "off"] /\ queue' = [queue EXCEPT ![b] = <<>>]
  /\ unheard' = [unheard EXCEPT ![b] = @ \cup
       {queue[b][i].id : i \in {j \in DOMAIN queue[b] : queue[b][j].kind \in {"ended", "claimed"}}}]
  /\ missed' = [missed EXCEPT ![b] = {}]
  /\ UNCHANGED <<serverVars, storeVars, sent, overtaken, lateRing>>

\* Mutant of Forgets: the store keeps what it has for the call.
ForgetsCall(b, c) == UNCHANGED <<incoming, own>>

\* call-ended: the connection is closed, the popup goes if it is this call's.
Forgets(b, c) ==
  /\ own' = [own EXCEPT ![b] = @ \ {c}]
  /\ incoming' = [incoming EXCEPT ![b] = IF @ = c THEN NoId ELSE @]

\* onmessage: the store applies the event.  The status of a call the browser
\* does not show is nothing to it.
Receive(b) ==
  /\ queue[b] # <<>> /\ queue' = [queue EXCEPT ![b] = Tail(@)]
  /\ LET e == Head(queue[b]) IN
       /\ shown' = [shown EXCEPT ![b] =
            CASE e.kind = "list" -> e.list
              [] e.kind = "status" /\ @[e.id] # "none" -> [@ EXCEPT ![e.id] = e.list[e.id]]
              [] e.kind = "ended" -> [@ EXCEPT ![e.id] = "none"]
              [] OTHER -> @]
       /\ CASE e.kind = "ended" -> Forgets(b, e.id)
            [] e.kind = "incoming" -> incoming' = [incoming EXCEPT ![b] = e.id] /\ UNCHANGED own
            [] e.kind = "claimed" /\ incoming[b] = e.id ->
                 incoming' = [incoming EXCEPT ![b] = NoId] /\ UNCHANGED own
            [] OTHER -> UNCHANGED <<incoming, own>>
       /\ hook' = [hook EXCEPT ![b].over = @ \/ (e.kind = "ended" /\ e.id = hook[b].id)]
  /\ UNCHANGED <<serverVars, conn, lateMic, toldVars>>

-------------------------------------------------------------------------------
Goto(b, step) == hook' = [hook EXCEPT ![b] = IF step = "idle" THEN NoHook ELSE [@ EXCEPT !.step = step]]

\* useAcceptCall, for a call that rings or that the list shows.
Answer(b, c) ==
  /\ hook[b].step = "idle" /\ c \notin own[b]
  /\ incoming[b] = c \/ shown[b][c] = "ringing"
  /\ hook' = [hook EXCEPT ![b] = [step |-> "claim", id |-> c, over |-> FALSE]]
  /\ UNCHANGED <<serverVars, conn, queue, shown, incoming, own, lateMic, toldVars>>

\* ownerActiveCall: an operator has one call at a time.
Busy(b, c) == \E d \in Ids \ {c} : calls[d] # "none" /\ owner[d] = b

\* doAccept: 409, which clears the popup whosever it is, to an operator who is
\* busy and for a call of somebody else's; 404 for a call out of the registry,
\* which it leaves about when its record goes.
Claim(b) ==
  /\ hook[b].step = "claim"
  /\ LET c == hook[b].id
         mine == Claimable(c, b) /\ ~Busy(b, c)
     IN
       /\ owner' = IF mine THEN [owner EXCEPT ![c] = b] ELSE owner
       /\ Goto(b, IF mine THEN "claimed" ELSE "idle")
       /\ \/ (mine \/ calls[c] = "none") /\ UNCHANGED incoming
          \/ ~mine /\ incoming' = [incoming EXCEPT ![b] = NoId]
  /\ UNCHANGED <<calls, rev, thread, conn, queue, shown, own, lateMic, toldVars>>

\* emitIncomingClaimed, then AcceptCall, which may fail, as may the hook's next
\* request.  A call the server's agent answers is one OtherClaims.
AcceptCall(b) ==
  /\ hook[b].step = "claimed"
  /\ Send([kind |-> "claimed", id |-> hook[b].id, list |-> NoCalls], {}, rev)
  /\ \E step \in {"media", "idle"} : Goto(b, step)
  /\ UNCHANGED <<serverVars, conn, shown, incoming, own, lateMic>>

\* openCall: the microphone, and doWebRTC, which needs the call; after a failure
\* the microphone is off again and the hook asks for the end of the call.
OpenMedia(b) ==
  /\ hook[b].step = "media"
  /\ \/ calls[hook[b].id] # "none" /\ Goto(b, "register")
     \/ Goto(b, "idle")
  /\ UNCHANGED <<serverVars, conn, queue, shown, incoming, own, lateMic, toldVars>>

\* registerOwnConnection, and clearIncoming, which clears any call's popup.
Register(b) ==
  /\ hook[b].step = "register" /\ Goto(b, "idle")
  /\ own' = [own EXCEPT ![b] = @ \cup {hook[b].id}]
  /\ incoming' = [incoming EXCEPT ![b] = NoId]
  /\ lateMic' = [lateMic EXCEPT ![b] = IF hook[b].over THEN @ \cup {hook[b].id} ELSE @]
  /\ UNCHANGED <<serverVars, conn, queue, shown, toldVars>>

FeedNext ==
  \/ \E t \in Writers, c \in Ids :
       \/ \E s \in {"ringing", "connected"}, rings \in BOOLEAN : Upsert(t, c, s, rings)
       \/ EndCall(t, c) \/ OtherClaims(t, c)
  \/ \E t \in Threads : TakeList(t) \/ Tells(t)
  \/ \E b \in Browsers :
       \/ FetchTicket(b) \/ TicketExpires(b) \/ Subscribe(b) \/ Disconnect(b) \/ Receive(b)
       \/ \E c \in Ids : Answer(b, c)
       \/ Claim(b) \/ AcceptCall(b) \/ OpenMedia(b) \/ Register(b)

FeedSpec == FeedInit /\ [][FeedNext]_feedVars

-------------------------------------------------------------------------------
\* Everything has been told, and this browser has taken it.
CaughtUp(b) ==
  /\ conn[b] = "open" /\ queue[b] = <<>> /\ hook[b].step = "idle"
  /\ \A t \in Threads : Free(t)
  /\ \A d \in Browsers : hook[d].step # "claimed"

\* A browser that has caught up shows the broker's calls in their states, also
\* after reconnecting, unless its channel was full when a record was last told
\* (missed), or two goroutines told it in the wrong order (overtaken): then a
\* call that is over may be shown until the next event
\* (upsertCall, endCall and broadcastCallList, broker.go; serveSSE; stores/calls.ts).
ShownIsLive ==
  \A b \in Browsers : CaughtUp(b) =>
    \A c \in Ids : shown[b][c] = calls[c] \/ c \in missed[b] \cup overtaken

\* A browser that has caught up rings only for a call that is there and not
\* answered, and keeps its microphone open only for a call that is there,
\* unless the event that says so did not reach it, or came before the ring, or
\* before the connection was registered (onIncoming, session.go; useAcceptCall.ts).
BrowserLetsGo ==
  \A b \in Browsers : CaughtUp(b) =>
    /\ \A c \in Ids : incoming[b] = c =>
         (calls[c] # "none" /\ owner[c] = NoOwner) \/ c \in unheard[b] \cup lateRing
    /\ \A c \in own[b] : calls[c] # "none" \/ c \in unheard[b] \cup lateMic[b]
===============================================================================

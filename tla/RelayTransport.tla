---------------------------- MODULE RelayTransport ----------------------------
(***************************************************************************)
(* SctpRelayManager (internal/voip/transport/sctprelay.go): the map of     *)
(* relay connections, the goroutines that dial them, the connection        *)
(* timeout, the ICE and data-channel callbacks, and Cleanup.  m.mu guards  *)
(* the map; a connection's own fields are read and written without it, and *)
(* the teardown of a connection runs after the unlock.                     *)
(***************************************************************************)
EXTENDS Naturals

CONSTANTS Relays,  \* connection ids: ip, port and token of a relay
          Conns,   \* the relayConnection objects that may be made
          Ways,    \* bound: what may end each connection, besides the timeout
          NoRelay, NoConn

\* Who calls teardown: failConnection, for the dialler, an ICE callback or the
\* timeout; closeConnection; Cleanup.
Failers == {"dial", "ice", "timer"}
Callers == Failers \cup {"close", "cleanup"}

ASSUME TransportAssumption ==
  NoRelay \notin Relays /\ NoConn \notin Conns /\ Ways \in [Conns -> SUBSET Callers]

VARIABLES
  map,      \* m.connections, NoConn where the id is absent
  relay,    \* conn.id, NoRelay for an object not made yet
  state,    \* conn.state
  step,     \* where the goroutine that dials the connection is
  pc,       \* conn.pc: none while nil
  chan,     \* conn.channel: new, opening (OnOpen has yet to run), open, closed
  timer,    \* the goroutine of the 20 s timeout
  stops,    \* how often conn.stopCh was closed; a second close panics
  tear,     \* the teardowns of a connection, by the caller they run for
  calling,  \* connections whose OnOpen has yet to enter onConnected
  stray     \* history: connections that lost their entry on behalf of another

dialVars == <<relay, step>>
peerVars == <<pc, chan, calling>>
tearVars == <<stops, tear>>
vars == <<map, state, dialVars, peerVars, timer, tearVars, stray>>

TearSteps == {"off", "look", "stop", "rest", "done"}

TypeOK ==
  /\ map \in [Relays -> Conns \cup {NoConn}]
  /\ relay \in [Conns -> Relays \cup {NoRelay}]
  /\ state \in [Conns -> {"connecting", "open", "closed", "failed"}]
  /\ step \in [Conns -> {"unused", "insert", "peer", "negotiate", "failing",
                         "failed", "done"}]
  /\ pc \in [Conns -> {"none", "up", "closed"}]
  /\ chan \in [Conns -> {"new", "opening", "open", "closed"}]
  /\ timer \in [Conns -> {"off", "armed", "failing"}]
  /\ stops \in [Conns -> Nat]
  /\ tear \in [Conns -> [Callers -> TearSteps]]
  /\ calling \subseteq Conns /\ stray \subseteq Conns
  /\ \A c \in Conns : step[c] # "unused" => relay[c] \in Relays

Init ==
  /\ map = [r \in Relays |-> NoConn]
  /\ relay = [c \in Conns |-> NoRelay]
  /\ state = [c \in Conns |-> "connecting"]
  /\ step = [c \in Conns |-> "unused"]
  /\ pc = [c \in Conns |-> "none"] /\ chan = [c \in Conns |-> "new"]
  /\ timer = [c \in Conns |-> "off"]
  /\ stops = [c \in Conns |-> 0]
  /\ tear = [c \in Conns |-> [k \in Callers |-> "off"]]
  /\ calling = {} /\ stray = {}
-----------------------------------------------------------------------------
(* ConfigureRelays and connectToRelay *)

\* A caller of ConfigureRelays finds no connection and starts a goroutine; with
\* a connection in the map it skips the relay.
ConfigureRelays(c, r) ==
  /\ step[c] = "unused" /\ map[r] = NoConn
  /\ relay' = [relay EXCEPT ![c] = r]
  /\ step' = [step EXCEPT ![c] = "insert"]
  /\ UNCHANGED <<map, state, peerVars, timer, tearVars, stray>>

\* The map was looked at in an earlier critical section: the connection may
\* replace one that another caller has inserted since.
Insert(c) ==
  /\ step[c] = "insert"
  /\ map' = [map EXCEPT ![relay[c]] = c]
  /\ stray' = stray \cup ({map[relay[c]]} \ {NoConn})
  /\ step' = [step EXCEPT ![c] = "peer"]
  /\ UNCHANGED <<relay, state, peerVars, timer, tearVars>>

\* NewPeerConnection: an error, or conn.pc is set.
MakePeer(c) ==
  /\ step[c] = "peer"
  /\ \/ /\ pc' = [pc EXCEPT ![c] = "up"]
        /\ step' = [step EXCEPT ![c] = "negotiate"]
     \/ /\ "dial" \in Ways[c]
        /\ step' = [step EXCEPT ![c] = "failing"]
        /\ UNCHANGED pc
  /\ UNCHANGED <<map, relay, state, chan, calling, timer, tearVars, stray>>

\* Mistake: the goroutine of the timeout is not started.
NegotiateUntimed(c) ==
  /\ step[c] = "negotiate"
  /\ \/ pc[c] = "up" /\ step' = [step EXCEPT ![c] = "done"]
     \/ /\ pc[c] = "closed" \/ "dial" \in Ways[c]
        /\ step' = [step EXCEPT ![c] = "failing"]
  /\ UNCHANGED <<map, relay, state, peerVars, timer, tearVars, stray>>

\* Data channel, offer and answer, then the timeout; each step may fail, and does
\* on a PeerConnection that a teardown has closed.
Negotiate(c) ==
  /\ step[c] = "negotiate"
  /\ \/ /\ pc[c] = "up"
        /\ step' = [step EXCEPT ![c] = "done"]
        /\ timer' = [timer EXCEPT ![c] = "armed"]
     \/ /\ pc[c] = "closed" \/ "dial" \in Ways[c]
        /\ step' = [step EXCEPT ![c] = "failing"]
        /\ UNCHANGED timer
  /\ UNCHANGED <<map, relay, state, peerVars, tearVars, stray>>
-----------------------------------------------------------------------------
(* The callbacks of a connection *)

\* The data channel opens; pion runs OnOpen in a goroutine of its own.
ChannelOpens(c) ==
  /\ step[c] = "done" /\ pc[c] = "up" /\ chan[c] = "new"
  /\ chan' = [chan EXCEPT ![c] = "opening"]
  /\ UNCHANGED <<map, state, dialVars, pc, calling, timer, tearVars, stray>>

\* OnOpen: whatever became of the connection meanwhile, it is open now.
OnOpen(c) ==
  /\ chan[c] = "opening"
  /\ chan' = [chan EXCEPT ![c] = "open"]
  /\ state' = [state EXCEPT ![c] = "open"]
  /\ calling' = calling \cup {c}
  /\ UNCHANGED <<map, dialVars, pc, timer, tearVars, stray>>

OnConnected(c) ==
  /\ c \in calling
  /\ calling' = calling \ {c}
  /\ UNCHANGED <<map, state, dialVars, pc, chan, timer, tearVars, stray>>

\* Mistake: a connection that has failed already is failed again.
FailConnectionAgain(c, k) ==
  LET r == relay[c] IN
  /\ state' = [state EXCEPT ![c] = "failed"]
  /\ map' = [map EXCEPT ![r] = NoConn]
  /\ tear' = [tear EXCEPT ![c][k] = "look"]
  /\ stray' = stray \cup ({map[r]} \ {c, NoConn})

\* Mistake: the entry stays in the map.
FailConnectionKeepsEntry(c, k) ==
  /\ UNCHANGED <<map, stray>>
  /\ IF state[c] = "failed"
       THEN UNCHANGED <<state, tear>>
       ELSE /\ state' = [state EXCEPT ![c] = "failed"]
            /\ tear' = [tear EXCEPT ![c][k] = "look"]

\* failConnection, its critical section: a connection fails once, and the entry
\* under its id goes, whichever connection it is.
FailConnection(c, k) ==
  LET r == relay[c] IN
  IF state[c] = "failed"
    THEN UNCHANGED <<state, map, tear, stray>>
    ELSE /\ state' = [state EXCEPT ![c] = "failed"]
         /\ map' = [map EXCEPT ![r] = NoConn]
         /\ tear' = [tear EXCEPT ![c][k] = "look"]
         /\ stray' = stray \cup ({map[r]} \ {c, NoConn})

DialFails(c) ==
  /\ step[c] = "failing"
  /\ FailConnection(c, "dial")
  /\ step' = [step EXCEPT ![c] = "failed"]
  /\ UNCHANGED <<relay, peerVars, timer, stops>>

\* ICE is disconnected or failed; the bound is one such call for a connection.
IceFails(c) ==
  /\ "ice" \in Ways[c]
  /\ step[c] = "done" /\ pc[c] = "up" /\ tear[c]["ice"] = "off"
  /\ FailConnection(c, "ice")
  /\ UNCHANGED <<dialVars, peerVars, timer, stops>>

\* After 20 s the state is read, without the lock.
TimerFires(c) ==
  /\ timer[c] = "armed"
  /\ timer' = [timer EXCEPT ![c] = IF state[c] = "connecting" THEN "failing" ELSE "off"]
  /\ UNCHANGED <<map, state, dialVars, peerVars, tearVars, stray>>

TimerStops(c) ==
  /\ timer[c] = "armed" /\ stops[c] > 0
  /\ timer' = [timer EXCEPT ![c] = "off"]
  /\ UNCHANGED <<map, state, dialVars, peerVars, tearVars, stray>>

TimerFails(c) ==
  /\ timer[c] = "failing"
  /\ FailConnection(c, "timer")
  /\ timer' = [timer EXCEPT ![c] = "off"]
  /\ UNCHANGED <<dialVars, peerVars, stops>>

\* Mistake: closeConnection closes the connection but leaves its entry.
ChannelClosesKeepsEntry(c) ==
  LET d == map[relay[c]] IN
  /\ "close" \in Ways[c] /\ chan[c] = "open"
  /\ chan' = [chan EXCEPT ![c] = "closed"]
  /\ IF d = NoConn
       THEN UNCHANGED <<state, tear>>
       ELSE /\ state' = [state EXCEPT ![d] = "closed"]
            /\ tear' = [tear EXCEPT ![d]["close"] = "look"]
  /\ UNCHANGED <<map, dialVars, pc, calling, timer, stops, stray>>

\* OnClose calls closeConnection with the id, which closes the connection that
\* is in the map now.
ChannelCloses(c) ==
  LET r == relay[c]  d == map[r] IN
  /\ "close" \in Ways[c] /\ chan[c] = "open"
  /\ chan' = [chan EXCEPT ![c] = "closed"]
  /\ IF d = NoConn
       THEN UNCHANGED <<map, state, tear>>
       ELSE /\ map' = [map EXCEPT ![r] = NoConn]
            /\ state' = [state EXCEPT ![d] = "closed"]
            /\ tear' = [tear EXCEPT ![d]["close"] = "look"]
  /\ UNCHANGED <<dialVars, pc, calling, timer, stops, stray>>
-----------------------------------------------------------------------------
(* Cleanup and teardown *)

\* Mistake: Cleanup empties the map before it has collected the connections.
CleanupForgets ==
  /\ \E r \in Relays : map[r] # NoConn /\ "cleanup" \in Ways[map[r]]
  /\ map' = [r \in Relays |-> NoConn]
  /\ UNCHANGED <<state, dialVars, peerVars, timer, tearVars, stray>>

\* The connections are torn down one after the other; they do not touch each
\* other, so the order is left open.
Cleanup ==
  /\ \E r \in Relays : map[r] # NoConn /\ "cleanup" \in Ways[map[r]]
  /\ map' = [r \in Relays |-> NoConn]
  /\ tear' = [c \in Conns |->
       IF \E r \in Relays : map[r] = c THEN [tear[c] EXCEPT !["cleanup"] = "look"]
       ELSE tear[c]]
  /\ UNCHANGED <<state, dialVars, peerVars, timer, stops, stray>>

\* teardown: select on stopCh ...
TearLook(c, k) ==
  /\ tear[c][k] = "look"
  /\ tear' = [tear EXCEPT ![c][k] = IF stops[c] = 0 THEN "stop" ELSE "rest"]
  /\ UNCHANGED <<map, state, dialVars, peerVars, timer, stops, stray>>

\* ... close(stopCh) in the default branch ...
TearStop(c, k) ==
  /\ tear[c][k] = "stop"
  /\ stops' = [stops EXCEPT ![c] = @ + 1]
  /\ tear' = [tear EXCEPT ![c][k] = "rest"]
  /\ UNCHANGED <<map, state, dialVars, peerVars, timer, stray>>

\* Mistake: the PeerConnection of a connection whose channel is open is not closed.
TearRestKeepsPeer(c, k) ==
  /\ tear[c][k] = "rest"
  /\ tear' = [tear EXCEPT ![c][k] = "done"]
  /\ pc' = IF pc[c] = "up" /\ chan[c] = "new" THEN [pc EXCEPT ![c] = "closed"] ELSE pc
  /\ UNCHANGED <<map, state, dialVars, chan, calling, timer, stops, stray>>

\* ... and channel and PeerConnection, if they are there already, are closed.
TearRest(c, k) ==
  /\ tear[c][k] = "rest"
  /\ tear' = [tear EXCEPT ![c][k] = "done"]
  /\ pc' = IF pc[c] = "up" THEN [pc EXCEPT ![c] = "closed"] ELSE pc
  /\ UNCHANGED <<map, state, dialVars, chan, calling, timer, stops, stray>>
-----------------------------------------------------------------------------
\* The second close of a channel panics, which ends the process.
Panicked == \E c \in Conns : stops[c] > 1

Dialling(c) == Insert(c) \/ MakePeer(c) \/ Negotiate(c) \/ DialFails(c)
Timeout(c)  == TimerFires(c) \/ TimerStops(c) \/ TimerFails(c)
Teardown(c, k) == TearLook(c, k) \/ TearStop(c, k) \/ TearRest(c, k)

Step(c) ==
  \/ \E r \in Relays : ConfigureRelays(c, r)
  \/ Dialling(c) \/ Timeout(c)
  \/ ChannelOpens(c) \/ OnOpen(c) \/ OnConnected(c) \/ IceFails(c) \/ ChannelCloses(c)
  \/ \E k \in Callers : Teardown(c, k)

Next == ~Panicked /\ (Cleanup \/ \E c \in Conns : Step(c))

Spec == Init /\ [][Next]_vars

Running == \E c \in Conns :
  Dialling(c) \/ Timeout(c) \/ \E k \in Callers : Teardown(c, k)

\* Some goroutine goes on as long as one can, and time passes; relays need not
\* answer, and nobody has to clean up.
FairSpec == Spec /\ WF_vars(~Panicked /\ Running)
-----------------------------------------------------------------------------
(* Properties *)

\* What the map holds can be used: HasConnection and Broadcast never meet a
\* connection that one of the three ways out has begun to tear down.
MapIsLive ==
  \A r \in Relays : \A c \in Conns : map[r] = c =>
    /\ relay[c] = r /\ state[c] \in {"connecting", "open"}
    /\ stops[c] = 0 /\ \A k \in Callers : tear[c][k] = "off"

\* A connection that leaves the map is torn down by whoever took it out, unless
\* it lost its entry on behalf of another connection to the same relay.
LeftIsTorn ==
  \A c \in Conns :
    step[c] \notin {"unused", "insert"} /\ map[relay[c]] # c =>
      c \in stray \/ \E k \in Callers : tear[c][k] # "off"

\* However often a connection fails that never opened - in the dialler, by ICE, by
\* the timeout - stopCh is closed once; a panic takes a Cleanup or a close of the
\* channel that meets the failure.
FailuresStopOnce ==
  \A c \in Conns :
    stops[c] > 1 => \/ tear[c]["cleanup"] # "off" \/ tear[c]["close"] # "off"
                    \/ chan[c] # "new"

\* What makes the three inductive: a connection that is not in the map yet is as it
\* was made; timeout and callbacks belong to connections that are dialled; and a
\* connection is open only after OnOpen.
Unplaced ==
  \A c \in Conns : step[c] \in {"unused", "insert"} =>
    /\ state[c] = "connecting" /\ stops[c] = 0
    /\ \A k \in Callers : tear[c][k] = "off"
    /\ \A r \in Relays : map[r] # c

Underway ==
  \A c \in Conns :
    timer[c] # "off" \/ chan[c] # "new" \/ c \in calling => step[c] = "done"

OpensOnce == \A c \in Conns : state[c] = "open" => chan[c] \in {"open", "closed"}

\* Until something else meets it, a connection that has not opened is torn down by
\* the one failure that found it, in order.
FailedOnce ==
  \A c \in Conns :
    chan[c] = "new" /\ tear[c]["cleanup"] = "off" /\ tear[c]["close"] = "off" =>
      /\ state[c] \in {"connecting", "failed"} /\ stops[c] <= 1
      /\ \A k \in Failers : tear[c][k] # "off" =>
           /\ state[c] = "failed"
           /\ \A j \in Failers \ {k} : tear[c][j] = "off"
           /\ tear[c][k] \in {"look", "stop"} => stops[c] = 0
      /\ state[c] = "connecting" => stops[c] = 0

IInv ==
  /\ TypeOK /\ Unplaced /\ Underway /\ OpensOnce /\ FailedOnce
  /\ MapIsLive /\ LeftIsTorn

\* No connection keeps a relay connecting for ever: it opens, or it leaves the map
\* and the relay can be dialled again.
ConnectingEnds ==
  \A r \in Relays : \A c \in Conns :
    (map[r] = c /\ state[c] = "connecting")
      ~> (map[r] # c \/ state[c] = "open" \/ Panicked)

TornDown(c) == \E k \in Callers : tear[c][k] \notin {"off", "done"}

\* A teardown that begins when the dialler has made the PeerConnection closes it,
\* whatever other callers tear down the same connection.
PeersClose ==
  \A c \in Conns : (pc[c] = "up" /\ TornDown(c)) ~> (pc[c] = "closed" \/ Panicked)

\* The map, seen from outside, is a pool of relays.
Pool ==
  INSTANCE RelayPool WITH
    conn    <- [r \in Relays |-> IF map[r] = NoConn THEN "none" ELSE state[map[r]]],
    upcalls <- {relay[c] : c \in calling},
    dialled <- {relay[c] : c \in {d \in Conns : step[d] \notin {"unused", "insert"}}}

ImplementsPool == Pool!PoolSpec
=============================================================================

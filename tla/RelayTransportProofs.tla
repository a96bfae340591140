------------------------ MODULE RelayTransportProofs ------------------------
(***************************************************************************)
(* RelayTransport's safety for every set of relays and connections: IInv   *)
(* is inductive, one lemma per action, and every step of the manager is a  *)
(* step of RelayPool, or none.                                             *)
(***************************************************************************)
EXTENDS RelayTransport, TLAPS

\* A connection object gets its id before anybody can see it.
LEMMA ConfigureRelaysInv ==
  ASSUME IInv, NEW c \in Conns, NEW r \in Relays, ConfigureRelays(c, r)
  PROVE  IInv'
<1> USE TransportAssumption
    DEF IInv, ConfigureRelays, dialVars, peerVars, tearVars, TypeOK, Callers,
        Failers, TearSteps
<1>1. TypeOK'
  OBVIOUS
<1>2. Unplaced'
  BY DEF Unplaced
<1>3. Underway'
  BY DEF Underway
<1>4. OpensOnce'
  BY DEF OpensOnce
<1>5. FailedOnce'
  BY DEF FailedOnce
<1>6. MapIsLive'
  BY DEF MapIsLive, Unplaced
<1>7. LeftIsTorn'
  BY DEF LeftIsTorn
<1> QED
  BY <1>1, <1>2, <1>3, <1>4, <1>5, <1>6, <1>7

\* The new entry is live; the connection that was there is a stray.
LEMMA InsertInv == ASSUME IInv, NEW c \in Conns, Insert(c) PROVE IInv'
<1> USE TransportAssumption
    DEF IInv, Insert, dialVars, peerVars, tearVars, TypeOK, Callers, Failers,
        TearSteps
<1>1. TypeOK'
  OBVIOUS
<1>2. Unplaced'
  BY DEF Unplaced
<1>3. Underway'
  BY DEF Underway
<1>4. OpensOnce'
  BY DEF OpensOnce
<1>5. FailedOnce'
  BY DEF FailedOnce
<1>6. MapIsLive'
  BY DEF MapIsLive, Unplaced
<1>7. LeftIsTorn'
  BY DEF LeftIsTorn
<1> QED
  BY <1>1, <1>2, <1>3, <1>4, <1>5, <1>6, <1>7

\* Only the dialler has the connection's pc.
LEMMA MakePeerInv == ASSUME IInv, NEW c \in Conns, MakePeer(c) PROVE IInv'
<1> USE TransportAssumption
    DEF IInv, MakePeer, dialVars, peerVars, tearVars, TypeOK, Callers, Failers,
        TearSteps
<1>1. TypeOK'
  <2>1. CASE pc' = [pc EXCEPT ![c] = "up"] /\ step' = [step EXCEPT ![c] = "negotiate"]
    BY <2>1
  <2>2. CASE step' = [step EXCEPT ![c] = "failing"] /\ UNCHANGED pc
    BY <2>2
  <2> QED
    BY <2>1, <2>2
<1>2. Unplaced'
  BY DEF Unplaced
<1>3. Underway'
  BY DEF Underway
<1>4. OpensOnce'
  BY DEF OpensOnce
<1>5. FailedOnce'
  BY DEF FailedOnce
<1>6. MapIsLive'
  BY DEF MapIsLive
<1>7. LeftIsTorn'
  BY DEF LeftIsTorn
<1> QED
  BY <1>1, <1>2, <1>3, <1>4, <1>5, <1>6, <1>7

\* The timeout is armed when the connection is dialled.
LEMMA NegotiateInv == ASSUME IInv, NEW c \in Conns, Negotiate(c) PROVE IInv'
<1> USE TransportAssumption
    DEF IInv, Negotiate, dialVars, peerVars, tearVars, TypeOK, Callers, Failers,
        TearSteps
<1>1. TypeOK'
  <2>1. CASE step' = [step EXCEPT ![c] = "done"] /\ timer' = [timer EXCEPT ![c] = "armed"]
    BY <2>1
  <2>2. CASE step' = [step EXCEPT ![c] = "failing"] /\ UNCHANGED timer
    BY <2>2
  <2> QED
    BY <2>1, <2>2
<1>2. Unplaced'
  BY DEF Unplaced
<1>3. Underway'
  BY DEF Underway
<1>4. OpensOnce'
  BY DEF OpensOnce
<1>5. FailedOnce'
  BY DEF FailedOnce
<1>6. MapIsLive'
  BY DEF MapIsLive
<1>7. LeftIsTorn'
  BY DEF LeftIsTorn
<1> QED
  BY <1>1, <1>2, <1>3, <1>4, <1>5, <1>6, <1>7

\* The channel of a dialled connection.
LEMMA ChannelOpensInv ==
  ASSUME IInv, NEW c \in Conns, ChannelOpens(c)
  PROVE  IInv'
<1> USE TransportAssumption
    DEF IInv, ChannelOpens, dialVars, peerVars, tearVars, TypeOK, Callers,
        Failers, TearSteps
<1>1. TypeOK'
  OBVIOUS
<1>2. Unplaced'
  BY DEF Unplaced
<1>3. Underway'
  BY DEF Underway
<1>4. OpensOnce'
  BY DEF OpensOnce
<1>5. FailedOnce'
  BY DEF FailedOnce
<1>6. MapIsLive'
  BY DEF MapIsLive
<1>7. LeftIsTorn'
  BY DEF LeftIsTorn
<1> QED
  BY <1>1, <1>2, <1>3, <1>4, <1>5, <1>6, <1>7

\* A late OnOpen reopens a connection that is out of the map, which does no harm there.
LEMMA OnOpenInv == ASSUME IInv, NEW c \in Conns, OnOpen(c) PROVE IInv'
<1> USE TransportAssumption
    DEF IInv, OnOpen, dialVars, peerVars, tearVars, TypeOK, Callers, Failers,
        TearSteps
<1>1. TypeOK'
  OBVIOUS
<1>2. Unplaced'
  BY DEF Unplaced, Underway
<1>3. Underway'
  BY DEF Underway
<1>4. OpensOnce'
  BY DEF OpensOnce
<1>5. FailedOnce'
  BY DEF FailedOnce
<1>6. MapIsLive'
  BY DEF MapIsLive
<1>7. LeftIsTorn'
  BY DEF LeftIsTorn
<1> QED
  BY <1>1, <1>2, <1>3, <1>4, <1>5, <1>6, <1>7

\* The callback leaves the manager.
LEMMA OnConnectedInv == ASSUME IInv, NEW c \in Conns, OnConnected(c) PROVE IInv'
<1> USE TransportAssumption
    DEF IInv, OnConnected, dialVars, peerVars, tearVars, TypeOK, Callers,
        Failers, TearSteps
<1>1. TypeOK'
  OBVIOUS
<1>2. Unplaced'
  BY DEF Unplaced
<1>3. Underway'
  BY DEF Underway
<1>4. OpensOnce'
  BY DEF OpensOnce
<1>5. FailedOnce'
  BY DEF FailedOnce
<1>6. MapIsLive'
  BY DEF MapIsLive
<1>7. LeftIsTorn'
  BY DEF LeftIsTorn
<1> QED
  BY <1>1, <1>2, <1>3, <1>4, <1>5, <1>6, <1>7

\* Whoever calls failConnection, for a connection that has been inserted: it is
\* taken out of the map by the caller that finds it unfailed, and torn down by it.
LEMMA FailConnectionInv ==
  ASSUME IInv, NEW c \in Conns, NEW k \in Failers, FailConnection(c, k),
         step[c] \in {"failing", "done"},
         UNCHANGED <<relay, pc, chan, calling, stops>>,
         step' = [step EXCEPT ![c] = IF step[c] = "failing" THEN "failed" ELSE step[c]],
         timer' = timer \/ timer' = [timer EXCEPT ![c] = "off"]
  PROVE  IInv'
<1> USE TransportAssumption
    DEF IInv, TypeOK, Callers, Failers, TearSteps, FailConnection
<1>0. relay[c] \in Relays /\ relay[c] # NoRelay
  BY DEF TypeOK
<1>1. TypeOK'
  <2>1. map' \in [Relays -> Conns \cup {NoConn}]
    BY <1>0
  <2>2. state' \in [Conns -> {"connecting", "open", "closed", "failed"}]
    OBVIOUS
  <2>3. tear' \in [Conns -> [Callers -> TearSteps]]
    <3>1. tear[c] \in [Callers -> TearSteps]
      OBVIOUS
    <3>2. [tear[c] EXCEPT ![k] = "look"] \in [Callers -> TearSteps]
      BY <3>1
    <3>3. CASE state[c] = "failed"
      BY <3>3
    <3>4. CASE state[c] # "failed"
      <4>1. tear' = [tear EXCEPT ![c] = [tear[c] EXCEPT ![k] = "look"]]
        BY <3>4
      <4> QED
        BY <3>2, <4>1
    <3> QED
      BY <3>3, <3>4
  <2>4. stray' \subseteq Conns
    BY <1>0
  <2>5. step' \in [Conns -> {"unused", "insert", "peer", "negotiate", "failing",
                            "failed", "done"}]
    OBVIOUS
  <2>6. timer' \in [Conns -> {"off", "armed", "failing"}]
    OBVIOUS
  <2>7. \A d \in Conns : step'[d] # "unused" => relay'[d] \in Relays
    OBVIOUS
  <2> QED
    BY <2>1, <2>2, <2>3, <2>4, <2>5, <2>6, <2>7
<1>2. Unplaced'
  <2>1. CASE state[c] = "failed"
    BY <1>0, <2>1 DEF Unplaced
  <2>2. CASE state[c] # "failed"
    BY <1>0, <2>2 DEF Unplaced, FailedOnce
  <2> QED
    BY <2>1, <2>2
<1>3. Underway'
  <2>1. CASE state[c] = "failed"
    BY <1>0, <2>1 DEF Underway
  <2>2. CASE state[c] # "failed"
    BY <1>0, <2>2 DEF Underway, FailedOnce
  <2> QED
    BY <2>1, <2>2
<1>4. OpensOnce'
  <2>1. CASE state[c] = "failed"
    BY <1>0, <2>1 DEF OpensOnce
  <2>2. CASE state[c] # "failed"
    BY <1>0, <2>2 DEF OpensOnce, FailedOnce
  <2> QED
    BY <2>1, <2>2
<1>5. FailedOnce'
  <2>1. CASE state[c] = "failed"
    BY <2>1 DEF FailedOnce
  <2>2. CASE state[c] # "failed"
    <3>1. state' = [state EXCEPT ![c] = "failed"] /\ tear' = [tear EXCEPT ![c][k] = "look"]
      BY <2>2
    <3>2. ASSUME NEW d \in Conns, chan[d] = "new", tear'[d]["cleanup"] = "off",
                 tear'[d]["close"] = "off", d = c
          PROVE  /\ state[d] = "connecting" /\ stops[d] = 0 /\ state'[d] = "failed"
                 /\ \A j \in Failers : tear[d][j] = "off"
      BY <2>2, <3>1, <3>2 DEF FailedOnce, OpensOnce
    <3> QED
      BY <3>1, <3>2 DEF FailedOnce
  <2> QED
    BY <2>1, <2>2
<1>6. MapIsLive'
  <2>1. CASE state[c] = "failed"
    BY <1>0, <2>1 DEF MapIsLive
  <2>2. CASE state[c] # "failed"
    BY <1>0, <2>2 DEF MapIsLive, Unplaced, Underway, FailedOnce
  <2> QED
    BY <2>1, <2>2
<1>7. LeftIsTorn'
  <2>1. CASE state[c] = "failed"
    BY <1>0, <2>1 DEF LeftIsTorn
  <2>2. CASE state[c] # "failed"
    BY <1>0, <2>2 DEF LeftIsTorn, FailedOnce
  <2> QED
    BY <2>1, <2>2
<1> QED
  BY <1>1, <1>2, <1>3, <1>4, <1>5, <1>6, <1>7

\* The dialler's failure.
LEMMA DialFailsInv == ASSUME IInv, NEW c \in Conns, DialFails(c) PROVE IInv'
<1>1. step[c] \in {"failing", "done"}
  BY DEF IInv, DialFails, Underway
<1>2. step' = [step EXCEPT ![c] = IF step[c] = "failing" THEN "failed" ELSE step[c]]
  BY DEF IInv, TypeOK, DialFails, Underway, dialVars
<1>3. timer' = timer \/ timer' = [timer EXCEPT ![c] = "off"]
  BY DEF DialFails
<1> QED
  BY <1>1, <1>2, <1>3, FailConnectionInv DEF DialFails, Failers, dialVars,
     peerVars

\* The failure reported by ICE.
LEMMA IceFailsInv == ASSUME IInv, NEW c \in Conns, IceFails(c) PROVE IInv'
<1>1. step[c] \in {"failing", "done"}
  BY DEF IInv, IceFails, Underway
<1>2. step' = [step EXCEPT ![c] = IF step[c] = "failing" THEN "failed" ELSE step[c]]
  BY DEF IInv, TypeOK, IceFails, Underway, dialVars
<1>3. timer' = timer \/ timer' = [timer EXCEPT ![c] = "off"]
  BY DEF IceFails
<1> QED
  BY <1>1, <1>2, <1>3, FailConnectionInv DEF IceFails, Failers, dialVars,
     peerVars

\* The timeout looks.
LEMMA TimerFiresInv == ASSUME IInv, NEW c \in Conns, TimerFires(c) PROVE IInv'
<1> USE TransportAssumption
    DEF IInv, TimerFires, dialVars, peerVars, tearVars, TypeOK, Callers,
        Failers, TearSteps
<1>1. TypeOK'
  OBVIOUS
<1>2. Unplaced'
  BY DEF Unplaced
<1>3. Underway'
  BY DEF Underway
<1>4. OpensOnce'
  BY DEF OpensOnce
<1>5. FailedOnce'
  BY DEF FailedOnce
<1>6. MapIsLive'
  BY DEF MapIsLive
<1>7. LeftIsTorn'
  BY DEF LeftIsTorn
<1> QED
  BY <1>1, <1>2, <1>3, <1>4, <1>5, <1>6, <1>7

\* The timeout is called off.
LEMMA TimerStopsInv == ASSUME IInv, NEW c \in Conns, TimerStops(c) PROVE IInv'
<1> USE TransportAssumption
    DEF IInv, TimerStops, dialVars, peerVars, tearVars, TypeOK, Callers,
        Failers, TearSteps
<1>1. TypeOK'
  OBVIOUS
<1>2. Unplaced'
  BY DEF Unplaced
<1>3. Underway'
  BY DEF Underway
<1>4. OpensOnce'
  BY DEF OpensOnce
<1>5. FailedOnce'
  BY DEF FailedOnce
<1>6. MapIsLive'
  BY DEF MapIsLive
<1>7. LeftIsTorn'
  BY DEF LeftIsTorn
<1> QED
  BY <1>1, <1>2, <1>3, <1>4, <1>5, <1>6, <1>7

\* The timeout's failure.
LEMMA TimerFailsInv == ASSUME IInv, NEW c \in Conns, TimerFails(c) PROVE IInv'
<1>1. step[c] \in {"failing", "done"}
  BY DEF IInv, TimerFails, Underway
<1>2. step' = [step EXCEPT ![c] = IF step[c] = "failing" THEN "failed" ELSE step[c]]
  BY DEF IInv, TypeOK, TimerFails, Underway, dialVars
<1>3. timer' = timer \/ timer' = [timer EXCEPT ![c] = "off"]
  BY DEF TimerFails
<1> QED
  BY <1>1, <1>2, <1>3, FailConnectionInv DEF TimerFails, Failers, dialVars,
     peerVars

\* The connection in the map is closed, on behalf of the one whose channel closed.
LEMMA ChannelClosesInv ==
  ASSUME IInv, NEW c \in Conns, ChannelCloses(c)
  PROVE  IInv'
<1> USE TransportAssumption
    DEF IInv, ChannelCloses, dialVars, peerVars, tearVars, TypeOK, Callers,
        Failers, TearSteps
<1>1. TypeOK'
  <2>1. CASE map[relay[c]] = NoConn
    BY <2>1
  <2>2. CASE map[relay[c]] # NoConn
    <3>1. relay[c] \in Relays /\ map[relay[c]] \in Conns
      BY <2>2 DEF Underway
    <3>2. map' \in [Relays -> Conns \cup {NoConn}]
      BY <2>2
    <3>3. state' \in [Conns -> {"connecting", "open", "closed", "failed"}]
      BY <2>2, <3>1
    <3>4. [tear[map[relay[c]]] EXCEPT !["close"] = "look"] \in [Callers -> TearSteps]
      BY <3>1
    <3>5. tear' = [tear EXCEPT ![map[relay[c]]] =
                     [tear[map[relay[c]]] EXCEPT !["close"] = "look"]]
      BY <2>2
    <3>6. tear' \in [Conns -> [Callers -> TearSteps]]
      BY <3>1, <3>4, <3>5
    <3> QED
      BY <3>2, <3>3, <3>6
  <2> QED
    BY <2>1, <2>2
<1>2. Unplaced'
  BY DEF Unplaced, Underway
<1>3. Underway'
  BY DEF Underway
<1>4. OpensOnce'
  BY DEF OpensOnce
<1>5. FailedOnce'
  BY DEF FailedOnce
<1>6. MapIsLive'
  <2>1. CASE map[relay[c]] = NoConn
    BY <2>1 DEF MapIsLive
  <2>2. CASE map[relay[c]] # NoConn
    BY <2>2 DEF MapIsLive, Underway
  <2> QED
    BY <2>1, <2>2
<1>7. LeftIsTorn'
  <2>1. CASE map[relay[c]] = NoConn
    BY <2>1 DEF LeftIsTorn
  <2>2. CASE map[relay[c]] # NoConn
    BY <2>2 DEF LeftIsTorn, Unplaced
  <2> QED
    BY <2>1, <2>2
<1> QED
  BY <1>1, <1>2, <1>3, <1>4, <1>5, <1>6, <1>7

\* Every connection in the map gets a teardown of its own.
LEMMA CleanupInv == ASSUME IInv, Cleanup PROVE IInv'
<1> USE TransportAssumption
    DEF IInv, Cleanup, dialVars, peerVars, tearVars, TypeOK, Callers, Failers,
        TearSteps
<1>1. TypeOK'
  OBVIOUS
<1>2. Unplaced'
  BY DEF Unplaced
<1>3. Underway'
  BY DEF Underway
<1>4. OpensOnce'
  BY DEF OpensOnce
<1>5. FailedOnce'
  BY DEF FailedOnce
<1>6. MapIsLive'
  BY DEF MapIsLive
<1>7. LeftIsTorn'
  BY DEF LeftIsTorn
<1> QED
  BY <1>1, <1>2, <1>3, <1>4, <1>5, <1>6, <1>7

\* A teardown finds stopCh open or closed.
LEMMA TearLookInv ==
  ASSUME IInv, NEW c \in Conns, NEW k \in Callers, TearLook(c, k)
  PROVE  IInv'
<1> USE TransportAssumption
    DEF IInv, TearLook, dialVars, peerVars, tearVars, TypeOK, Callers, Failers,
        TearSteps
<1>1. TypeOK'
  OBVIOUS
<1>2. Unplaced'
  BY DEF Unplaced
<1>3. Underway'
  BY DEF Underway
<1>4. OpensOnce'
  BY DEF OpensOnce
<1>5. FailedOnce'
  BY DEF FailedOnce
<1>6. MapIsLive'
  BY DEF MapIsLive
<1>7. LeftIsTorn'
  BY DEF LeftIsTorn
<1> QED
  BY <1>1, <1>2, <1>3, <1>4, <1>5, <1>6, <1>7

\* A teardown closes stopCh of a connection that has left the map.
LEMMA TearStopInv ==
  ASSUME IInv, NEW c \in Conns, NEW k \in Callers, TearStop(c, k)
  PROVE  IInv'
<1> USE TransportAssumption
    DEF IInv, TearStop, dialVars, peerVars, tearVars, TypeOK, Callers, Failers,
        TearSteps
<1>1. TypeOK'
  OBVIOUS
<1>2. Unplaced'
  BY DEF Unplaced
<1>3. Underway'
  BY DEF Underway
<1>4. OpensOnce'
  BY DEF OpensOnce
<1>5. FailedOnce'
  BY DEF FailedOnce
<1>6. MapIsLive'
  BY DEF MapIsLive
<1>7. LeftIsTorn'
  BY DEF LeftIsTorn
<1> QED
  BY <1>1, <1>2, <1>3, <1>4, <1>5, <1>6, <1>7

\* The rest of a teardown.
LEMMA TearRestInv ==
  ASSUME IInv, NEW c \in Conns, NEW k \in Callers, TearRest(c, k)
  PROVE  IInv'
<1> USE TransportAssumption
    DEF IInv, TearRest, dialVars, peerVars, tearVars, TypeOK, Callers, Failers,
        TearSteps
<1>1. TypeOK'
  OBVIOUS
<1>2. Unplaced'
  BY DEF Unplaced
<1>3. Underway'
  BY DEF Underway
<1>4. OpensOnce'
  BY DEF OpensOnce
<1>5. FailedOnce'
  BY DEF FailedOnce
<1>6. MapIsLive'
  BY DEF MapIsLive
<1>7. LeftIsTorn'
  BY DEF LeftIsTorn
<1> QED
  BY <1>1, <1>2, <1>3, <1>4, <1>5, <1>6, <1>7
-----------------------------------------------------------------------------
\* An empty manager satisfies the invariant.
LEMMA InitInv == ASSUME Init PROVE IInv
<1> USE TransportAssumption DEF Init, IInv
<1>1. TypeOK
  BY DEF TypeOK, Callers, Failers, TearSteps
<1>2. Unplaced /\ Underway /\ OpensOnce /\ MapIsLive /\ LeftIsTorn
  BY DEF Unplaced, Underway, OpensOnce, MapIsLive, LeftIsTorn, Callers, Failers
<1>3. FailedOnce
  BY DEF FailedOnce, Callers, Failers
<1> QED
  BY <1>1, <1>2, <1>3

\* The invariant survives every step.
LEMMA NextInv == ASSUME IInv, [Next]_vars PROVE IInv'
<1>1. CASE UNCHANGED vars
  BY <1>1 DEF vars, dialVars, peerVars, tearVars, IInv, TypeOK, Unplaced,
     Underway,
     OpensOnce, FailedOnce, MapIsLive, LeftIsTorn
<1>2. CASE Cleanup
  BY <1>2, CleanupInv
<1>3. ASSUME NEW c \in Conns, Step(c)
      PROVE  IInv'
  <2>1. ASSUME NEW r \in Relays, ConfigureRelays(c, r)
        PROVE  IInv'
    BY <2>1, ConfigureRelaysInv
  <2>2. CASE Dialling(c)
    BY <2>2, InsertInv, MakePeerInv, NegotiateInv, DialFailsInv DEF Dialling
  <2>3. CASE Timeout(c)
    BY <2>3, TimerFiresInv, TimerStopsInv, TimerFailsInv DEF Timeout
  <2>4. CASE ChannelOpens(c) \/ OnOpen(c) \/ OnConnected(c) \/ IceFails(c) \/ ChannelCloses(c)
    BY <2>4, ChannelOpensInv, OnOpenInv, OnConnectedInv, IceFailsInv,
       ChannelClosesInv
  <2>5. ASSUME NEW k \in Callers, Teardown(c, k)
        PROVE  IInv'
    BY <2>5, TearLookInv, TearStopInv, TearRestInv DEF Teardown
  <2> QED
    BY <1>3, <2>1, <2>2, <2>3, <2>4, <2>5 DEF Step
<1> QED
  BY <1>1, <1>2, <1>3 DEF Next

\* The invariant the theorems rest on.
THEOREM Invariance == Spec => []IInv
<1>1. Init => IInv
  BY InitInv
<1>2. IInv /\ [Next]_vars => IInv'
  BY NextInv
<1> QED
  BY <1>1, <1>2, PTL DEF Spec

\* Every variable of the manager keeps its type.
THEOREM TypeCorrect == Spec => []TypeOK
<1>1. IInv => TypeOK
  BY DEF IInv
<1> QED
  BY <1>1, Invariance, PTL

\* The map holds live connections only: m.mu makes leaving the map and losing the
\* state one step, on each of the ways out.
THEOREM MapStaysLive == Spec => []MapIsLive
<1>1. IInv => MapIsLive
  BY DEF IInv
<1> QED
  BY <1>1, Invariance, PTL

\* No connection leaves the map unnoticed, other than on behalf of another.
THEOREM LeaversAreTorn == Spec => []LeftIsTorn
<1>1. IInv => LeftIsTorn
  BY DEF IInv
<1> QED
  BY <1>1, Invariance, PTL

\* failConnection's check of the state makes concurrent failures close stopCh once.
THEOREM FailuresAreSafe == Spec => []FailuresStopOnce
<1>1. IInv => FailuresStopOnce
  BY DEF IInv, TypeOK, FailedOnce, FailuresStopOnce, Callers, Failers
<1> QED
  BY <1>1, Invariance, PTL
-----------------------------------------------------------------------------
\* The pool's view of the map, the callbacks and the diallers.
seen    == [r \in Relays |-> IF map[r] = NoConn THEN "none" ELSE state[map[r]]]
calls   == {relay[c] : c \in calling}
reached == {relay[c] : c \in {d \in Conns : step[d] \notin {"unused", "insert"}}}

\* A step that touches neither the map nor the state of a connection in it, nor the
\* callbacks, is none to CallManager.
LEMMA Unseen ==
  ASSUME IInv, UNCHANGED <<map, calling>>,
         \A r \in Relays : map[r] # NoConn => state'[map[r]] = state[map[r]],
         \A c \in Conns : c \in calling => relay'[c] = relay[c],
         \A c \in Conns : (step'[c] \in {"unused", "insert"}) =
                          (step[c] \in {"unused", "insert"}),
         \A c \in Conns : step[c] \notin {"unused", "insert"} => relay'[c] = relay[c]
  PROVE  seen' = seen /\ calls' = calls /\ reached' = reached
<1>1. calling \subseteq Conns
  BY DEF IInv, TypeOK
<1>2. seen' = seen
  BY DEF seen
<1>3. calls' = calls
  BY <1>1 DEF calls
<1>4. reached' = reached
  BY DEF reached
<1> QED
  BY <1>2, <1>3, <1>4

\* failConnection drops the relay of the connection, or nothing.
LEMMA FailIsDrop ==
  ASSUME IInv, NEW c \in Conns, NEW k, FailConnection(c, k),
         step[c] \in {"failing", "done"}, UNCHANGED <<relay, calling>>,
         step' = [step EXCEPT ![c] = IF step[c] = "failing" THEN "failed" ELSE step[c]]
  PROVE  \/ seen' = seen /\ calls' = calls /\ reached' = reached
         \/ \E r \in Relays : Pool!Drops(r)
<1> DEFINE r == relay[c]
<1>1. r \in Relays /\ map \in [Relays -> Conns \cup {NoConn}] /\ calling \subseteq Conns
      /\ state \in [Conns -> {"connecting", "open", "closed", "failed"}]
      /\ step \in [Conns -> {"unused", "insert", "peer", "negotiate", "failing",
                            "failed", "done"}]
  BY DEF IInv, TypeOK
<1>2. calls' = calls /\ reached' = reached
  BY <1>1 DEF calls, reached
<1>3. CASE state[c] = "failed" \/ map[r] = NoConn
  <2>1. map' = map
    BY <1>1, <1>3 DEF FailConnection
  <2>2. \A q \in Relays : map[q] # NoConn => map[q] # c
    BY <1>1, <1>3, TransportAssumption DEF IInv, MapIsLive
  <2>3. \A q \in Relays : map[q] # NoConn => state'[map[q]] = state[map[q]]
    BY <1>1, <2>2 DEF FailConnection
  <2>4. seen' = seen
    BY <2>1, <2>3 DEF seen
  <2> QED
    BY <1>2, <2>4
<1>4. CASE state[c] # "failed" /\ map[r] # NoConn
  <2>1. map' = [map EXCEPT ![r] = NoConn] /\ state' = [state EXCEPT ![c] = "failed"]
    BY <1>4 DEF FailConnection
  <2>2. \A q \in Relays : q # r => map[q] # c
    BY DEF IInv, MapIsLive
  <2>3. seen' = [seen EXCEPT ![r] = "none"]
    BY <1>1, <2>1, <2>2 DEF seen
  <2>4. seen[r] # "none"
    BY <1>1, <1>4 DEF seen
  <2> QED
    BY <1>1, <1>2, <2>3, <2>4 DEF Pool!Drops, seen, calls, reached
<1> QED
  BY <1>3, <1>4

\* Every step of the manager is one of the pool, or none.
LEMMA PoolStep ==
  ASSUME IInv, [Next]_vars
  PROVE  [Pool!PoolNext]_<<seen, calls, reached>>
<1> DEFINE Same == seen' = seen /\ calls' = calls /\ reached' = reached
<1> USE TransportAssumption
<1>t. /\ map \in [Relays -> Conns \cup {NoConn}] /\ relay \in [Conns -> Relays \cup {NoRelay}]
      /\ state \in [Conns -> {"connecting", "open", "closed", "failed"}]
      /\ step \in [Conns -> {"unused", "insert", "peer", "negotiate", "failing",
                            "failed", "done"}]
      /\ calling \subseteq Conns
      /\ \A c \in Conns : step[c] # "unused" => relay[c] \in Relays
  BY DEF IInv, TypeOK
<1>u. /\ \A c \in calling : step[c] = "done"
      /\ \A c \in Conns : timer[c] # "off" \/ chan[c] # "new" => step[c] = "done"
  BY <1>t DEF IInv, Underway
<1>m. \A r \in Relays : \A c \in Conns :
        map[r] = c => relay[c] = r /\ state[c] \in {"connecting", "open"}
  BY DEF IInv, MapIsLive
<1>1. CASE UNCHANGED vars
  BY <1>1 DEF vars, dialVars, peerVars, tearVars, seen, calls, reached
<1>2. CASE Cleanup
  <2>1. Pool!Clears
    BY <1>2 DEF Cleanup, dialVars, peerVars, Pool!Clears
  <2> QED
    BY <2>1 DEF Pool!PoolNext
<1>3. ASSUME NEW c \in Conns, Step(c)
      PROVE  Same \/ Pool!PoolNext
  <2>1. ASSUME NEW r \in Relays, ConfigureRelays(c, r)
        PROVE  Same
    BY <1>t, <1>u, <2>1, Unseen DEF ConfigureRelays, peerVars
  <2>2. CASE Insert(c)
    <3>1. relay[c] \in Relays /\ state[c] = "connecting" /\ c # NoConn
      BY <1>t, <2>2 DEF Insert, IInv, Unplaced
    <3>2. seen' = [seen EXCEPT ![relay[c]] = "connecting"]
      BY <1>t, <2>2, <3>1 DEF Insert, seen
    <3>3. reached' = reached \cup {relay[c]} /\ calls' = calls
      BY <1>t, <2>2 DEF Insert, peerVars, reached, calls
    <3>4. \E r \in Relays : Pool!Inserts(r)
      BY <3>1, <3>2, <3>3 DEF Pool!Inserts, seen, calls, reached
    <3> QED
      BY <3>4 DEF Pool!PoolNext
  <2>3. CASE MakePeer(c) \/ Negotiate(c)
    BY <1>t, <2>3, Unseen DEF MakePeer, Negotiate, peerVars
  <2>4. CASE DialFails(c)
    <3>1. /\ step[c] = "failing" /\ UNCHANGED <<relay, calling>> /\ FailConnection(c, "dial")
          /\ step' = [step EXCEPT ![c] = IF step[c] = "failing" THEN "failed" ELSE step[c]]
      BY <2>4 DEF DialFails, peerVars
    <3> QED
      BY <3>1, FailIsDrop DEF Pool!PoolNext
  <2>5. CASE IceFails(c)
    <3>1. /\ step[c] = "done" /\ UNCHANGED <<relay, calling>> /\ FailConnection(c, "ice")
          /\ step' = [step EXCEPT ![c] = IF step[c] = "failing" THEN "failed" ELSE step[c]]
      BY <1>t, <2>5 DEF IceFails, dialVars, peerVars
    <3> QED
      BY <3>1, FailIsDrop DEF Pool!PoolNext
  <2>6. CASE TimerFails(c)
    <3>1. /\ step[c] = "done" /\ UNCHANGED <<relay, calling>> /\ FailConnection(c, "timer")
          /\ step' = [step EXCEPT ![c] = IF step[c] = "failing" THEN "failed" ELSE step[c]]
      BY <1>t, <1>u, <2>6 DEF TimerFails, dialVars, peerVars
    <3> QED
      BY <3>1, FailIsDrop DEF Pool!PoolNext
  <2>7. CASE TimerFires(c) \/ TimerStops(c) \/ ChannelOpens(c)
    BY <1>t, <2>7, Unseen DEF TimerFires, TimerStops, ChannelOpens, dialVars,
       peerVars
  <2>8. CASE OnOpen(c)
    <3>1. /\ step[c] = "done" /\ relay[c] \in Relays /\ state[c] # "open"
          /\ state' = [state EXCEPT ![c] = "open"] /\ calling' = calling \cup {c}
          /\ UNCHANGED <<map, relay, step>>
      BY <1>t, <1>u, <2>8 DEF OnOpen, dialVars, IInv, OpensOnce
    <3>2. calls' = calls \cup {relay[c]} /\ reached' = reached /\ relay[c] \in reached
      BY <1>t, <3>1 DEF calls, reached
    <3>3. CASE map[relay[c]] = c
      <4>1. seen' = [seen EXCEPT ![relay[c]] = "open"] /\ seen[relay[c]] = "connecting"
        <5>1. \A q \in Relays : q # relay[c] => map[q] # c
          BY <1>m
        <5>2. state[c] = "connecting" /\ c # NoConn
          BY <1>m, <3>1, <3>3
        <5> QED
          BY <1>t, <3>1, <3>3, <5>1, <5>2 DEF seen
      <4>2. \E r \in Relays : Pool!Opens(r)
        BY <3>1, <3>2, <4>1 DEF Pool!Opens, seen, calls, reached
      <4> QED
        BY <4>2 DEF Pool!PoolNext
    <3>4. CASE map[relay[c]] # c
      <4>1. seen' = seen
        BY <1>t, <1>m, <3>1, <3>4 DEF seen
      <4>2. \E r \in Relays : Pool!OpensAside(r)
        BY <3>1, <3>2, <4>1 DEF Pool!OpensAside, seen, calls, reached
      <4> QED
        BY <4>2 DEF Pool!PoolNext
    <3> QED
      BY <3>3, <3>4
  <2>9. CASE OnConnected(c)
    <3>1. /\ c \in calling /\ relay[c] \in Relays /\ calling' = calling \ {c}
          /\ UNCHANGED <<map, state, relay, step>>
      BY <1>t, <1>u, <2>9 DEF OnConnected, dialVars
    <3>2. seen' = seen /\ reached' = reached
      BY <3>1 DEF seen, reached
    <3>3. relay[c] \in calls /\ calls' \in {calls, calls \ {relay[c]}}
      BY <1>t, <3>1 DEF calls
    <3>4. \E r \in Relays : Pool!Upcall(r)
      BY <3>1, <3>2, <3>3 DEF Pool!Upcall, seen, calls, reached
    <3> QED
      BY <3>4 DEF Pool!PoolNext
  <2>10. CASE ChannelCloses(c)
    <3>1. relay[c] \in Relays /\ UNCHANGED <<relay, step, calling>>
      BY <1>t, <1>u, <2>10 DEF ChannelCloses, dialVars
    <3>2. calls' = calls /\ reached' = reached
      BY <3>1 DEF calls, reached
    <3>3. CASE map[relay[c]] = NoConn
      BY <2>10, <3>2, <3>3 DEF ChannelCloses, seen
    <3>4. CASE map[relay[c]] # NoConn
      <4>1. /\ map' = [map EXCEPT ![relay[c]] = NoConn]
            /\ state' = [state EXCEPT ![map[relay[c]]] = "closed"]
        BY <2>10, <3>4 DEF ChannelCloses
      <4>2. seen' = [seen EXCEPT ![relay[c]] = "none"] /\ seen[relay[c]] # "none"
        <5>1. \A q \in Relays : q # relay[c] => map[q] # map[relay[c]]
          BY <1>t, <1>m, <3>1, <3>4
        <5>2. state[map[relay[c]]] # "none"
          BY <1>t, <1>m, <3>1, <3>4
        <5>3. seen' = [seen EXCEPT ![relay[c]] = "none"]
          BY <1>t, <3>1, <4>1, <5>1 DEF seen
        <5> QED
          BY <3>1, <3>4, <5>2, <5>3 DEF seen
      <4>3. \E r \in Relays : Pool!Drops(r)
        BY <3>1, <3>2, <4>2 DEF Pool!Drops, seen, calls, reached
      <4> QED
        BY <4>3 DEF Pool!PoolNext
    <3> QED
      BY <3>3, <3>4
  <2>11. ASSUME NEW k \in Callers, Teardown(c, k)
         PROVE  Same
    <3>1. UNCHANGED <<map, state, relay, step, calling>>
      BY <2>11 DEF Teardown, TearLook, TearStop, TearRest, dialVars, peerVars
    <3> QED
      BY <3>1, Unseen
  <2> QED
    BY <1>3, <2>1, <2>2, <2>3, <2>4, <2>5, <2>6, <2>7, <2>8, <2>9, <2>10, <2>11
    DEF Step, Dialling, Timeout
<1> QED
  BY <1>1, <1>2, <1>3 DEF Next

\* What CallManager assumes of its relays holds: the manager implements the pool.
THEOREM PoolIsImplemented == Spec => ImplementsPool
<1>1. Init => Pool!PoolInit
  BY TransportAssumption DEF Init, Pool!PoolInit
<1>2. IInv /\ [Next]_vars => [Pool!PoolNext]_<<seen, calls, reached>>
  BY PoolStep
<1>3. [Pool!PoolNext]_<<seen, calls, reached>> => [Pool!PoolNext]_Pool!poolVars
  BY DEF Pool!poolVars, seen, calls, reached
<1> QED
  BY <1>1, <1>2, <1>3, Invariance, PTL DEF Spec, ImplementsPool, Pool!PoolSpec
=============================================================================

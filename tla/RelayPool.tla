------------------------------ MODULE RelayPool ------------------------------
(***************************************************************************)
(* What a CallManager sees of its relay manager: for each relay the state  *)
(* of the connection the manager's map holds, and the onConnected calls    *)
(* that are on their way.  A relay may be dialled over an earlier attempt, *)
(* and a connection that has left the map may still open.  RelayTransport  *)
(* implements this specification; CallManager is built on its actions.     *)
(***************************************************************************)

CONSTANT Relays

VARIABLES
  conn,     \* HasConnection's view of each relay
  upcalls,  \* relays with an onConnected call that has yet to be handled
  dialled   \* relays that were dialled at some time

poolVars == <<conn, upcalls, dialled>>

ConnStates == {"none", "connecting", "open"}

PoolInit ==
  /\ conn = [r \in Relays |-> "none"]
  /\ upcalls = {} /\ dialled = {}

\* A dialling goroutine inserts a new connection, over whatever is there.
Inserts(r) ==
  /\ conn' = [conn EXCEPT ![r] = "connecting"]
  /\ dialled' = dialled \cup {r}
  /\ UNCHANGED upcalls

Opens(r) ==
  /\ conn[r] = "connecting"
  /\ conn' = [conn EXCEPT ![r] = "open"]
  /\ upcalls' = upcalls \cup {r}
  /\ UNCHANGED dialled

\* A connection opens that is no longer in the map.
OpensAside(r) ==
  /\ r \in dialled
  /\ upcalls' = upcalls \cup {r}
  /\ UNCHANGED <<conn, dialled>>

\* ICE failure, channel close, or the 20 s connection timeout.
Drops(r) ==
  /\ conn[r] # "none"
  /\ conn' = [conn EXCEPT ![r] = "none"]
  /\ UNCHANGED <<upcalls, dialled>>

\* onConnected enters the CallManager; another connection to the same relay may
\* have one more call on its way.
Upcall(r) ==
  /\ r \in upcalls
  /\ upcalls' \in {upcalls, upcalls \ {r}}
  /\ UNCHANGED <<conn, dialled>>

\* Cleanup empties the map.
Clears ==
  /\ conn' = [r \in Relays |-> "none"]
  /\ UNCHANGED <<upcalls, dialled>>

PoolNext ==
  \/ \E r \in Relays : \/ Inserts(r) \/ Opens(r) \/ OpensAside(r)
                       \/ Drops(r) \/ Upcall(r)
  \/ Clears

PoolSpec == PoolInit /\ [][PoolNext]_poolVars
=============================================================================

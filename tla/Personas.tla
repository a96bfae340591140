------------------------------- MODULE Personas -------------------------------
(***************************************************************************)
(* The agents (personas) of one session: agents_api.go and the agents      *)
(* table of sessionstore.go.  A request that makes an agent the active one *)
(* for a direction first clears that direction on every agent of the       *)
(* session and then sets it on its own, in a transaction of Postgres at    *)
(* READ COMMITTED: a statement sees the rows committed when it started,    *)
(* waits for the transactions that hold a lock on one of them, and keeps   *)
(* its own locks until its transaction is over.                            *)
(***************************************************************************)
EXTENDS Naturals

CONSTANTS Agents,   \* ids, each used once at a time (newSessionID is random)
          Editors   \* goroutines of the HTTP server

Directions == {"inbound", "outbound"}
NoAgent == "no agent"
NoDirection == "no direction"

ASSUME PersonaAssumption == NoAgent \notin Agents

VARIABLES
  agents,   \* committed rows
  active,   \* the directions each of them is active for
  edit,     \* each editor's request
  crowded   \* history: directions another request was clearing when an agent was inserted

personaVars == <<agents, active, edit, crowded>>

\* A request: its agent and the directions it sets; the directions it has
\* cleared and the rows it found (and locked) doing so; the clearing statement
\* under way and the rows it saw when it started.
Edit == [op : {"none", "create", "update"}, agent : Agents \cup {NoAgent},
         sets : SUBSET Directions, step : {"idle", "begin", "clear", "wait"},
         cleared : SUBSET Directions, hit : [Directions -> SUBSET Agents],
         clearing : Directions \cup {NoDirection}, saw : SUBSET Agents]

NoEdit == [op |-> "none", agent |-> NoAgent, sets |-> {}, step |-> "idle", cleared |-> {},
           hit |-> [d \in Directions |-> {}], clearing |-> NoDirection, saw |-> {}]

PersonaTypeOK ==
  /\ agents \subseteq Agents
  /\ active \in [Agents -> SUBSET Directions]
  /\ edit \in [Editors -> Edit]
  /\ crowded \subseteq Directions

PersonaInit ==
  /\ agents = {} /\ active = [a \in Agents |-> {}]
  /\ edit = [e \in Editors |-> NoEdit] /\ crowded = {}

Locks(e) == edit[e].hit["inbound"] \cup edit[e].hit["outbound"]
LockedByOther(e, S) == \E o \in Editors \ {e} : S \cap Locks(o) # {}

\* handleCreateAgent
CreateAgent(e, a, D) ==
  /\ edit[e] = NoEdit /\ a \notin agents
  /\ \A o \in Editors : edit[o].agent # a
  /\ edit' = [edit EXCEPT ![e] = [NoEdit EXCEPT !.op = "create", !.agent = a,
                                                !.sets = D, !.step = "clear"]]
  /\ UNCHANGED <<agents, active, crowded>>

\* handleUpdateAgent: the directions come with the request.
UpdateAgent(e, a, D) ==
  /\ edit[e] = NoEdit /\ a \in agents
  /\ edit' = [edit EXCEPT ![e] = [NoEdit EXCEPT !.op = "update", !.agent = a,
                                                !.sets = D, !.step = "begin"]]
  /\ UNCHANGED <<agents, active, crowded>>

\* handleSetActiveAgent: the agent is read, before the transaction, and written
\* back with one direction more.
SetActiveAgent(e, a, d) == UpdateAgent(e, a, active[a] \cup {d})

\* updateAgent's SELECT: an agent deleted meanwhile is an error.
BeginUpdate(e) ==
  /\ edit[e].step = "begin"
  /\ edit' = [edit EXCEPT ![e] = IF edit[e].agent \in agents THEN [@ EXCEPT !.step = "clear"]
                                 ELSE NoEdit]
  /\ UNCHANGED <<agents, active, crowded>>

\* A plausible error: only the inbound direction is cleared.
ToClearInbound(e) == ({"inbound"} \cap edit[e].sets) \ edit[e].cleared
ToClear(e) == edit[e].sets \ edit[e].cleared

\* UPDATE agents SET inbound = FALSE WHERE session_id = $1 starts; then the same
\* for outbound.
ClearStarts(e) ==
  /\ edit[e].step = "clear" /\ ToClear(e) # {}
  /\ LET d == IF "inbound" \in ToClear(e) THEN "inbound" ELSE "outbound" IN
       edit' = [edit EXCEPT ![e] = [@ EXCEPT !.step = "wait", !.clearing = d, !.saw = agents]]
  /\ UNCHANGED <<agents, active, crowded>>

\* It goes on when it can lock every row it saw that still exists.
ClearRuns(e) ==
  /\ edit[e].step = "wait" /\ ~LockedByOther(e, edit[e].saw \cap agents)
  /\ LET q == edit[e] IN
       edit' = [edit EXCEPT ![e] = [q EXCEPT !.step = "clear", !.clearing = NoDirection, !.saw = {},
                                             !.cleared = @ \cup {q.clearing},
                                             !.hit = [@ EXCEPT ![q.clearing] = q.saw \cap agents]]]
  /\ UNCHANGED <<agents, active, crowded>>

\* The statement that clears a direction has started.
Clears(o, d) == d \in edit[o].cleared \cup {edit[o].clearing}

\* The INSERT, or the UPDATE of the agent's own row if it still exists, and the
\* commit, which shows everything the transaction wrote.
CommitEdit(e) ==
  /\ edit[e].step = "clear" /\ ToClear(e) = {}
  /\ LET q == edit[e]
         writes == q.op = "create" \/ q.agent \in agents IN
       /\ q.op = "update" => ~LockedByOther(e, {q.agent} \cap agents)
       /\ agents' = IF q.op = "create" THEN agents \cup {q.agent} ELSE agents
       /\ active' = [a \in Agents |->
                       IF a = q.agent /\ writes THEN q.sets
                       ELSE active[a] \ {d \in Directions : a \in q.hit[d]}]
       /\ crowded' = crowded \cup
                       {d \in Directions : q.op = "create" /\ \E o \in Editors \ {e} : Clears(o, d)}
  /\ edit' = [edit EXCEPT ![e] = NoEdit]

\* Any statement fails, or the client goes away and its context with it.
AbortEdit(e) ==
  /\ edit[e] # NoEdit
  /\ edit' = [edit EXCEPT ![e] = NoEdit]
  /\ UNCHANGED <<agents, active, crowded>>

\* handleDeleteAgent: one statement, which waits for the row.
DeleteAgent(e, a) ==
  /\ edit[e] = NoEdit /\ a \in agents /\ ~LockedByOther(e, {a})
  /\ agents' = agents \ {a} /\ active' = [active EXCEPT ![a] = {}]
  /\ UNCHANGED <<edit, crowded>>

PersonaNext ==
  \E e \in Editors :
    \/ \E a \in Agents :
         \/ \E D \in SUBSET Directions : CreateAgent(e, a, D) \/ UpdateAgent(e, a, D)
         \/ \E d \in Directions : SetActiveAgent(e, a, d)
         \/ DeleteAgent(e, a)
    \/ BeginUpdate(e) \/ ClearStarts(e) \/ ClearRuns(e) \/ CommitEdit(e) \/ AbortEdit(e)

PersonaSpec == PersonaInit /\ [][PersonaNext]_personaVars

\* At most one agent of a session is the active one of a direction, however the
\* requests interleave and fail, unless an agent was inserted after
\* another request's statement that clears the direction had started: that
\* request does not see the new row
\* (createAgent and updateAgent, sessionstore.go).
OneActivePersona ==
  \A d \in Directions \ crowded : \A a, b \in agents :
    d \in active[a] /\ d \in active[b] => a = b
===============================================================================

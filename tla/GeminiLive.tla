------------------------------ MODULE GeminiLive ------------------------------
(***************************************************************************)
(* The websocket clients of cmd/server/gemini_live.go.  A client has one   *)
(* current connection; a connection is dialled by Connect or by a          *)
(* reconnect goroutine, set up by a goroutine of its own and then read by  *)
(* readLoop.  Close, the handshake timeout, a lost network and a dialler   *)
(* that overtakes another one meet over conn, ready and closed, which are  *)
(* checked in critical sections of g.mu and used after them.               *)
(*                                                                         *)
(* Messages are data: what a message makes the agent do is in AIAgent.     *)
(***************************************************************************)
EXTENDS Naturals, FiniteSets

CONSTANTS Clients,   \* GeminiLiveClient objects
          Conns,     \* websocket connections, dialled once each
          NoConn,    \* a nil conn
          MaxTries,  \* len(backoffs) of reconnect
          Mixes      \* sets of events; a behaviour is exposed to one of them

Events == {"drop", "timeout",               \* lost links; answers met by the timeout
           "end", "stop", "limit",          \* of the call, the process, the agent
           "hangup", "transfer", "talk"}    \* what a model says or calls

ASSUME ClientAssumption ==
  /\ NoConn \notin Conns
  /\ Clients \cap (Conns \cup {NoConn}) = {}
  /\ MaxTries \in Nat \ {0}
  /\ Mixes \subseteq SUBSET Events

VARIABLES
  mix,      \* the events this behaviour is exposed to
  link,     \* each connection: whose it is, whether it is up, its goroutine
  client,   \* conn, ready and closed of each client
  attempt,  \* each running connectAndSetup: its step, connection, failures
  raised,   \* clients whose onClose is being called
  stray,    \* history: connections no Close reaches, see Dial
  orphans   \* history: clients nobody closes, see TimesOut (and AIAgent)

clientVars == <<mix, link, client, attempt, raised, stray, orphans>>

\* connectAndSetup runs for a client's Connect or for the reconnect goroutine
\* that the end of a connection's readLoop started.
Callers == Clients \cup Conns

Unused == [of |-> NoConn, up |-> FALSE, reader |-> "none", answer |-> "none"]
Idle   == [step |-> "idle", conn |-> NoConn, tries |-> 0]

Link == [of : Clients \cup {NoConn}, up : BOOLEAN,
         reader : {"none", "setup", "reading", "gone"},
         answer : {"none", "ok", "err"}]
Client == [conn : Conns \cup {NoConn}, ready : BOOLEAN, closed : BOOLEAN]
Attempt == [step : {"idle", "entry", "sleep", "dial", "await",
                    "ok", "failed"},
            conn : Conns \cup {NoConn}, tries : 0..MaxTries]

ClientTypeOK ==
  /\ mix \in Mixes
  /\ link \in [Conns -> Link]
  /\ client \in [Clients -> Client]
  /\ attempt \in [Callers -> Attempt]
  /\ raised \subseteq Clients
  /\ stray \subseteq Conns
  /\ orphans \subseteq Clients

ClientInit ==
  /\ mix \in Mixes
  /\ link = [c \in Conns |-> Unused]
  /\ client = [g \in Clients |-> [conn |-> NoConn, ready |-> FALSE, closed |-> FALSE]]
  /\ attempt = [a \in Callers |-> Idle]
  /\ raised = {} /\ stray = {} /\ orphans = {}

Owner(a) == IF a \in Clients THEN a ELSE link[a].of
Up(c) == c \in Conns /\ link[c].up

-------------------------------------------------------------------------------
\* Mutant of Close: the connection is left to the garbage collector.
CloseForgets(g) ==
  /\ client' = [client EXCEPT ![g].closed = TRUE]
  /\ UNCHANGED link

\* Close of g: it marks the client and closes the connection it has now.
Close(g) ==
  /\ client' = [client EXCEPT ![g].closed = TRUE]
  /\ link' = IF ~client[g].closed /\ client[g].conn # NoConn
             THEN [link EXCEPT ![client[g].conn].up = FALSE]
             ELSE link

\* What attempt a becomes when connectAndSetup returns an error: Connect
\* reports it; reconnect goes to its next delay, and after the last one it
\* closes the client and calls onClose.
Fails(a) ==
  [attempt EXCEPT ![a].step = IF a \in Conns /\ attempt[a].tries + 1 < MaxTries
                              THEN "sleep" ELSE "failed",
                  ![a].tries = IF a \in Conns THEN @ + 1 ELSE @]

\* The end of the delay: closed is read for the last time before dialling.
\* (The checks before the delay see a closed that stays, so one is enough.)
Wakes(a) ==
  /\ attempt[a].step = "sleep"
  /\ attempt' = [attempt EXCEPT ![a].step =
                   IF client[Owner(a)].closed THEN "idle" ELSE "dial"]
  /\ UNCHANGED <<mix, link, client, raised, stray, orphans>>

\* A reconnect goroutine gives up at once if somebody reconnected or closed.
Reconnects(a) ==
  /\ attempt[a].step = "entry"
  /\ attempt' = [attempt EXCEPT ![a].step =
                   IF client[Owner(a)].closed \/ client[Owner(a)].ready
                   THEN "idle" ELSE "sleep"]
  /\ UNCHANGED <<mix, link, client, raised, stray, orphans>>

\* Dial, the assignment of g.conn, which looks at nothing, and the setup message
\* (a write that fails ends like a failed read below): a client closed meanwhile
\* gets a connection that no Close will reach, and so does the connection it
\* replaces if that one is still up.
Dial(a) ==
  /\ attempt[a].step = "dial"
  /\ LET new == {c \in Conns : link[c] = Unused}
         g == Owner(a)
     IN  \/ /\ "drop" \in mix \/ new = {}
            /\ attempt' = Fails(a)
            /\ UNCHANGED <<mix, link, client, stray>>
         \/ /\ new # {}
            /\ LET c == CHOOSE d \in new : TRUE
               IN  /\ link' = [link EXCEPT ![c].of = g, ![c].up = TRUE, ![c].reader = "setup"]
                   /\ client' = [client EXCEPT ![g].conn = c]
                   /\ attempt' = [attempt EXCEPT ![a].step = "await", ![a].conn = c]
                   /\ stray' = stray \cup {d \in {client[g].conn} : Up(d)}
                                     \cup {d \in {c} : client[g].closed}
  /\ UNCHANGED <<mix, raised, orphans>>

\* The setup goroutine of c: setupComplete makes the client ready and readLoop
\* follows; an error is passed on.
SetupCompletes(c) ==
  /\ link[c].reader = "setup" /\ link[c].up
  /\ link' = [link EXCEPT ![c].reader = "reading", ![c].answer = "ok"]
  /\ client' = [client EXCEPT ![link[c].of].ready = TRUE]
  /\ UNCHANGED <<mix, attempt, raised, stray, orphans>>

SetupFails(c) ==
  /\ link[c].reader = "setup" /\ ~link[c].up
  /\ link' = [link EXCEPT ![c].reader = "gone", ![c].answer = "err"]
  /\ UNCHANGED <<mix, client, attempt, raised, stray, orphans>>

\* The select at the end of connectAndSetup takes the answer ...
TakesAnswer(a) ==
  /\ attempt[a].step = "await"
  /\ link[attempt[a].conn].answer # "none"
  /\ IF link[attempt[a].conn].answer = "ok"
     THEN /\ attempt' = [attempt EXCEPT ![a].step = IF a \in Clients THEN "ok" ELSE "idle"]
          /\ UNCHANGED link
     ELSE /\ attempt' = Fails(a)
          /\ link' = [link EXCEPT ![attempt[a].conn].up = FALSE]
  /\ UNCHANGED <<mix, client, raised, stray, orphans>>

\* ... or the timeout, even when the answer is there as well: then Connect
\* reports an error for a client whose readLoop runs and reconnects.
TimesOut(a) ==
  /\ attempt[a].step = "await"
  /\ "timeout" \in mix \/ link[attempt[a].conn].answer = "none"
  /\ attempt' = Fails(a)
  /\ link' = [link EXCEPT ![attempt[a].conn].up = FALSE]
  /\ orphans' = IF a \in Clients /\ link[attempt[a].conn].answer = "ok"
                THEN orphans \cup {a} ELSE orphans
  /\ UNCHANGED <<mix, client, raised, stray>>

\* reconnect has used up its delays: Close, then onClose.
Exhausted(a) ==
  /\ a \in Conns /\ attempt[a].step = "failed"
  /\ Close(Owner(a))
  /\ attempt' = [attempt EXCEPT ![a] = Idle]
  /\ raised' = raised \cup {Owner(a)}
  /\ UNCHANGED <<mix, stray, orphans>>

\* Mutant of ReadLoopEnds: it compares conn after having cleared it.
ReadLoopGivesUp(c) ==
  /\ link[c].reader = "reading" /\ ~link[c].up
  /\ link' = [link EXCEPT ![c].reader = "gone"]
  /\ client' = [client EXCEPT ![link[c].of].ready = FALSE]
  /\ UNCHANGED <<mix, attempt, raised, stray, orphans>>

\* readLoop leaves after a read error: the current connection of an open
\* client is reconnected, that of a closed one calls onClose.
ReadLoopEnds(c) ==
  /\ link[c].reader = "reading" /\ ~link[c].up
  /\ link' = [link EXCEPT ![c].reader = "gone"]
  /\ LET g == link[c].of
         current == client[g].conn = c
     IN  /\ client' = [client EXCEPT ![g].ready = @ /\ ~current]
         /\ attempt' = IF current /\ ~client[g].closed
                       THEN [attempt EXCEPT ![c].step = "entry"] ELSE attempt
         /\ raised' = IF current /\ client[g].closed
                      THEN raised \cup {g} ELSE raised
  /\ UNCHANGED <<mix, stray, orphans>>

\* The network, or the server's end of the connection.
Drops(c) ==
  /\ "drop" \in mix
  /\ link[c].up
  /\ link' = [link EXCEPT ![c].up = FALSE]
  /\ UNCHANGED <<mix, client, attempt, raised, stray, orphans>>

ConnectionSteps ==
  \/ \E a \in Callers : Wakes(a) \/ Reconnects(a) \/ Dial(a)
                        \/ TakesAnswer(a) \/ TimesOut(a) \/ Exhausted(a)
  \/ \E c \in Conns : SetupFails(c) \/ ReadLoopEnds(c)

PeerSteps == \E c \in Conns : SetupCompletes(c) \/ Drops(c)
===============================================================================

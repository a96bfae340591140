---------------------------- MODULE AIAgentProofs ----------------------------
(***************************************************************************)
(* What the voice agent of a call promises, for any clients, connections,  *)
(* tools, delays and mixes of events: the types of AIAgent and GeminiLive, *)
(* and that no Gemini session outlives its agent but in the ways the code  *)
(* leaves open.                                                            *)
(***************************************************************************)
EXTENDS AIAgent, TLAPS

-------------------------------------------------------------------------------
(* The inductive invariant.                                                *)

\* A connection is dialled for a client, set up by a goroutine and then read; a
\* reconnect goroutine runs only for one that was read and is not any more.
LinkOK(c) ==
  /\ link[c].reader = "none" => link[c].of = NoConn /\ ~link[c].up
  /\ link[c].reader # "none" => link[c].of \in Clients
  /\ link[c].answer = "none" <=> link[c].reader \in {"none", "setup"}
  /\ link[c].reader = "reading" => link[c].answer = "ok"
  /\ link[c].reader # "gone" => attempt[c].step = "idle" /\ attempt[c].tries = 0
  /\ attempt[c].step # "idle" => link[c].answer = "ok"

\* An attempt waits for a connection of its own client; Connect does not retry.
AttemptOK(a) ==
  /\ attempt[a].step = "await" =>
       attempt[a].conn \in Conns /\ link[attempt[a].conn].of = Owner(a)
  /\ a \in Conns /\ attempt[a].step \in {"entry", "sleep", "dial", "await"} =>
       attempt[a].tries < MaxTries
  /\ a \in Clients => attempt[a].step \notin {"entry", "sleep"}

\* Close reaches every connection that is up, but for the strays.
Reached(c) ==
  link[c].up /\ c \notin stray =>
    client[link[c].of].conn = c /\ ~client[link[c].of].closed

\* Connect has not seen its client set up, and no connection of it was.
Early(g) ==
  \/ attempt[g].step \in {"idle", "dial"}
  \/ attempt[g].step = "await" /\ link[attempt[g].conn].answer # "ok"
  \/ attempt[g].step = "failed" /\ g \notin orphans
Sole(g) ==
  Early(g) => \A c \in Conns : link[c].of = g =>
    /\ link[c].answer # "ok"
    /\ \/ attempt[g].step = "await" /\ attempt[g].conn = c
       \/ attempt[g].step = "failed" /\ ~link[c].up

\* Somebody will close the client, has closed it, or there is nothing to close.
Kept(g) ==
  \/ client[g].closed \/ g \in orphans \/ attempt[g].step \in {"idle", "failed"}
  \/ g \in Targets /\ transfer[g] = "connecting"
  \/ agent.gemini = g /\ agent.released = 0

Untried(t) == transfer[t] \in {"none", "begin", "load", "close"} => attempt[t].step = "idle"

\* One goroutine at most is inside Detach.
DetachedOnce ==
  /\ agent.inside # {} => agent.detached /\ agent.released = 0
  /\ ~agent.detached => agent.released = 0
  /\ \A d \in agent.inside, e \in agent.inside : d = e

\* Nothing happens before the agent's goroutine, nor a transfer before its Connect.
Nothing ==
  /\ agent.gemini = First /\ ~agent.detached /\ agent.timer = "none"
  /\ raised = {} /\ ~registered /\ \A e \in Enders : ender[e] = "idle"
  /\ (\A c \in Conns : link[c].reader = "none") /\ \A a \in Callers : attempt[a].step = "idle"
Starts ==
  /\ start = "new" => Nothing
  /\ start = "failed" => attempt[First].step = "failed"
  /\ Early(First) => \A t \in Targets : transfer[t] = "none"

\* The connections and attempts, as far as the clients go.
Linked == /\ \A c \in Conns : LinkOK(c) /\ Reached(c)
          /\ \A a \in Callers : AttemptOK(a)
          /\ \A g \in Clients : Sole(g)

\* The inductive invariant.
AgentInv ==
  /\ TypeOK /\ Linked /\ DetachedOnce /\ Starts
  /\ \A g \in Clients : Kept(g)
  /\ \A t \in Targets : Untried(t)

-------------------------------------------------------------------------------
(* What a step does to the connections.                                    *)

\* The identities of the constants.
LEMMA ClientNames == /\ NoConn \notin Conns /\ NoConn \notin Clients /\ MaxTries \in Nat \ {0}
                     /\ Clients \cap Conns = {} /\ First \in Clients /\ Targets = Clients \ {First}
BY ClientAssumption, AgentAssumption DEF Targets

\* No connection comes up or is answered; clients are closed together with
\* what Close reaches of them.
Quieter ==
  /\ link' \in [Conns -> Link] /\ client' \in [Clients -> Client]
  /\ \A c \in Conns : /\ link'[c].of = link[c].of /\ link'[c].reader = link[c].reader
                      /\ link'[c].answer = link[c].answer /\ (link'[c].up => link[c].up)
  /\ \A g \in Clients : client'[g].conn = client[g].conn /\ (client[g].closed => client'[g].closed)
  /\ \A c \in Conns : link'[c].up /\ c \notin stray =>
       client'[link[c].of].closed = client[link[c].of].closed

\* Steps that leave the connections alone.
LEMMA SameIsQuieter ==
  ASSUME ClientTypeOK, link' = link, client' = client PROVE Quieter
BY DEF ClientTypeOK, Quieter

\* A connection that goes down.
LEMMA DownIsQuieter ==
  ASSUME ClientTypeOK, NEW c \in Conns, link' = [link EXCEPT ![c].up = FALSE], client' = client
  PROVE  Quieter /\ ~link'[c].up
<1>1. link \in [Conns -> Link] /\ client \in [Clients -> Client]
  BY DEF ClientTypeOK
<1>2. PICK l : l = link[c]
  OBVIOUS
<1>3. PICK m : m = [l EXCEPT !.up = FALSE]
  OBVIOUS
<1>4. l \in Link /\ m \in Link /\ m.of = l.of /\ m.reader = l.reader /\ m.answer = l.answer /\ ~m.up
  BY <1>1, <1>2, <1>3 DEF Link
<1>5. link' = [link EXCEPT ![c] = m]
  BY <1>2, <1>3
<1> QED BY <1>1, <1>2, <1>4, <1>5 DEF Quieter

\* Close of a client takes the one connection it can reach down with it.
LEMMA CloseIsQuieter ==
  ASSUME ClientTypeOK, NEW g \in Clients, Close(g), \A c \in Conns : Reached(c) /\ LinkOK(c)
  PROVE  Quieter /\ client'[g].closed /\ \A h \in Clients \ {g} : client'[h] = client[h]
<1>1. link \in [Conns -> Link] /\ client \in [Clients -> Client]
  BY DEF ClientTypeOK
<1>2. PICK k : k = client[g]
  OBVIOUS
<1>3. PICK n : n = [k EXCEPT !.closed = TRUE]
  OBVIOUS
<1>4. k \in Client /\ n \in Client /\ n.conn = k.conn /\ n.closed
  BY <1>1, <1>2, <1>3 DEF Client
<1>5. client' = [client EXCEPT ![g] = n]
  BY <1>2, <1>3 DEF Close
<1>6. /\ client' \in [Clients -> Client] /\ client'[g] = n
      /\ \A h \in Clients \ {g} : client'[h] = client[h]
  BY <1>1, <1>4, <1>5
<1>7. CASE k.closed \/ k.conn = NoConn
  <2>1. link' = link
    BY <1>2, <1>7 DEF Close
  <2>2. ASSUME NEW c \in Conns, link[c].up, c \notin stray, link[c].of = g PROVE FALSE
    BY <1>2, <1>7, <2>2, ClientNames DEF Reached
  <2>3. \A c \in Conns : link[c].up => link[c].of \in Clients
    BY DEF LinkOK
  <2> QED BY <1>1, <1>2, <1>4, <1>6, <2>1, <2>2, <2>3 DEF Quieter
<1>8. CASE ~k.closed /\ k.conn # NoConn
  <2>1. PICK c0 \in Conns : c0 = k.conn
    BY <1>4, <1>8 DEF Client
  <2>2. link' = [link EXCEPT ![c0].up = FALSE]
    BY <1>2, <1>8, <2>1 DEF Close
  <2>3. PICK l : l = link[c0]
    OBVIOUS
  <2>4. PICK m : m = [l EXCEPT !.up = FALSE]
    OBVIOUS
  <2>5. m \in Link /\ m.of = l.of /\ m.reader = l.reader /\ m.answer = l.answer /\ ~m.up
    BY <1>1, <2>3, <2>4 DEF Link
  <2>6. link' = [link EXCEPT ![c0] = m]
    BY <2>2, <2>3, <2>4
  <2>7. /\ link' \in [Conns -> Link] /\ link'[c0] = m
        /\ \A c \in Conns \ {c0} : link'[c] = link[c]
    BY <1>1, <2>5, <2>6
  <2>8. ASSUME NEW c \in Conns, link'[c].up, c \notin stray
        PROVE  client'[link[c].of].closed = client[link[c].of].closed
    <3>1. c # c0 /\ link[c].up
      BY <2>5, <2>7, <2>8
    <3>2. client[link[c].of].conn = c /\ link[c].of \in Clients
      BY <2>8, <3>1 DEF Reached, LinkOK
    <3> QED BY <1>2, <1>6, <2>1, <3>1, <3>2
  <2> QED BY <1>2, <1>4, <1>6, <2>3, <2>5, <2>7, <2>8 DEF Quieter
<1> QED BY <1>7, <1>8

\* One attempt goes on, and not to a new connection.
Moves(a) ==
  /\ attempt' \in [Callers -> Attempt] /\ \A b \in Callers \ {a} : attempt'[b] = attempt[b]
  /\ attempt'[a].step # "await"
  /\ a \in Conns => /\ attempt[a].step # "idle"
                    /\ attempt'[a].step \in {"entry", "sleep", "dial"} => attempt'[a].tries < MaxTries
  /\ a \in Clients =>
       \/ attempt[a].step = "idle" /\ attempt'[a].step = "dial"
       \/ /\ attempt[a].step = "await" /\ link[attempt[a].conn].answer = "ok"
          /\ attempt'[a].step = "ok"
       \/ attempt[a].step = "dial" /\ attempt'[a].step = "failed"
       \/ /\ attempt[a].step = "await" /\ attempt'[a].step = "failed"
          /\ ~link'[attempt[a].conn].up
          /\ link[attempt[a].conn].answer = "ok" => a \in orphans'

\* A step that brings no connection up keeps that, whatever attempt goes on.
LEMMA QuietKeeps ==
  ASSUME ClientTypeOK, Linked, Quieter, attempt' = attempt \/ \E a \in Callers : Moves(a),
         stray' = stray, orphans \subseteq orphans'
  PROVE  Linked' /\ \A g \in Clients : Early(g)' => Early(g)
<1>1. /\ link \in [Conns -> Link] /\ client \in [Clients -> Client]
      /\ attempt \in [Callers -> Attempt] /\ Callers = Clients \cup Conns
  BY DEF ClientTypeOK, Callers
<1>2. \A c \in Conns : /\ link'[c].of = link[c].of /\ link'[c].reader = link[c].reader
                       /\ link'[c].answer = link[c].answer /\ (link'[c].up => link[c].up)
  BY DEF Quieter
<1>3. ASSUME NEW c \in Conns PROVE Reached(c)'
  <2>1. Reached(c) /\ LinkOK(c)
    BY DEF Linked
  <2> QED BY <1>2, <2>1 DEF Reached, LinkOK, Quieter
<1>4. \A a \in Callers : Owner(a)' = Owner(a)
  BY <1>1, <1>2 DEF Owner
<1>5. ASSUME NEW b \in Callers, attempt'[b] = attempt[b]
      PROVE  /\ AttemptOK(b)'
             /\ b \in Conns => LinkOK(b)'
             /\ b \in Clients => Sole(b)' /\ (Early(b)' => Early(b))
  <2>1. AttemptOK(b) /\ (b \in Conns => LinkOK(b)) /\ (b \in Clients => Sole(b))
    BY DEF Linked
  <2>2. AttemptOK(b)'
    BY <1>2, <1>4, <1>5, <2>1 DEF AttemptOK
  <2>3. b \in Conns => LinkOK(b)'
    BY <1>2, <1>5, <2>1 DEF LinkOK
  <2>4. Early(b)' => Early(b)
    BY <1>2, <1>5, <2>1 DEF Early, AttemptOK
  <2>5. b \in Clients => Sole(b)'
    BY <1>2, <1>5, <2>1, <2>4 DEF Sole
  <2> QED BY <2>2, <2>3, <2>4, <2>5
<1>6. ASSUME NEW a \in Callers, Moves(a)
      PROVE  /\ AttemptOK(a)'
             /\ a \in Conns => LinkOK(a)'
             /\ a \in Clients => Sole(a)' /\ (Early(a)' => Early(a))
  <2>1. AttemptOK(a) /\ (a \in Conns => LinkOK(a)) /\ (a \in Clients => Sole(a))
    BY DEF Linked
  <2>2. AttemptOK(a)'
    BY <1>6, <2>1 DEF AttemptOK, Moves
  <2>3. a \in Conns => LinkOK(a)'
    BY <1>2, <1>6, <2>1 DEF LinkOK, Moves
  <2>4. ASSUME a \in Clients PROVE Sole(a)' /\ (Early(a)' => Early(a))
    <3>1. /\ attempt'[a].step \in {"dial", "ok", "failed"} /\ attempt'[a].step # "idle"
          /\ attempt'[a].step = "dial" => attempt[a].step = "idle"
          /\ attempt'[a].step = "failed" => \/ attempt[a].step = "dial"
                                            \/ attempt[a].step = "await" /\ ~link'[attempt[a].conn].up
      BY <1>6, <2>4 DEF Moves
    <3>2. Early(a)' => Early(a)
      BY <1>6, <2>4, <3>1 DEF Early, Moves
    <3>3. Sole(a)'
      <4> SUFFICES ASSUME Early(a)', NEW c \in Conns, link'[c].of = a
                   PROVE  /\ link'[c].answer # "ok"
                          /\ attempt'[a].step = "failed" /\ ~link'[c].up
        BY DEF Sole
      <4>1. /\ link[c].answer # "ok"
            /\ \/ attempt[a].step = "await" /\ attempt[a].conn = c
               \/ attempt[a].step = "failed" /\ ~link[c].up
        BY <1>2, <2>1, <2>4, <3>2 DEF Sole
      <4>2. attempt'[a].step # "ok"
        BY DEF Early
      <4> QED BY <1>2, <1>6, <2>4, <3>1, <4>1, <4>2 DEF Moves
    <3> QED BY <3>2, <3>3
  <2> QED BY <2>2, <2>3, <2>4
<1>7. CASE attempt' = attempt
  BY <1>1, <1>3, <1>5, <1>7 DEF Linked
<1>8. ASSUME NEW a \in Callers, Moves(a) PROVE Linked' /\ \A g \in Clients : Early(g)' => Early(g)
  <2>1. \A b \in Callers : b = a \/ attempt'[b] = attempt[b]
    BY <1>8 DEF Moves
  <2>2. ASSUME NEW b \in Callers
        PROVE  /\ AttemptOK(b)'
               /\ b \in Conns => LinkOK(b)'
               /\ b \in Clients => Sole(b)' /\ (Early(b)' => Early(b))
    BY <1>5, <1>6, <1>8, <2>1
  <2> QED BY <1>1, <1>3, <2>2 DEF Linked
<1> QED BY <1>7, <1>8

\* What connectAndSetup's error makes of an attempt.
LEMMA FailsFacts ==
  ASSUME ClientTypeOK, NEW a \in Callers, AttemptOK(a), attempt[a].step \in {"dial", "await"},
         attempt' = Fails(a)
  PROVE  /\ attempt' \in [Callers -> Attempt]
         /\ \A b \in Callers \ {a} : attempt'[b] = attempt[b]
         /\ a \in Clients => attempt'[a].step = "failed"
         /\ a \in Conns => /\ attempt'[a].step \in {"sleep", "failed"}
                           /\ attempt'[a].step = "sleep" => attempt'[a].tries < MaxTries
<1>1. attempt \in [Callers -> Attempt]
  BY DEF ClientTypeOK
<1>2. PICK r : r = attempt[a]
  OBVIOUS
<1>3. r \in Attempt /\ r.tries \in 0..MaxTries
  BY <1>1, <1>2 DEF Attempt
<1>4. PICK s \in {"sleep", "failed"} :
        s = IF a \in Conns /\ r.tries + 1 < MaxTries THEN "sleep" ELSE "failed"
  OBVIOUS
<1>5. PICK n : n = IF a \in Conns THEN r.tries + 1 ELSE r.tries
  OBVIOUS
<1>6. PICK q : q = [r EXCEPT !.step = s, !.tries = n]
  OBVIOUS
<1>7. n \in 0..MaxTries
  BY <1>2, <1>3, <1>5, ClientNames DEF AttemptOK
<1>8. q \in Attempt /\ q.step = s /\ q.tries = n
  BY <1>3, <1>4, <1>6, <1>7 DEF Attempt
<1>9. attempt' = [attempt EXCEPT ![a] = q]
  BY <1>1, <1>2, <1>4, <1>5, <1>6 DEF Fails
<1>10. attempt' \in [Callers -> Attempt] /\ attempt'[a] = q
       /\ \A b \in Callers \ {a} : attempt'[b] = attempt[b]
  BY <1>1, <1>8, <1>9
<1> QED BY <1>3, <1>4, <1>5, <1>8, <1>10, ClientNames

\* An attempt that goes to another step.
LEMMA StepFacts ==
  ASSUME ClientTypeOK, NEW a \in Callers,
         NEW s \in {"idle", "entry", "sleep", "dial", "await", "ok", "failed"},
         attempt' = [attempt EXCEPT ![a].step = s]
  PROVE  /\ attempt' \in [Callers -> Attempt]
         /\ \A b \in Callers \ {a} : attempt'[b] = attempt[b]
         /\ attempt'[a].step = s /\ attempt'[a].conn = attempt[a].conn
         /\ attempt'[a].tries = attempt[a].tries
<1>1. attempt \in [Callers -> Attempt]
  BY DEF ClientTypeOK
<1>2. PICK r : r = attempt[a]
  OBVIOUS
<1>3. PICK q : q = [r EXCEPT !.step = s]
  OBVIOUS
<1>4. q \in Attempt /\ q.step = s /\ q.conn = r.conn /\ q.tries = r.tries
  BY <1>1, <1>2, <1>3 DEF Attempt
<1>5. attempt' = [attempt EXCEPT ![a] = q]
  BY <1>2, <1>3
<1>6. attempt' \in [Callers -> Attempt] /\ attempt'[a] = q
      /\ \A b \in Callers \ {a} : attempt'[b] = attempt[b]
  BY <1>1, <1>4, <1>5
<1> QED BY <1>2, <1>4, <1>6

\* What the clients' own steps have to leave to the agent.
ClientsGoOn ==
  /\ ClientTypeOK' /\ Linked' /\ orphans \subseteq orphans'
  /\ \A g \in Clients : /\ Early(g)' => Early(g)
                        /\ client[g].closed => client'[g].closed
                        /\ attempt[g].step \in {"idle", "failed"} =>
                             attempt'[g].step = attempt[g].step
  /\ ~Nothing

\* A step of an attempt while no connection comes up.
LEMMA MoveGoesOn ==
  ASSUME ClientTypeOK, Linked, Quieter, NEW a \in Callers, Moves(a), attempt[a].step # "idle",
         UNCHANGED <<mix, stray>>, orphans \subseteq orphans',
         raised' \subseteq Clients, orphans' \subseteq Clients
  PROVE  ClientsGoOn
<1>1. Linked' /\ \A g \in Clients : Early(g)' => Early(g)
  BY QuietKeeps
<1>2. ClientTypeOK'
  BY DEF ClientTypeOK, Quieter, Moves
<1>3. ~Nothing
  BY DEF Nothing
<1>4. \A g \in Clients : attempt[g].step \in {"idle", "failed"} => attempt'[g].step = attempt[g].step
  <2> SUFFICES ASSUME NEW g \in Clients, attempt[g].step \in {"idle", "failed"}
               PROVE  attempt'[g].step = attempt[g].step
    OBVIOUS
  <2>1. g \in Callers
    BY DEF Callers
  <2>2. CASE g = a
    BY <2>2 DEF Moves
  <2>3. CASE g # a
    BY <2>1, <2>3 DEF Moves
  <2> QED BY <2>2, <2>3
<1> QED BY <1>1, <1>2, <1>3, <1>4 DEF ClientsGoOn, Quieter

\* A reconnect goroutine asks whether it is still wanted.
LEMMA AsksGoesOn ==
  ASSUME ClientTypeOK, Linked, NEW a \in Callers, Wakes(a) \/ Reconnects(a)
  PROVE  ClientsGoOn
<1>1. /\ attempt[a].step \in {"entry", "sleep"} /\ UNCHANGED <<mix, link, client, raised, stray, orphans>>
      /\ \E s \in {"idle", "sleep", "dial"} : attempt' = [attempt EXCEPT ![a].step = s]
  <2>1. CASE Wakes(a)
    BY <2>1 DEF Wakes
  <2>2. CASE Reconnects(a)
    BY <2>2 DEF Reconnects
  <2> QED BY <2>1, <2>2
<1>2. PICK s \in {"idle", "sleep", "dial"} : attempt' = [attempt EXCEPT ![a].step = s]
  BY <1>1
<1>3. /\ attempt' \in [Callers -> Attempt]
      /\ \A b \in Callers \ {a} : attempt'[b] = attempt[b]
      /\ attempt'[a].step = s /\ attempt'[a].tries = attempt[a].tries
  BY <1>2, StepFacts
<1>4. AttemptOK(a)
  BY DEF Linked
<1>5. Moves(a)
  BY <1>1, <1>3, <1>4 DEF Moves, AttemptOK
<1>6. Quieter
  BY <1>1, SameIsQuieter
<1> QED BY <1>1, <1>5, <1>6, MoveGoesOn DEF ClientTypeOK

\* Dial fails.
LEMMA DialFails ==
  ASSUME ClientTypeOK, Linked, NEW a \in Callers, attempt[a].step = "dial", attempt' = Fails(a),
         UNCHANGED <<mix, link, client, raised, stray, orphans>>
  PROVE  ClientsGoOn
<1>1. AttemptOK(a)
  BY DEF Linked
<1>2. /\ attempt' \in [Callers -> Attempt]
      /\ \A b \in Callers \ {a} : attempt'[b] = attempt[b]
      /\ a \in Clients => attempt'[a].step = "failed"
      /\ a \in Conns => /\ attempt'[a].step \in {"sleep", "failed"}
                        /\ attempt'[a].step = "sleep" => attempt'[a].tries < MaxTries
  BY <1>1, FailsFacts
<1>3. Moves(a)
  BY <1>2, ClientNames DEF Moves, Callers
<1>4. Quieter
  BY SameIsQuieter
<1> QED BY <1>3, <1>4, MoveGoesOn DEF ClientTypeOK

\* The answer is taken, or the timeout is.
LEMMA AnswersGoOn ==
  ASSUME ClientTypeOK, Linked, NEW a \in Callers, TakesAnswer(a) \/ TimesOut(a)
  PROVE  ClientsGoOn
<1>1. AttemptOK(a) /\ attempt[a].step = "await" /\ UNCHANGED <<mix, client, raised, stray>>
  BY DEF Linked, TakesAnswer, TimesOut
<1>2. PICK k \in Conns : k = attempt[a].conn
  BY <1>1 DEF AttemptOK
<1>3. CASE TakesAnswer(a) /\ link[k].answer = "ok"
  <2>1. link' = link /\ orphans' = orphans
        /\ attempt' = [attempt EXCEPT ![a].step = IF a \in Clients THEN "ok" ELSE "idle"]
    BY <1>2, <1>3 DEF TakesAnswer
  <2>2. PICK s \in {"ok", "idle"} : s = IF a \in Clients THEN "ok" ELSE "idle"
    OBVIOUS
  <2>3. /\ attempt' \in [Callers -> Attempt]
        /\ \A b \in Callers \ {a} : attempt'[b] = attempt[b]
        /\ attempt'[a].step = s
    BY <2>1, <2>2, StepFacts
  <2>4. Moves(a)
    BY <1>1, <1>2, <1>3, <2>2, <2>3, ClientNames DEF Moves
  <2>5. Quieter
    BY <1>1, <2>1, SameIsQuieter
  <2> QED BY <1>1, <2>1, <2>4, <2>5, MoveGoesOn DEF ClientTypeOK
<1>4. CASE ~(TakesAnswer(a) /\ link[k].answer = "ok")
  <2>1. /\ attempt' = Fails(a) /\ link' = [link EXCEPT ![k].up = FALSE]
        /\ orphans' = orphans \/ (a \in Clients /\ orphans' = orphans \cup {a})
        /\ a \in Clients /\ link[k].answer = "ok" => a \in orphans'
    <3>1. CASE TakesAnswer(a)
      BY <1>2, <1>4, <3>1 DEF TakesAnswer
    <3>2. CASE TimesOut(a)
      BY <1>2, <3>2 DEF TimesOut
    <3> QED BY <3>1, <3>2
  <2>2. /\ attempt' \in [Callers -> Attempt]
        /\ \A b \in Callers \ {a} : attempt'[b] = attempt[b]
        /\ a \in Clients => attempt'[a].step = "failed"
        /\ a \in Conns => /\ attempt'[a].step \in {"sleep", "failed"}
                          /\ attempt'[a].step = "sleep" => attempt'[a].tries < MaxTries
    BY <1>1, <2>1, FailsFacts
  <2>3. Quieter /\ ~link'[k].up
    BY <1>1, <2>1, DownIsQuieter
  <2>4. Moves(a)
    BY <1>1, <1>2, <2>1, <2>2, <2>3, ClientNames DEF Moves, Callers
  <2> QED BY <1>1, <2>1, <2>3, <2>4, MoveGoesOn DEF ClientTypeOK
<1> QED BY <1>3, <1>4

\* reconnect has given up.
LEMMA ExhaustedGoesOn ==
  ASSUME ClientTypeOK, Linked, NEW a \in Callers, Exhausted(a)
  PROVE  ClientsGoOn
<1>1. /\ a \in Conns /\ attempt[a].step = "failed" /\ Close(Owner(a))
      /\ attempt' = [attempt EXCEPT ![a] = Idle] /\ raised' = raised \cup {Owner(a)}
      /\ UNCHANGED <<mix, stray, orphans>>
  BY DEF Exhausted
<1>2. LinkOK(a) /\ a \notin Clients
  BY <1>1, ClientNames DEF Linked
<1>3. PICK g \in Clients : g = Owner(a)
  BY <1>1, <1>2 DEF LinkOK, Owner
<1>4. Quieter
  BY <1>1, <1>3, CloseIsQuieter DEF Linked
<1>5. attempt \in [Callers -> Attempt] /\ Idle \in Attempt /\ Idle.step = "idle"
  BY ClientNames DEF ClientTypeOK, Idle, Attempt
<1>6. Moves(a)
  BY <1>1, <1>2, <1>5 DEF Moves
<1> QED BY <1>1, <1>3, <1>4, <1>6, MoveGoesOn DEF ClientTypeOK

\* The network takes a connection down.
LEMMA DropsGoesOn ==
  ASSUME ClientTypeOK, Linked, NEW c \in Conns, Drops(c)
  PROVE  ClientsGoOn
<1>1. /\ link[c].up /\ link' = [link EXCEPT ![c].up = FALSE]
      /\ UNCHANGED <<mix, client, attempt, raised, stray, orphans>>
  BY DEF Drops
<1>2. Quieter
  BY <1>1, DownIsQuieter
<1>3. Linked' /\ \A g \in Clients : Early(g)' => Early(g)
  BY <1>1, <1>2, QuietKeeps
<1>4. ClientTypeOK'
  BY <1>1, <1>2 DEF ClientTypeOK, Quieter
<1>5. LinkOK(c)
  BY DEF Linked
<1>6. ~Nothing
  BY <1>1, <1>5 DEF Nothing, LinkOK
<1> QED BY <1>1, <1>3, <1>4, <1>6 DEF ClientsGoOn

\* A new connection belongs to the client it is dialled for; the one it
\* replaces is a stray one if it is still up.
LEMMA DialGoesOn ==
  ASSUME ClientTypeOK, Linked, NEW a \in Callers, Dial(a)
  PROVE  ClientsGoOn
<1>1. attempt[a].step = "dial" /\ UNCHANGED <<mix, raised, orphans>> /\ AttemptOK(a)
  BY DEF Dial, Linked
<1>2. PICK g : g = Owner(a)
  OBVIOUS
<1>3. g \in Clients /\ (a \in Conns => LinkOK(a) /\ link[a].of = g /\ link[a].answer = "ok")
      /\ (a \in Clients => a = g)
  BY <1>1, <1>2, ClientNames DEF Linked, LinkOK, Owner, Callers
<1>4. CASE attempt' = Fails(a) /\ UNCHANGED <<link, client, stray>>
  BY <1>1, <1>4, DialFails
<1>5. CASE ~(attempt' = Fails(a) /\ UNCHANGED <<link, client, stray>>)
  <2>1. PICK c \in Conns :
          /\ link[c] = Unused
          /\ link' = [link EXCEPT ![c].of = g, ![c].up = TRUE, ![c].reader = "setup"]
          /\ client' = [client EXCEPT ![g].conn = c]
          /\ attempt' = [attempt EXCEPT ![a].step = "await", ![a].conn = c]
          /\ stray' = stray \cup {d \in {client[g].conn} : Up(d)} \cup {d \in {c} : client[g].closed}
    <3>1. LET S == {d \in Conns : link[d] = Unused}
          IN  /\ S # {}
              /\ link' = [link EXCEPT ![CHOOSE d \in S : TRUE].of = Owner(a),
                                     ![CHOOSE d \in S : TRUE].up = TRUE,
                                     ![CHOOSE d \in S : TRUE].reader = "setup"]
              /\ client' = [client EXCEPT ![Owner(a)].conn = CHOOSE d \in S : TRUE]
              /\ attempt' = [attempt EXCEPT ![a].step = "await", ![a].conn = CHOOSE d \in S : TRUE]
              /\ stray' = stray \cup {d \in {client[Owner(a)].conn} : Up(d)}
                                \cup {d \in {CHOOSE d \in S : TRUE} : client[Owner(a)].closed}
      BY <1>5 DEF Dial
    <3>2. PICK S : S = {d \in Conns : link[d] = Unused}
      OBVIOUS
    <3>3. PICK c : c = CHOOSE d \in S : TRUE
      OBVIOUS
    <3>5. /\ S # {}
          /\ link' = [link EXCEPT ![c].of = g, ![c].up = TRUE, ![c].reader = "setup"]
          /\ client' = [client EXCEPT ![g].conn = c]
          /\ attempt' = [attempt EXCEPT ![a].step = "await", ![a].conn = c]
          /\ stray' = stray \cup {d \in {client[g].conn} : Up(d)} \cup {d \in {c} : client[g].closed}
      BY ONLY <1>2, <3>1, <3>2, <3>3, Zenon
    <3>4. c \in S
      BY <3>3, <3>5
    <3> QED BY <3>2, <3>4, <3>5
  <2>2. /\ link \in [Conns -> Link] /\ client \in [Clients -> Client]
        /\ attempt \in [Callers -> Attempt] /\ Callers = Clients \cup Conns
    BY DEF ClientTypeOK, Callers
  <2>3. /\ link[c].of = NoConn /\ ~link[c].up /\ link[c].reader = "none" /\ link[c].answer = "none"
    BY <2>1 DEF Unused
  <2>4. PICK l : l = [link[c] EXCEPT !.of = g, !.up = TRUE, !.reader = "setup"]
    OBVIOUS
  <2>5. /\ l \in Link /\ l.of = g /\ l.up /\ l.reader = "setup" /\ l.answer = "none"
    BY <1>3, <2>2, <2>3, <2>4 DEF Link
  <2>6. link' = [link EXCEPT ![c] = l]
    BY <2>1, <2>2, <2>4
  <2>7. /\ link' \in [Conns -> Link] /\ link'[c] = l
        /\ \A d \in Conns \ {c} : link'[d] = link[d]
    BY <2>2, <2>5, <2>6
  <2>8. PICK k : k = client[g]
    OBVIOUS
  <2>9. PICK n : n = [k EXCEPT !.conn = c]
    OBVIOUS
  <2>10. n \in Client /\ n.conn = c /\ n.closed = k.closed
    BY <1>3, <2>2, <2>8, <2>9 DEF Client
  <2>11. client' = [client EXCEPT ![g] = n]
    BY <2>1, <2>8, <2>9
  <2>12. /\ client' \in [Clients -> Client] /\ client'[g] = n
         /\ \A h \in Clients \ {g} : client'[h] = client[h]
    BY <1>3, <2>2, <2>10, <2>11
  <2>13. PICK r : r = attempt[a]
    OBVIOUS
  <2>14. PICK q : q = [r EXCEPT !.step = "await", !.conn = c]
    OBVIOUS
  <2>15. q \in Attempt /\ q.step = "await" /\ q.conn = c /\ q.tries = r.tries
    BY <2>2, <2>13, <2>14 DEF Attempt
  <2>16. attempt' = [attempt EXCEPT ![a] = q]
    BY <2>1, <2>2, <2>13, <2>14
  <2>17. /\ attempt' \in [Callers -> Attempt] /\ attempt'[a] = q
         /\ \A b \in Callers \ {a} : attempt'[b] = attempt[b]
    BY <2>2, <2>15, <2>16
  <2>18. a # c /\ LinkOK(c)
    BY <1>3, <2>3 DEF Linked
  <2>19. ASSUME NEW d \in Conns PROVE LinkOK(d)'
    <3>1. LinkOK(d)
      BY DEF Linked
    <3>2. CASE d = c
      <4>1. attempt'[d] = attempt[d]
        BY <2>2, <2>17, <2>18, <3>2
      <4> QED BY <1>3, <2>3, <2>5, <2>7, <3>1, <3>2, <4>1, ClientNames DEF LinkOK
    <3>3. CASE d # c
      <4>1. link'[d] = link[d]
        BY <2>7, <3>3
      <4>2. CASE d = a
        BY <1>1, <3>1, <4>1, <4>2, <1>3 DEF LinkOK
      <4>3. CASE d # a
        BY <2>2, <2>17, <3>1, <4>1, <4>3 DEF LinkOK
      <4> QED BY <4>2, <4>3
    <3> QED BY <3>2, <3>3
  <2>20. ASSUME NEW d \in Conns PROVE Reached(d)'
    <3>1. Reached(d) /\ LinkOK(d)
      BY DEF Linked
    <3>2. CASE d = c
      BY <2>1, <2>5, <2>7, <2>8, <2>10, <2>12, <3>2 DEF Reached
    <3>3. CASE d # c
      <4> SUFFICES ASSUME link[d].up, d \notin stray'
                   PROVE  client'[link[d].of].conn = d /\ ~client'[link[d].of].closed
        BY <2>7, <3>3 DEF Reached
      <4>1. client[link[d].of].conn = d /\ ~client[link[d].of].closed /\ link[d].of \in Clients
        BY <2>1, <3>1 DEF Reached, LinkOK
      <4>2. link[d].of # g
        <5>1. CASE link[d].of = g
          <6>1. d \in stray'
            BY <2>1, <4>1, <5>1 DEF Up
          <6> QED BY <6>1
        <5> QED BY <5>1
      <4> QED BY <2>12, <4>1, <4>2
    <3> QED BY <3>2, <3>3
  <2>21. ASSUME NEW b \in Callers PROVE Owner(b)' = Owner(b) \/ b = c
    BY <2>2, <2>7 DEF Owner
  <2>22. ASSUME NEW b \in Callers PROVE AttemptOK(b)'
    <3>1. AttemptOK(b)
      BY DEF Linked
    <3>2. CASE b = a
      <4>1. Owner(a)' = g
        BY <1>2, <2>18, <2>21
      <4> QED BY <1>1, <2>5, <2>7, <2>13, <2>15, <2>17, <3>1, <3>2, <4>1 DEF AttemptOK
    <3>3. CASE b # a
      <4>1. attempt'[b] = attempt[b]
        BY <2>17, <3>3
      <4>2. b = c => attempt[b].step = "idle"
        BY <2>3, <2>18 DEF LinkOK
      <4>3. CASE attempt[b].step = "await"
        <5>1. attempt[b].conn \in Conns /\ link[attempt[b].conn].of = Owner(b) /\ b # c
          BY <3>1, <4>2, <4>3 DEF AttemptOK
        <5>2. Owner(b) \in Clients
          BY <2>2, <4>3, ClientNames DEF Owner, Linked, LinkOK
        <5>3. attempt[b].conn # c
          BY <2>3, <5>1, <5>2, ClientNames
        <5> QED BY <2>7, <2>21, <3>1, <4>1, <5>1, <5>3 DEF AttemptOK
      <4>4. CASE attempt[b].step # "await"
        BY <3>1, <4>1, <4>4 DEF AttemptOK
      <4> QED BY <4>3, <4>4
    <3> QED BY <3>2, <3>3
  <2>23. ASSUME NEW h \in Clients PROVE Sole(h)' /\ (Early(h)' => Early(h))
    <3>1. Sole(h) /\ AttemptOK(h) /\ h \in Callers
      BY <2>2 DEF Linked
    <3>2. CASE h = a
      <4>1. Early(h) /\ h = g /\ \A d \in Conns : link[d].of # h
        BY <1>1, <1>3, <3>1, <3>2 DEF Early, Sole
      <4>2. Sole(h)'
        <5> SUFFICES ASSUME NEW d \in Conns, link'[d].of = h
                     PROVE  link'[d].answer # "ok" /\ attempt'[h].step = "await" /\ attempt'[h].conn = d
          BY DEF Sole
        <5>1. d = c
          BY <2>7, <4>1
        <5> QED BY <2>5, <2>7, <2>15, <2>17, <3>2, <5>1
      <4> QED BY <4>1, <4>2
    <3>3. CASE h # a
      <4>1. attempt'[h] = attempt[h]
        BY <2>17, <3>1, <3>3
      <4>2. attempt[h].step = "await" => attempt[h].conn \in Conns /\ attempt[h].conn # c
        BY <2>2, <2>3, <3>1, ClientNames DEF AttemptOK, Owner
      <4>3. Early(h)' <=> Early(h)
        BY <1>1, <2>7, <4>1, <4>2 DEF Early
      <4>4. CASE h = g
        <5>1. a \in Conns /\ link[a].of = h /\ link[a].answer = "ok"
          BY <1>3, <2>2, <3>3, <4>4
        <5>2. ~Early(h)
          BY <3>1, <5>1 DEF Sole
        <5> QED BY <4>3, <5>2 DEF Sole
      <4>5. CASE h # g
        <5>1. \A d \in Conns : link'[d].of = h => link'[d] = link[d]
          BY <2>5, <2>7, <4>5
        <5> QED BY <3>1, <4>1, <4>3, <5>1 DEF Sole
      <4> QED BY <4>4, <4>5
    <3> QED BY <3>2, <3>3
  <2>24. Linked'
    BY <2>19, <2>20, <2>22, <2>23 DEF Linked
  <2>25. ClientTypeOK'
    <3>1. stray' \subseteq Conns
      BY <2>1, <2>2 DEF ClientTypeOK, Up
    <3> QED BY <1>1, <2>7, <2>12, <2>17, <3>1 DEF ClientTypeOK
  <2>26. \A h \in Clients : attempt[h].step \in {"idle", "failed"} => attempt'[h].step = attempt[h].step
    BY <1>1, <2>2, <2>17
  <2>27. \A h \in Clients : client'[h].closed = client[h].closed
    BY <2>8, <2>10, <2>12
  <2>28. ~Nothing
    BY <1>1 DEF Nothing
  <2> QED BY <1>1, <2>23, <2>24, <2>25, <2>26, <2>27, <2>28 DEF ClientsGoOn
<1> QED BY <1>4, <1>5

\* The setup goroutine of c has its answer: it was the first one of its client
\* to be ready, if it is "ok".
LEMMA SetupGoesOn ==
  ASSUME ClientTypeOK, Linked, NEW c \in Conns, SetupCompletes(c) \/ SetupFails(c)
  PROVE  ClientsGoOn
<1>1. link[c].reader = "setup" /\ UNCHANGED <<mix, attempt, raised, stray, orphans>>
  BY DEF SetupCompletes, SetupFails
<1>2. /\ link \in [Conns -> Link] /\ client \in [Clients -> Client]
      /\ attempt \in [Callers -> Attempt] /\ Callers = Clients \cup Conns
  BY DEF ClientTypeOK, Callers
<1>3. LinkOK(c) /\ link[c].of \in Clients /\ link[c].answer = "none" /\ attempt[c].step = "idle"
  BY <1>1 DEF Linked, LinkOK
<1>4. PICK g \in Clients : g = link[c].of
  BY <1>3
<1>5. PICK w \in {"ok", "err"} :
        \/ w = "ok" /\ SetupCompletes(c)
        \/ w = "err" /\ SetupFails(c)
  OBVIOUS
<1>6. PICK s \in {"reading", "gone"} : s = IF w = "ok" THEN "reading" ELSE "gone"
  OBVIOUS
<1>7. link' = [link EXCEPT ![c].reader = s, ![c].answer = w] /\ (w = "ok" <=> link[c].up)
  <2>1. CASE SetupCompletes(c)
    BY <1>5, <1>6, <2>1 DEF SetupCompletes, SetupFails
  <2>2. CASE SetupFails(c)
    BY <1>5, <1>6, <2>2 DEF SetupFails, SetupCompletes
  <2> QED BY <1>5, <2>1, <2>2
<1>8. PICK l : l = link[c]
  OBVIOUS
<1>9. PICK m : m = [l EXCEPT !.reader = s, !.answer = w]
  OBVIOUS
<1>10. l \in Link /\ m \in Link /\ m.of = g /\ m.up = l.up /\ m.reader = s /\ m.answer = w
  BY <1>2, <1>4, <1>8, <1>9 DEF Link
<1>11. link' = [link EXCEPT ![c] = m]
  BY <1>2, <1>7, <1>8, <1>9
<1>12. /\ link' \in [Conns -> Link] /\ link'[c] = m
       /\ \A d \in Conns \ {c} : link'[d] = link[d]
  BY <1>2, <1>10, <1>11
<1>13. /\ client' \in [Clients -> Client]
       /\ \A h \in Clients : client'[h].conn = client[h].conn /\ client'[h].closed = client[h].closed
  <2>1. CASE SetupFails(c)
    BY <1>2, <2>1 DEF SetupFails
  <2>2. CASE SetupCompletes(c)
    <3>1. PICK k : k = client[g]
      OBVIOUS
    <3>2. PICK n : n = [k EXCEPT !.ready = TRUE]
      OBVIOUS
    <3>3. n \in Client /\ n.conn = k.conn /\ n.closed = k.closed
      BY <1>2, <3>1, <3>2 DEF Client
    <3>4. client' = [client EXCEPT ![g] = n]
      BY <1>4, <2>2, <3>1, <3>2 DEF SetupCompletes
    <3> QED BY <1>2, <3>1, <3>3, <3>4
  <2> QED BY <2>1, <2>2
<1>14. \A d \in Conns : link'[d].of = link[d].of /\ link'[d].up = link[d].up
  BY <1>4, <1>8, <1>10, <1>12
<1>15. ASSUME NEW d \in Conns PROVE LinkOK(d)' /\ Reached(d)'
  <2>1. LinkOK(d) /\ Reached(d)
    BY DEF Linked
  <2>2. Reached(d)'
    BY <1>1, <1>13, <1>14, <2>1 DEF Reached, LinkOK
  <2>3. CASE d = c
    BY <1>1, <1>3, <1>6, <1>10, <1>12, <2>1, <2>2, <2>3 DEF LinkOK
  <2>4. CASE d # c
    BY <1>1, <1>12, <2>1, <2>2, <2>4 DEF LinkOK
  <2> QED BY <2>2, <2>3, <2>4
<1>16. ASSUME NEW b \in Callers PROVE AttemptOK(b)'
  <2>1. AttemptOK(b) /\ Owner(b)' = Owner(b)
    BY <1>2, <1>14 DEF Linked, Owner
  <2> QED BY <1>1, <1>14, <2>1 DEF AttemptOK
<1>17. ASSUME NEW h \in Clients PROVE Sole(h)' /\ (Early(h)' => Early(h))
  <2>1. Sole(h) /\ AttemptOK(h) /\ h \in Callers
    BY <1>2 DEF Linked
  <2>2. Early(h)' => Early(h)
    <3> SUFFICES ASSUME attempt[h].step = "await", link[attempt[h].conn].answer = "ok"
                 PROVE  link'[attempt[h].conn].answer = "ok"
      BY <1>1 DEF Early
    <3>1. attempt[h].conn # c /\ attempt[h].conn \in Conns
      BY <1>3, <2>1 DEF AttemptOK
    <3> QED BY <1>12, <3>1
  <2>3. Sole(h)'
    <3> SUFFICES ASSUME Early(h)', NEW d \in Conns, link'[d].of = h
                 PROVE  /\ link'[d].answer # "ok"
                        /\ \/ attempt[h].step = "await" /\ attempt[h].conn = d
                           \/ attempt[h].step = "failed" /\ ~link'[d].up
      BY <1>1 DEF Sole
    <3>1. /\ link[d].answer # "ok"
          /\ \/ attempt[h].step = "await" /\ attempt[h].conn = d
             \/ attempt[h].step = "failed" /\ ~link[d].up
      BY <1>14, <2>1, <2>2 DEF Sole
    <3>2. CASE d # c
      BY <1>12, <3>1, <3>2
    <3>3. CASE d = c
      <4>1. w # "ok"
        <5>1. CASE attempt[h].step = "await" /\ attempt[h].conn = c
          <6>1. link'[c].answer # "ok"
            BY <1>1, <5>1 DEF Early
          <6> QED BY <1>10, <1>12, <6>1
        <5>2. CASE attempt[h].step = "failed" /\ ~link[c].up
          BY <1>7, <5>2
        <5> QED BY <3>1, <3>3, <5>1, <5>2
      <4> QED BY <1>10, <1>12, <1>14, <3>1, <3>3, <4>1
    <3> QED BY <3>2, <3>3
  <2> QED BY <2>2, <2>3
<1>18. Linked'
  BY <1>15, <1>16, <1>17 DEF Linked
<1>19. ClientTypeOK'
  BY <1>1, <1>12, <1>13 DEF ClientTypeOK
<1>20. ~Nothing
  BY <1>1 DEF Nothing
<1> QED BY <1>1, <1>13, <1>17, <1>18, <1>19, <1>20 DEF ClientsGoOn

\* readLoop has left: the goroutine that reconnects, if there is one, starts.
LEMMA ReadLoopGoesOn ==
  ASSUME ClientTypeOK, Linked, NEW c \in Conns, ReadLoopEnds(c)
  PROVE  ClientsGoOn
<1>1. /\ link[c].reader = "reading" /\ ~link[c].up /\ UNCHANGED <<mix, stray, orphans>>
      /\ link' = [link EXCEPT ![c].reader = "gone"]
  BY DEF ReadLoopEnds
<1>2. /\ link \in [Conns -> Link] /\ client \in [Clients -> Client] /\ raised \subseteq Clients
      /\ attempt \in [Callers -> Attempt] /\ Callers = Clients \cup Conns
  BY DEF ClientTypeOK, Callers
<1>3. LinkOK(c) /\ link[c].of \in Clients /\ link[c].answer = "ok"
      /\ attempt[c].step = "idle" /\ attempt[c].tries = 0
  BY <1>1 DEF Linked, LinkOK
<1>4. PICK g \in Clients : g = link[c].of
  BY <1>3
<1>5. PICK current \in BOOLEAN : current <=> client[g].conn = c
  OBVIOUS
<1>6. PICK k : k = client[g]
  OBVIOUS
<1>7. PICK ready \in BOOLEAN : ready = (k.ready /\ ~current)
  OBVIOUS
<1>8. PICK n : n = [k EXCEPT !.ready = ready]
  OBVIOUS
<1>9. n \in Client /\ n.conn = k.conn /\ n.closed = k.closed
  BY <1>2, <1>6, <1>8 DEF Client
<1>10. client' = [client EXCEPT ![g] = n]
  <2>1. client' = [client EXCEPT ![g].ready = @ /\ ~(client[g].conn = c)]
    BY <1>4 DEF ReadLoopEnds
  <2>2. current = (client[g].conn = c)
    BY <1>5
  <2> QED BY <1>6, <1>7, <1>8, <2>1, <2>2
<1>11. /\ client' \in [Clients -> Client]
       /\ \A h \in Clients : client'[h].conn = client[h].conn /\ client'[h].closed = client[h].closed
  BY <1>2, <1>6, <1>9, <1>10
<1>12. PICK l : l = link[c]
  OBVIOUS
<1>13. PICK m : m = [l EXCEPT !.reader = "gone"]
  OBVIOUS
<1>14. l \in Link /\ m \in Link /\ m.of = g /\ m.up = l.up /\ m.reader = "gone" /\ m.answer = "ok"
  BY <1>2, <1>3, <1>4, <1>12, <1>13 DEF Link
<1>15. link' = [link EXCEPT ![c] = m]
  BY <1>1, <1>12, <1>13
<1>16. /\ link' \in [Conns -> Link] /\ link'[c] = m
       /\ \A d \in Conns \ {c} : link'[d] = link[d]
  BY <1>2, <1>14, <1>15
<1>17. \A d \in Conns : link'[d].of = link[d].of /\ link'[d].up = link[d].up
                        /\ link'[d].answer = link[d].answer
  BY <1>3, <1>4, <1>12, <1>14, <1>16
<1>18. /\ attempt' \in [Callers -> Attempt]
       /\ \A b \in Callers \ {c} : attempt'[b] = attempt[b]
       /\ attempt'[c].step \in {"idle", "entry"} /\ attempt'[c].tries = 0
  <2>1. attempt' = [attempt EXCEPT ![c].step = "entry"] \/ attempt' = attempt
    BY <1>4, <1>5 DEF ReadLoopEnds
  <2>2. CASE attempt' = attempt
    BY <1>2, <1>3, <2>2
  <2>3. CASE attempt' = [attempt EXCEPT ![c].step = "entry"]
    <3>1. c \in Callers
      BY <1>2
    <3> QED BY <1>3, <2>3, <3>1, StepFacts
  <2> QED BY <2>1, <2>2, <2>3
<1>19. raised' \subseteq Clients
  BY <1>2, <1>3 DEF ReadLoopEnds
<1>20. ASSUME NEW d \in Conns PROVE LinkOK(d)' /\ Reached(d)'
  <2>1. LinkOK(d) /\ Reached(d)
    BY DEF Linked
  <2>2. Reached(d)'
    BY <1>1, <1>11, <1>17, <2>1 DEF Reached, LinkOK
  <2>3. CASE d = c
    BY <1>3, <1>4, <1>14, <1>16, <2>2, <2>3 DEF LinkOK
  <2>4. CASE d # c
    BY <1>2, <1>16, <1>18, <2>1, <2>2, <2>4 DEF LinkOK
  <2> QED BY <2>2, <2>3, <2>4
<1>21. ASSUME NEW b \in Callers PROVE AttemptOK(b)'
  <2>1. AttemptOK(b) /\ Owner(b)' = Owner(b)
    BY <1>2, <1>17 DEF Linked, Owner
  <2>2. CASE b = c
    BY <1>18, <2>2, ClientNames DEF AttemptOK
  <2>3. CASE b # c
    BY <1>17, <1>18, <2>1, <2>3 DEF AttemptOK
  <2> QED BY <2>2, <2>3
<1>22. ASSUME NEW h \in Clients PROVE Sole(h)' /\ (Early(h)' => Early(h)) /\ attempt'[h] = attempt[h]
  <2>1. Sole(h) /\ AttemptOK(h) /\ attempt'[h] = attempt[h]
    BY <1>2, <1>18, ClientNames DEF Linked
  <2>2. Early(h)' <=> Early(h)
    BY <1>1, <1>17, <2>1 DEF Early, AttemptOK
  <2> QED BY <1>17, <2>1, <2>2 DEF Sole
<1>23. Linked'
  BY <1>20, <1>21, <1>22 DEF Linked
<1>24. ClientTypeOK'
  BY <1>1, <1>11, <1>16, <1>18, <1>19 DEF ClientTypeOK
<1>25. ~Nothing
  BY <1>1 DEF Nothing
<1> QED BY <1>1, <1>11, <1>22, <1>23, <1>24, <1>25 DEF ClientsGoOn

-------------------------------------------------------------------------------
(* What a step does to the agent.                                          *)

\* A step of the clients leaves the agent's invariant alone.
LEMMA ClientKeeps ==
  ASSUME AgentInv, ClientsGoOn, UNCHANGED agentVars
  PROVE  AgentInv'
<1>1. TypeOK'
  BY DEF AgentInv, TypeOK, ClientsGoOn, agentVars
<1>2. Linked' /\ DetachedOnce'
  BY DEF AgentInv, ClientsGoOn, DetachedOnce, agentVars
<1>3. Starts'
  BY ClientNames DEF AgentInv, ClientsGoOn, Starts, agentVars
<1>4. \A g \in Clients : Kept(g)'
  BY DEF AgentInv, ClientsGoOn, Kept, agentVars
<1>5. \A t \in Targets : Untried(t)'
  BY ClientNames DEF AgentInv, ClientsGoOn, Untried, agentVars
<1> QED BY <1>1, <1>2, <1>3, <1>4, <1>5 DEF AgentInv

\* The steps of the connections and of the network are steps of the clients.
LEMMA ConnectionsKeep ==
  ASSUME AgentInv, ConnectionSteps \/ PeerSteps, UNCHANGED agentVars
  PROVE  AgentInv'
<1>1. ClientTypeOK /\ Linked
  BY DEF AgentInv, TypeOK
<1>2. ASSUME NEW a \in Callers, Wakes(a) \/ Reconnects(a) \/ Dial(a)
                                \/ TakesAnswer(a) \/ TimesOut(a) \/ Exhausted(a)
      PROVE  ClientsGoOn
  <2>1. CASE Wakes(a) \/ Reconnects(a)
    BY <1>1, <2>1, AsksGoesOn
  <2>2. CASE Dial(a)
    BY <1>1, <2>2, DialGoesOn
  <2>3. CASE TakesAnswer(a) \/ TimesOut(a)
    BY <1>1, <2>3, AnswersGoOn
  <2>4. CASE Exhausted(a)
    BY <1>1, <2>4, ExhaustedGoesOn
  <2> QED BY <1>2, <2>1, <2>2, <2>3, <2>4
<1>3. ASSUME NEW c \in Conns, \/ SetupFails(c) \/ ReadLoopEnds(c)
                              \/ SetupCompletes(c) \/ Drops(c)
      PROVE  ClientsGoOn
  <2>1. CASE SetupFails(c) \/ SetupCompletes(c)
    BY <1>1, <2>1, SetupGoesOn
  <2>2. CASE ReadLoopEnds(c)
    BY <1>1, <2>2, ReadLoopGoesOn
  <2>3. CASE Drops(c)
    BY <1>1, <2>3, DropsGoesOn
  <2> QED BY <1>3, <2>1, <2>2, <2>3
<1>4. ClientsGoOn
  BY <1>2, <1>3 DEF ConnectionSteps, PeerSteps
<1> QED BY <1>4, ClientKeeps

\* What a step of the agent that touches no connection has to keep.
LEMMA AgentKeeps ==
  ASSUME AgentInv, UNCHANGED <<link, client, attempt, stray, orphans>>,
         TypeOK', DetachedOnce', start' = "new" => Nothing',
         start' = "failed" => attempt[First].step = "failed",
         agent'.gemini = agent.gemini, agent'.released = agent.released,
         \A t \in Targets : transfer'[t] # transfer[t] =>
           /\ ~Early(First)
           /\ transfer[t] \in {"none", "begin", "load", "close"} /\ transfer'[t] # "connecting"
  PROVE  AgentInv'
<1>1. ClientTypeOK /\ Linked
  BY DEF AgentInv, TypeOK
<1>2. Linked' /\ \A g \in Clients : Early(g)' => Early(g)
  BY <1>1, SameIsQuieter, QuietKeeps
<1>3. Starts'
  BY <1>2, ClientNames DEF AgentInv, Starts
<1>4. \A g \in Clients : Kept(g)'
  BY DEF AgentInv, Kept
<1>5. \A t \in Targets : Untried(t)'
  BY DEF AgentInv, Untried
<1> QED BY <1>2, <1>3, <1>4, <1>5 DEF AgentInv

\* Detach's flag is taken once.
LEMMA MarkFacts ==
  ASSUME agent \in Agent, DetachedOnce, NEW by \in Detachers, agent' = Mark(by, agent)
  PROVE  /\ agent' \in Agent /\ DetachedOnce'
         /\ agent'.gemini = agent.gemini /\ agent'.released = agent.released
<1>1. CASE agent.detached
  BY <1>1 DEF Mark, DetachedOnce
<1>2. CASE ~agent.detached
  <2>1. PICK a : a = agent
    OBVIOUS
  <2>2. PICK in : in = a.inside \cup {by}
    OBVIOUS
  <2>3. agent' = [a EXCEPT !.detached = TRUE, !.inside = in]
    BY <1>2, <2>1, <2>2 DEF Mark
  <2>4. a.inside = {} /\ a.released = 0 /\ in = {by}
    BY <1>2, <2>1, <2>2 DEF DetachedOnce, Agent
  <2>5. /\ agent' \in Agent /\ agent'.detached /\ agent'.inside = {by}
        /\ agent'.gemini = a.gemini /\ agent'.released = a.released
    <3>1. a \in Agent /\ in \subseteq Detachers
      BY <2>1, <2>4
    <3>2. PICK n : n = [a EXCEPT !.detached = TRUE, !.inside = in]
      OBVIOUS
    <3>3. /\ n \in Agent /\ n.detached = TRUE /\ n.inside = in
          /\ n.gemini = a.gemini /\ n.released = a.released
      BY <3>1, <3>2 DEF Agent
    <3> QED BY <2>3, <2>4, <3>2, <3>3
  <2> QED BY <2>1, <2>4, <2>5 DEF DetachedOnce
<1> QED BY <1>1, <1>2

\* A connection is read only after Connect of the first client had seen one.
LEMMA ReadAfterConnect ==
  ASSUME AgentInv, NEW c \in Conns, link[c].reader = "reading"
  PROVE  ~Early(First) /\ link[c].of \in Clients /\ start # "new"
<1>1. LinkOK(c) /\ \A g \in Clients : Sole(g)
  BY DEF AgentInv, Linked
<1>2. link[c].of \in Clients /\ link[c].answer = "ok"
  BY <1>1 DEF LinkOK
<1>3. start # "new"
  BY DEF AgentInv, Starts, Nothing
<1>4. ASSUME Early(First) PROVE FALSE
  <2>1. link[c].of # First
    BY <1>1, <1>2, <1>4, ClientNames DEF Sole
  <2>2. PICK t \in Targets : t = link[c].of
    BY <1>2, <2>1, ClientNames
  <2>3. attempt[t].step = "idle"
    BY <1>4, <2>2 DEF AgentInv, Starts, Untried
  <2> QED BY <1>1, <1>2, <2>2, <2>3, ClientNames DEF Sole, Early
<1> QED BY <1>2, <1>3, <1>4

\* The end of the call may come before the agent; nothing else may.
LEMMA NothingStays ==
  ASSUME AgentInv, UNCHANGED <<link, client, attempt, raised, start, registered, ender>>,
         start = "new" => agent' = agent
  PROVE  start' = "new" => Nothing'
BY DEF AgentInv, Starts, Nothing

\* The steps of Start's goroutine after Connect, and of the post-call actions.
LEMMA StartKeeps ==
  ASSUME AgentInv, Started \/ Arm \/ RegisterAgent \/ PostCall
  PROVE  AgentInv'
<1>1. /\ TypeOK /\ DetachedOnce /\ agent \in Agent
      /\ start = "failed" => attempt[First].step = "failed"
      /\ start = "new" => Nothing
  BY DEF AgentInv, Starts, TypeOK
<1>2. CASE Started
  <2>1. TypeOK' /\ DetachedOnce'
    BY <1>1, <1>2 DEF Started, TypeOK, DetachedOnce, clientVars, ClientTypeOK
  <2> QED BY <1>1, <1>2, <2>1, AgentKeeps DEF Started, clientVars
<1>3. CASE Arm
  <2>1. PICK t \in {"none", "armed", "stopped"} : agent' = [agent EXCEPT !.timer = t]
    <3>1. agent.timer \in {"none", "armed", "stopped"}
      BY <1>1 DEF Agent
    <3>2. CASE Limited
      BY <1>3, <3>2 DEF Arm
    <3>3. CASE ~Limited
      BY <1>3, <3>1, <3>3 DEF Arm
    <3> QED BY <3>2, <3>3
  <2>2. /\ agent' \in Agent /\ agent'.gemini = agent.gemini /\ agent'.detached = agent.detached
        /\ agent'.released = agent.released /\ agent'.inside = agent.inside
    BY <1>1, <2>1 DEF Agent
  <2>3. TypeOK' /\ DetachedOnce'
    BY <1>1, <1>3, <2>2 DEF Arm, TypeOK, DetachedOnce, clientVars, ClientTypeOK
  <2> QED BY <1>1, <1>3, <2>2, <2>3, AgentKeeps DEF Arm, clientVars
<1>4. CASE RegisterAgent
  <2>1. TypeOK' /\ DetachedOnce'
    BY <1>1, <1>4 DEF RegisterAgent, TypeOK, DetachedOnce, clientVars, ClientTypeOK
  <2> QED BY <1>1, <1>4, <2>1, AgentKeeps DEF RegisterAgent, clientVars
<1>5. CASE PostCall
  <2>1. posted' \subseteq {"transcript", "summary", "over"}
    BY <1>5 DEF PostCall
  <2>2. TypeOK' /\ DetachedOnce' /\ start # "new"
    BY <1>1, <1>5, <2>1 DEF PostCall, TypeOK, DetachedOnce, Nothing, clientVars, ClientTypeOK
  <2> QED BY <1>1, <1>5, <2>2, AgentKeeps DEF PostCall, clientVars
<1> QED BY <1>2, <1>3, <1>4, <1>5

\* The end of the call, and who takes the agent out of the registry.
LEMMA EndKeeps ==
  ASSUME AgentInv, CallEnds \/ CleanupAgent \/ Stop
  PROVE  AgentInv'
<1>1. /\ TypeOK /\ DetachedOnce /\ agent \in Agent
      /\ start = "failed" => attempt[First].step = "failed"
      /\ start = "new" => Nothing
  BY DEF AgentInv, Starts, TypeOK
<1>2. CASE CallEnds
  <2>1. TypeOK' /\ DetachedOnce'
    BY <1>1, <1>2 DEF CallEnds, EndsCall, TypeOK, DetachedOnce, clientVars, ClientTypeOK
  <2>2. start' = "new" => Nothing'
    BY <1>2, NothingStays DEF CallEnds, clientVars
  <2> QED BY <1>1, <1>2, <2>1, <2>2, AgentKeeps DEF CallEnds, clientVars
<1>3. CASE CleanupAgent
  <2>1. agent' = agent \/ (registered /\ agent' = Mark("cleanup", agent))
    BY <1>3 DEF CleanupAgent
  <2>2. /\ agent' \in Agent /\ DetachedOnce'
        /\ agent'.gemini = agent.gemini /\ agent'.released = agent.released
    BY <1>1, <2>1, MarkFacts DEF Detachers, DetachedOnce
  <2>3. TypeOK'
    BY <1>1, <1>3, <2>2 DEF CleanupAgent, TypeOK, clientVars, ClientTypeOK
  <2>4. start' = "new" => Nothing'
    BY <1>1, <1>3, <2>1 DEF CleanupAgent, Nothing, clientVars
  <2> QED BY <1>1, <1>3, <2>2, <2>3, <2>4, AgentKeeps DEF CleanupAgent, clientVars
<1>4. CASE Stop
  <2>1. /\ agent' \in Agent /\ DetachedOnce'
        /\ agent'.gemini = agent.gemini /\ agent'.released = agent.released
    BY <1>1, <1>4, MarkFacts DEF Stop, Detachers
  <2>2. TypeOK' /\ start # "new"
    BY <1>1, <1>4, <2>1 DEF Stop, TypeOK, Nothing, clientVars, ClientTypeOK
  <2> QED BY <1>1, <1>4, <2>1, <2>2, AgentKeeps DEF Stop, clientVars
<1> QED BY <1>2, <1>3, <1>4

\* The hangup tool and the duration limit.
LEMMA EnderKeeps ==
  ASSUME AgentInv, TimerFires \/ WaitForAudioFinish \/ \E e \in Enders : Finish(e)
  PROVE  AgentInv'
<1>1. /\ TypeOK /\ DetachedOnce /\ agent \in Agent
      /\ start = "failed" => attempt[First].step = "failed"
      /\ start = "new" => Nothing
  BY DEF AgentInv, Starts, TypeOK
<1>2. CASE TimerFires
  <2>1. /\ agent' \in Agent /\ agent'.gemini = agent.gemini /\ agent'.detached = agent.detached
        /\ agent'.released = agent.released /\ agent'.inside = agent.inside
    BY <1>1, <1>2 DEF TimerFires, Agent
  <2>2. TypeOK' /\ DetachedOnce' /\ start # "new"
    BY <1>1, <1>2, <2>1 DEF TimerFires, TypeOK, DetachedOnce, Nothing, clientVars, ClientTypeOK
  <2> QED BY <1>1, <1>2, <2>1, <2>2, AgentKeeps DEF TimerFires, clientVars
<1>3. CASE WaitForAudioFinish
  <2>1. TypeOK' /\ DetachedOnce' /\ start # "new"
    BY <1>1, <1>3 DEF WaitForAudioFinish, TypeOK, DetachedOnce, Nothing, Enders, clientVars, ClientTypeOK
  <2> QED BY <1>1, <1>3, <2>1, AgentKeeps DEF WaitForAudioFinish, clientVars
<1>4. ASSUME NEW e \in Enders, Finish(e) PROVE AgentInv'
  <2>1. agent' = agent \/ agent' = Mark(e, agent)
    BY <1>4 DEF Finish
  <2>2. /\ agent' \in Agent /\ DetachedOnce'
        /\ agent'.gemini = agent.gemini /\ agent'.released = agent.released
    BY <1>1, <2>1, MarkFacts DEF Enders, Detachers, DetachedOnce
  <2>3. TypeOK' /\ start # "new"
    BY <1>1, <1>4, <2>2 DEF Finish, EndsCall, TypeOK, Nothing, clientVars, ClientTypeOK
  <2> QED BY <1>1, <1>4, <2>2, <2>3, AgentKeeps DEF Finish, clientVars
<1> QED BY <1>2, <1>3, <1>4

\* What the model's turns do: a tool call, a line of the conversation.
LEMMA TurnKeeps ==
  ASSUME AgentInv, NEW c \in Conns, ToolCall(c) \/ Transcribed(c)
  PROVE  AgentInv'
<1>1. /\ TypeOK /\ DetachedOnce
      /\ start = "failed" => attempt[First].step = "failed"
  BY DEF AgentInv, Starts
<1>2. ~Early(First) /\ link[c].of \in Clients /\ start # "new"
  BY ReadAfterConnect DEF ToolCall, Transcribed
<1>3. CASE ToolCall(c)
  <2>1. ender' \in [Enders -> {"idle", "wait", "detach", "release", "terminate", "done"}]
    BY <1>1, <1>3 DEF ToolCall, TypeOK
  <2>2. /\ transfer' \in [Targets -> {"none", "begin", "load", "close", "connecting", "over"}]
        /\ \A t \in Targets : transfer'[t] # transfer[t] =>
             transfer[t] = "none" /\ transfer'[t] = "begin"
    BY <1>1, <1>3 DEF ToolCall, TypeOK
  <2>3. TypeOK' /\ DetachedOnce'
    BY <1>1, <1>3, <2>1, <2>2 DEF ToolCall, TypeOK, DetachedOnce, clientVars, ClientTypeOK
  <2> QED BY <1>1, <1>2, <1>3, <2>2, <2>3, AgentKeeps DEF ToolCall, clientVars
<1>4. CASE Transcribed(c)
  <2>1. TypeOK' /\ DetachedOnce'
    BY <1>1, <1>2, <1>4 DEF Transcribed, TypeOK, DetachedOnce, clientVars, ClientTypeOK
  <2> QED BY <1>1, <1>2, <1>4, <2>1, AgentKeeps DEF Transcribed, clientVars
<1> QED BY <1>3, <1>4

\* A transfer before it touches a client.
LEMMA TransferKeeps ==
  ASSUME AgentInv, NEW t \in Targets, BeginTransfer(t) \/ LoadPersona(t)
  PROVE  AgentInv'
<1>1. /\ TypeOK /\ DetachedOnce /\ agent \in Agent
      /\ start = "failed" => attempt[First].step = "failed"
      /\ transfer \in [Targets -> {"none", "begin", "load", "close", "connecting", "over"}]
  BY DEF AgentInv, Starts, TypeOK
<1>2. transfer[t] \in {"begin", "load"}
  BY DEF BeginTransfer, LoadPersona
<1>3. ~Early(First) /\ start # "new"
  <2>1. ~Early(First)
    BY <1>2 DEF AgentInv, Starts
  <2>2. start # "new"
    BY <2>1, ClientNames DEF AgentInv, Starts, Nothing, Early, Callers
  <2> QED BY <2>1, <2>2
<1>4. PICK b \in BOOLEAN : agent' = [agent EXCEPT !.transferring = b]
  <2>1. agent = [agent EXCEPT !.transferring = agent.transferring] /\ agent.transferring \in BOOLEAN
    BY <1>1 DEF Agent
  <2>2. CASE BeginTransfer(t)
    <3>1. PICK b \in BOOLEAN : b = (agent.transferring \/ ~agent.detached)
      OBVIOUS
    <3> QED BY <2>2, <3>1 DEF BeginTransfer
  <2>3. CASE LoadPersona(t)
    BY <2>1, <2>3 DEF LoadPersona
  <2> QED BY <2>2, <2>3
<1>5. /\ agent' \in Agent /\ agent'.gemini = agent.gemini /\ agent'.detached = agent.detached
      /\ agent'.released = agent.released /\ agent'.inside = agent.inside
  BY <1>1, <1>4 DEF Agent
<1>6. PICK s \in {"over", "load", "close"} : transfer' = [transfer EXCEPT ![t] = s]
  BY DEF BeginTransfer, LoadPersona
<1>7. /\ transfer' \in [Targets -> {"none", "begin", "load", "close", "connecting", "over"}]
      /\ \A u \in Targets : transfer'[u] # transfer[u] => u = t /\ transfer'[u] # "connecting"
  BY <1>1, <1>6
<1>8. UNCHANGED <<clientVars, start, ender, call, cleanup, registered, missed, spoke, posted>>
  BY DEF BeginTransfer, LoadPersona
<1>9. TypeOK' /\ DetachedOnce'
  BY <1>1, <1>5, <1>7, <1>8 DEF TypeOK, DetachedOnce, clientVars, ClientTypeOK
<1> QED BY <1>1, <1>2, <1>3, <1>5, <1>7, <1>8, <1>9, AgentKeeps DEF clientVars

\* onClose.
LEMMA OnCloseKeeps ==
  ASSUME AgentInv, NEW g \in Clients, OnClose(g)
  PROVE  AgentInv'
<1>1. /\ TypeOK /\ DetachedOnce /\ agent \in Agent
      /\ start = "failed" => attempt[First].step = "failed"
      /\ start # "new"
  BY DEF AgentInv, Starts, Nothing, TypeOK, OnClose
<1>2. agent' = agent \/ agent' = Mark("close", agent)
  BY DEF OnClose
<1>3. /\ agent' \in Agent /\ DetachedOnce'
      /\ agent'.gemini = agent.gemini /\ agent'.released = agent.released
  BY <1>1, <1>2, MarkFacts DEF Detachers, DetachedOnce
<1>4. TypeOK'
  BY <1>1, <1>3 DEF OnClose, TypeOK, ClientTypeOK
<1> QED BY <1>1, <1>3, <1>4, AgentKeeps DEF OnClose

\* Start dials for the first client.
LEMMA AttachKeeps ==
  ASSUME AgentInv, Attach
  PROVE  AgentInv'
<1>1. /\ TypeOK /\ ClientTypeOK /\ Linked /\ DetachedOnce /\ Nothing
  BY DEF AgentInv, Starts, TypeOK, Attach
<1>2. /\ start' = "connecting" /\ attempt' = [attempt EXCEPT ![First].step = "dial"]
      /\ UNCHANGED <<mix, link, client, raised, stray, orphans, agent, transfer, ender, call,
                     cleanup, registered, missed, spoke, posted>>
  BY DEF Attach
<1>3. First \in Callers /\ attempt[First].step = "idle"
  BY <1>1, ClientNames DEF Callers, Nothing
<1>4. /\ attempt' \in [Callers -> Attempt]
      /\ \A b \in Callers \ {First} : attempt'[b] = attempt[b]
      /\ attempt'[First].step = "dial"
  BY <1>1, <1>2, <1>3, StepFacts
<1>5. Moves(First)
  BY <1>3, <1>4, ClientNames DEF Moves
<1>6. Linked' /\ \A g \in Clients : Early(g)' => Early(g)
  BY <1>1, <1>2, <1>3, <1>5, SameIsQuieter, QuietKeeps
<1>7. TypeOK'
  BY <1>1, <1>2, <1>4 DEF TypeOK, ClientTypeOK
<1>8. DetachedOnce'
  BY <1>1, <1>2 DEF DetachedOnce
<1>9. Starts'
  BY <1>2, <1>6, ClientNames DEF AgentInv, Starts
<1>10. ASSUME NEW g \in Clients PROVE Kept(g)'
  <2>1. CASE g = First
    BY <1>1, <1>2, <2>1 DEF Kept, Nothing, DetachedOnce
  <2>2. CASE g # First
    <3>1. Kept(g) /\ attempt'[g] = attempt[g]
      BY <1>4, <2>2 DEF AgentInv, Callers
    <3> QED BY <1>2, <3>1 DEF Kept
  <2> QED BY <2>1, <2>2
<1>11. ASSUME NEW t \in Targets PROVE Untried(t)'
  <2>1. Untried(t) /\ attempt'[t] = attempt[t]
    BY <1>4, ClientNames DEF AgentInv, Callers
  <2> QED BY <1>2, <2>1 DEF Untried
<1> QED BY <1>6, <1>7, <1>8, <1>9, <1>10, <1>11 DEF AgentInv

\* Detach closes the client it finds.
LEMMA ReleaseKeeps ==
  ASSUME AgentInv, NEW by \in Detachers, Release(by)
  PROVE  AgentInv'
<1>1. /\ TypeOK /\ ClientTypeOK /\ Linked /\ DetachedOnce /\ agent \in Agent
  BY DEF AgentInv, TypeOK
<1>2. by \in agent.inside /\ agent.detached /\ agent.released = 0 /\ agent.inside = {by}
  BY <1>1 DEF Release, DetachedOnce, Agent
<1>3. /\ Close(agent.gemini)
      /\ UNCHANGED <<mix, attempt, raised, stray, orphans, start, transfer, ender, call,
                     cleanup, registered, missed, spoke, posted>>
  BY DEF Release
<1>4. PICK g \in Clients : g = agent.gemini
  BY <1>1 DEF Agent
<1>5. Quieter /\ client'[g].closed /\ \A h \in Clients \ {g} : client'[h] = client[h]
  BY <1>1, <1>3, <1>4, CloseIsQuieter DEF Linked
<1>6. Linked' /\ \A h \in Clients : Early(h)' => Early(h)
  BY <1>1, <1>3, <1>5, QuietKeeps
<1>7. /\ agent' \in Agent /\ agent'.gemini = g /\ agent'.detached
      /\ agent'.released = 1 /\ agent'.inside = {}
  <2>1. PICK a : a = agent
    OBVIOUS
  <2>2. PICK in : in = a.inside \ {by}
    OBVIOUS
  <2>3. PICK n : n = a.released + 1
    OBVIOUS
  <2>4. PICK t : t = IF a.timer = "armed" THEN "stopped" ELSE a.timer
    OBVIOUS
  <2>5. agent' = [a EXCEPT !.released = n, !.inside = in, !.timer = t]
    BY <2>1, <2>2, <2>3, <2>4 DEF Release
  <2>6. a \in Agent /\ n = 1 /\ in = {} /\ t \in {"none", "armed", "stopped"}
    BY <1>1, <1>2, <2>1, <2>2, <2>3, <2>4 DEF Agent
  <2>7. PICK m : m = [a EXCEPT !.released = n]
    OBVIOUS
  <2>8. m \in Agent /\ m.gemini = a.gemini /\ m.detached = a.detached /\ m.released = n
    BY <2>6, <2>7 DEF Agent
  <2>9. PICK k : k = [m EXCEPT !.inside = in]
    OBVIOUS
  <2>10. /\ k \in Agent /\ k.gemini = a.gemini /\ k.detached = a.detached
         /\ k.released = n /\ k.inside = in
    BY <2>6, <2>8, <2>9 DEF Agent
  <2>11. PICK l : l = [k EXCEPT !.timer = t]
    OBVIOUS
  <2>12. /\ l \in Agent /\ l.gemini = a.gemini /\ l.detached = a.detached
         /\ l.released = n /\ l.inside = in
    BY <2>6, <2>10, <2>11 DEF Agent
  <2>13. agent' = l
    BY <2>5, <2>7, <2>9, <2>11
  <2> QED BY <1>2, <1>4, <2>1, <2>6, <2>12, <2>13
<1>8. TypeOK'
  BY <1>1, <1>3, <1>5, <1>7 DEF TypeOK, ClientTypeOK, Quieter
<1>9. DetachedOnce'
  <2>1. agent'.detached /\ agent'.inside = {}
    BY <1>7
  <2> QED BY <2>1 DEF DetachedOnce
<1>10. Starts'
  BY <1>2, <1>3, <1>6, ClientNames DEF AgentInv, Starts, Nothing
<1>11. ASSUME NEW h \in Clients PROVE Kept(h)'
  <2>1. CASE h = g
    BY <1>5, <2>1 DEF Kept
  <2>2. CASE h # g
    BY <1>3, <1>4, <1>5, <2>2 DEF AgentInv, Kept
  <2> QED BY <2>1, <2>2
<1>12. \A t \in Targets : Untried(t)'
  BY <1>3 DEF AgentInv, Untried
<1> QED BY <1>6, <1>8, <1>9, <1>10, <1>11, <1>12 DEF AgentInv

\* A transfer closes the old client and dials for the new one, which was never
\* tried before.
LEMMA SwitchKeeps ==
  ASSUME AgentInv, NEW t \in Targets, SwitchPersona(t)
  PROVE  AgentInv'
<1>1. /\ TypeOK /\ ClientTypeOK /\ Linked /\ DetachedOnce /\ agent \in Agent
      /\ transfer \in [Targets -> {"none", "begin", "load", "close", "connecting", "over"}]
  BY DEF AgentInv, TypeOK
<1>2. /\ transfer[t] = "close" /\ transfer' = [transfer EXCEPT ![t] = "connecting"]
      /\ Close(agent.gemini) /\ attempt' = [attempt EXCEPT ![t].step = "dial"]
      /\ UNCHANGED <<mix, raised, stray, orphans, agent, start, ender, call, cleanup,
                     registered, missed, spoke, posted>>
  BY DEF SwitchPersona
<1>3. t \in Callers /\ t \in Clients /\ t # First /\ attempt[t].step = "idle"
  BY <1>2, ClientNames DEF AgentInv, Untried, Callers
<1>4. ~Early(First) /\ start # "new"
  <2>1. ~Early(First)
    BY <1>2 DEF AgentInv, Starts
  <2>2. start # "new"
    BY <2>1, ClientNames DEF AgentInv, Starts, Nothing, Early, Callers
  <2> QED BY <2>1, <2>2
<1>5. PICK g \in Clients : g = agent.gemini
  BY <1>1 DEF Agent
<1>6. Quieter /\ client'[g].closed /\ \A h \in Clients \ {g} : client'[h] = client[h]
  BY <1>1, <1>2, <1>5, CloseIsQuieter DEF Linked
<1>7. /\ attempt' \in [Callers -> Attempt]
      /\ \A b \in Callers \ {t} : attempt'[b] = attempt[b]
      /\ attempt'[t].step = "dial"
  BY <1>1, <1>2, <1>3, StepFacts
<1>8. Moves(t)
  BY <1>3, <1>7, ClientNames DEF Moves
<1>9. Linked' /\ \A h \in Clients : Early(h)' => Early(h)
  BY <1>1, <1>2, <1>3, <1>6, <1>8, QuietKeeps
<1>10. transfer' \in [Targets -> {"none", "begin", "load", "close", "connecting", "over"}]
       /\ transfer'[t] = "connecting" /\ \A u \in Targets \ {t} : transfer'[u] = transfer[u]
  BY <1>1, <1>2
<1>11. TypeOK'
  BY <1>1, <1>2, <1>6, <1>7, <1>10 DEF TypeOK, ClientTypeOK, Quieter
<1>12. DetachedOnce'
  BY <1>1, <1>2 DEF DetachedOnce
<1>13. Starts'
  <2>1. ~Early(First)'
    BY <1>4, <1>9, ClientNames
  <2>2. attempt'[First] = attempt[First]
    BY <1>3, <1>7, ClientNames DEF Callers
  <2> QED BY <1>2, <1>4, <2>1, <2>2 DEF AgentInv, Starts
<1>14. ASSUME NEW h \in Clients PROVE Kept(h)'
  <2>1. CASE h = g
    BY <1>6, <2>1 DEF Kept
  <2>2. CASE h = t
    BY <1>10, <2>2 DEF Kept
  <2>3. CASE h # g /\ h # t
    <3>1. Kept(h) /\ attempt'[h] = attempt[h] /\ client'[h] = client[h]
      BY <1>6, <1>7, <2>3 DEF AgentInv, Callers
    <3> QED BY <1>2, <1>10, <2>3, <3>1 DEF Kept
  <2> QED BY <2>1, <2>2, <2>3
<1>15. ASSUME NEW u \in Targets PROVE Untried(u)'
  <2>1. CASE u = t
    BY <1>10, <2>1 DEF Untried
  <2>2. CASE u # t
    <3>1. Untried(u) /\ attempt'[u] = attempt[u]
      BY <1>7, <2>2, ClientNames DEF AgentInv, Callers
    <3> QED BY <1>10, <2>2, <3>1 DEF Untried
  <2> QED BY <2>1, <2>2
<1> QED BY <1>9, <1>11, <1>12, <1>13, <1>14, <1>15 DEF AgentInv

\* The end of a transfer: the client that is swapped out was closed or is an
\* orphan, the one swapped in is the agent's or an orphan.
LEMMA TransferredKeeps ==
  ASSUME AgentInv, NEW t \in Targets, Transferred(t)
  PROVE  AgentInv'
<1>1. /\ TypeOK /\ ClientTypeOK /\ Linked /\ DetachedOnce /\ agent \in Agent
      /\ transfer \in [Targets -> {"none", "begin", "load", "close", "connecting", "over"}]
  BY DEF AgentInv, TypeOK
<1>2. /\ transfer[t] = "connecting" /\ attempt[t].step \in {"ok", "failed"}
      /\ transfer' = [transfer EXCEPT ![t] = "over"]
      /\ orphans' = orphans \cup
           {g \in {agent.gemini} : attempt[t].step = "ok" /\ ~client[g].closed} \cup
           {g \in {t} : attempt[t].step = "ok" /\ agent.released > 0}
      /\ UNCHANGED <<mix, link, client, attempt, raised, stray, start, ender, call, cleanup,
                     registered, missed, spoke, posted>>
  BY DEF Transferred
<1>3. ~Early(First) /\ start # "new" /\ t \in Clients
  <2>1. ~Early(First)
    BY <1>2 DEF AgentInv, Starts
  <2>2. start # "new"
    BY <2>1, ClientNames DEF AgentInv, Starts, Nothing, Early, Callers
  <2> QED BY <2>1, <2>2, ClientNames
<1>4. PICK g \in Clients : g = IF attempt[t].step = "ok" THEN t ELSE agent.gemini
  BY <1>1, <1>3 DEF Agent
<1>5. /\ agent' \in Agent /\ agent'.gemini = g /\ agent'.detached = agent.detached
      /\ agent'.released = agent.released /\ agent'.inside = agent.inside
  <2>1. PICK a : a = agent
    OBVIOUS
  <2>2. PICK n : n = [a EXCEPT !.transferring = FALSE, !.gemini = g]
    OBVIOUS
  <2>3. agent' = n
    BY <1>4, <2>1, <2>2 DEF Transferred
  <2>4. /\ n \in Agent /\ n.gemini = g /\ n.detached = a.detached
        /\ n.released = a.released /\ n.inside = a.inside
    BY <1>1, <2>1, <2>2 DEF Agent
  <2> QED BY <2>1, <2>3, <2>4
<1>6. orphans \subseteq orphans' /\ orphans' \subseteq Clients
  BY <1>1, <1>2, <1>3 DEF ClientTypeOK, Agent
<1>7. Linked' /\ \A h \in Clients : Early(h)' => Early(h)
  BY <1>1, <1>2, <1>6, SameIsQuieter, QuietKeeps
<1>8. transfer' \in [Targets -> {"none", "begin", "load", "close", "connecting", "over"}]
      /\ transfer'[t] = "over" /\ \A u \in Targets \ {t} : transfer'[u] = transfer[u]
  BY <1>1, <1>2
<1>9. TypeOK'
  BY <1>1, <1>2, <1>5, <1>6, <1>8 DEF TypeOK, ClientTypeOK
<1>10. DetachedOnce'
  BY <1>1, <1>5 DEF DetachedOnce
<1>11. Starts'
  <2>1. ~Early(First)'
    BY <1>3, <1>7, ClientNames
  <2> QED BY <1>2, <1>3, <2>1 DEF AgentInv, Starts
<1>12. agent.released = 0 \/ agent.released > 0
  BY <1>1 DEF Agent
<1>13. ASSUME NEW h \in Clients PROVE Kept(h)'
  <2>1. Kept(h)
    BY DEF AgentInv
  <2>2. CASE h = t
    BY <1>2, <1>4, <1>5, <1>12, <2>2 DEF Kept
  <2>3. CASE h # t /\ agent.gemini = h /\ agent.released = 0
    BY <1>2, <1>4, <1>5, <2>3 DEF Kept
  <2>4. CASE h # t /\ ~(agent.gemini = h /\ agent.released = 0)
    BY <1>2, <1>6, <1>8, <2>1, <2>4 DEF Kept
  <2> QED BY <2>2, <2>3, <2>4
<1>14. \A u \in Targets : Untried(u)'
  BY <1>2, <1>8 DEF AgentInv, Untried
<1> QED BY <1>7, <1>9, <1>10, <1>11, <1>13, <1>14 DEF AgentInv

-------------------------------------------------------------------------------
(* The theorems.                                                           *)

\* Before the call there is nothing.
LEMMA AgentInvInit ==
  ASSUME Init
  PROVE  AgentInv
<1>1. /\ link = [c \in Conns |-> Unused] /\ attempt = [a \in Callers |-> Idle]
      /\ client = [g \in Clients |-> [conn |-> NoConn, ready |-> FALSE, closed |-> FALSE]]
      /\ mix \in Mixes /\ raised = {} /\ stray = {} /\ orphans = {}
      /\ agent = [gemini |-> First, detached |-> FALSE, released |-> 0, inside |-> {},
                  transferring |-> FALSE, timer |-> "none"]
      /\ start = "new" /\ transfer = [t \in Targets |-> "none"]
      /\ ender = [e \in Enders |-> "idle"]
      /\ call = "live" /\ cleanup = "none" /\ registered = FALSE /\ missed = FALSE
      /\ spoke = {} /\ posted = {}
  BY DEF Init, ClientInit
<1>2. Unused \in Link /\ Idle \in Attempt /\ agent \in Agent
  BY <1>1, ClientNames DEF Unused, Link, Idle, Attempt, Agent
<1>3. \A c \in Conns : link[c].of = NoConn /\ ~link[c].up /\ link[c].reader = "none"
                       /\ link[c].answer = "none"
  BY <1>1 DEF Unused
<1>4. \A a \in Callers : attempt[a].step = "idle" /\ attempt[a].tries = 0
  BY <1>1 DEF Idle
<1>5. client \in [Clients -> Client]
  BY <1>1 DEF Client
<1>6. TypeOK
  BY <1>1, <1>2, <1>5 DEF TypeOK, ClientTypeOK
<1>7. Linked
  <2>1. \A c \in Conns : LinkOK(c) /\ Reached(c)
    BY <1>3, <1>4, ClientNames DEF LinkOK, Reached, Callers
  <2>2. \A a \in Callers : AttemptOK(a)
    BY <1>4 DEF AttemptOK
  <2>3. \A g \in Clients : Sole(g)
    BY <1>3, ClientNames DEF Sole
  <2> QED BY <2>1, <2>2, <2>3 DEF Linked
<1>8. DetachedOnce
  BY <1>1 DEF DetachedOnce
<1>9. Starts
  BY <1>1, <1>3, <1>4 DEF Starts, Nothing
<1>10. \A g \in Clients : Kept(g)
  BY <1>4 DEF Kept, Callers
<1>11. \A t \in Targets : Untried(t)
  BY <1>4, ClientNames DEF Untried, Callers
<1> QED BY <1>6, <1>7, <1>8, <1>9, <1>10, <1>11 DEF AgentInv

\* Every step keeps the invariant.
LEMMA AgentInvNext ==
  ASSUME AgentInv, [Next]_vars
  PROVE  AgentInv'
<1>1. CASE UNCHANGED vars
  BY <1>1 DEF vars, clientVars, agentVars, AgentInv, TypeOK, ClientTypeOK, Linked, LinkOK, Reached,
     AttemptOK, Owner, Sole, Early, Kept, Untried, DetachedOnce, Starts, Nothing
<1>2. CASE Internal
  <2>1. CASE ClientStep
    BY <2>1, ConnectionsKeep DEF ClientStep
  <2>2. CASE PostCall \/ Started \/ Arm \/ RegisterAgent
    BY <2>2, StartKeeps
  <2>3. CASE Attach
    BY <2>3, AttachKeeps
  <2>4. CASE CleanupAgent
    BY <2>4, EndKeeps
  <2>5. CASE TimerFires \/ WaitForAudioFinish \/ \E e \in Enders : Finish(e)
    BY <2>5, EnderKeeps
  <2>6. CASE \E d \in Detachers : Release(d)
    BY <2>6, ReleaseKeeps
  <2>7. CASE \E g \in Clients : OnClose(g)
    BY <2>7, OnCloseKeeps
  <2>8. CASE \E t \in Targets : BeginTransfer(t) \/ LoadPersona(t)
    BY <2>8, TransferKeeps
  <2>9. CASE \E t \in Targets : SwitchPersona(t)
    BY <2>9, SwitchKeeps
  <2>10. CASE \E t \in Targets : Transferred(t)
    BY <2>10, TransferredKeeps
  <2> QED BY <1>2, <2>1, <2>2, <2>3, <2>4, <2>5, <2>6, <2>7, <2>8, <2>9, <2>10 DEF Internal
<1>3. CASE Environment
  <2>1. CASE PeerSteps /\ UNCHANGED agentVars
    BY <2>1, ConnectionsKeep
  <2>2. CASE CallEnds \/ Stop
    BY <2>2, EndKeeps
  <2>3. CASE \E c \in Conns : ToolCall(c) \/ Transcribed(c)
    BY <2>3, TurnKeeps
  <2> QED BY <1>3, <2>1, <2>2, <2>3 DEF Environment
<1> QED BY <1>1, <1>2, <1>3 DEF Next

\* The invariant of the agent and its clients, for any clients, connections,
\* tools, delays and mixes of events.
THEOREM AgentInvariant == Spec => []AgentInv
<1>1. Init => AgentInv
  BY AgentInvInit
<1>2. AgentInv /\ [Next]_vars => AgentInv'
  BY AgentInvNext
<1> QED BY <1>1, <1>2, PTL DEF Spec

\* The types of the agent and of its clients.
THEOREM AgentTypeCorrect == Spec => []TypeOK
<1>1. AgentInv => TypeOK
  BY DEF AgentInv
<1> QED BY <1>1, AgentInvariant, PTL

\* Once the agent is detached and released, or its first Connect has failed,
\* every Gemini connection that is still up is one Close cannot reach, one of a
\* client the code leaves to nobody, or one of a transfer under way.
THEOREM NoSessionStrays == Spec => []NoStraySession
<1>1. ASSUME AgentInv PROVE NoStraySession
  <2> SUFFICES ASSUME Gone, NEW c \in Conns, link[c].up, c \notin stray,
                      orphans \cap {link[c].of, First} = {},
                      ~(link[c].of \in Targets /\ transfer[link[c].of] = "connecting")
               PROVE  FALSE
    BY DEF NoStraySession, Up
  <2>1. LinkOK(c) /\ Reached(c) /\ \A g \in Clients : Sole(g) /\ Kept(g)
    BY <1>1 DEF AgentInv, Linked
  <2>2. PICK g \in Clients : g = link[c].of
    BY <2>1 DEF LinkOK
  <2>3. ~client[g].closed /\ g \notin orphans /\ First \notin orphans
    BY <2>1, <2>2 DEF Reached
  <2>4. ~Early(g)
    <3>1. ASSUME Early(g) PROVE attempt[g].step = "await"
      BY <2>1, <2>2, <3>1 DEF Sole
    <3>2. ASSUME attempt[g].step = "await", agent.released > 0 PROVE FALSE
      BY <2>1, <2>2, <2>3, <3>2 DEF Kept
    <3>3. ASSUME attempt[g].step = "await", start = "failed", Early(g) PROVE FALSE
      <4>1. attempt[First].step = "failed" /\ Early(First)
        BY <1>1, <2>3, <3>3 DEF AgentInv, Starts, Early
      <4>2. g \in Targets
        BY <3>3, <4>1, ClientNames
      <4>3. transfer[g] = "none" /\ attempt[g].step = "idle"
        BY <1>1, <4>1, <4>2 DEF AgentInv, Starts, Untried
      <4> QED BY <3>3, <4>3
    <3> QED BY <3>1, <3>2, <3>3 DEF Gone
  <2>5. attempt[g].step \notin {"idle", "failed"}
    BY <2>3, <2>4 DEF Early
  <2>6. CASE agent.released > 0
    BY <2>1, <2>2, <2>3, <2>5, <2>6 DEF Kept
  <2>7. CASE start = "failed"
    <3>1. attempt[First].step = "failed" /\ Early(First)
      BY <1>1, <2>3, <2>7 DEF AgentInv, Starts, Early
    <3>2. g \in Targets
      BY <2>5, <3>1, ClientNames
    <3>3. attempt[g].step = "idle"
      BY <1>1, <3>1, <3>2 DEF AgentInv, Starts, Untried
    <3> QED BY <2>5, <3>3
  <2> QED BY <2>6, <2>7 DEF Gone
<1> QED BY <1>1, AgentInvariant, PTL
===============================================================================

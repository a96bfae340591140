--------------------------- MODULE AISchedulerProofs ---------------------------
(***************************************************************************)
(* Theorems about SessionManager and AIScheduler, which takes its steps    *)
(* together with its own.                                                  *)
(*                                                                         *)
(* The sessions' invariant is pointwise: what a session's row, database,   *)
(* client and connection owe to each other, and to the request or the      *)
(* restore that is working on it.  A step touches one session, and         *)
(* UntouchedSound settles the others.                                      *)
(*                                                                         *)
(* The scheduler's adds an account of every schedule: the sessions that    *)
(* would have it dialled, from memory or from their row, and the ticker    *)
(* that is about to dial it are together no more than the activations not  *)
(* yet used (Paid).                                                        *)
(***************************************************************************)
EXTENDS AIScheduler, TLAPS, WellFoundedInduction, FiniteSetTheorems

-------------------------------------------------------------------------------
(* The sessions.                                                           *)

\* A request's operation says which steps it goes through, and on which session.
Formed(r) ==
  /\ r.op = "none" => r = Idle
  /\ r.op = "create" => r.step \in {"insert", "open", "undo row", "undo db"}
  /\ r.op = "delete" => r.step \in {"unlink", "drop", "forget"}
  /\ r.op \in {"logout", "pair"} => r.step \in {"unlink", "renew", "blank", "show"}
  /\ r.step \notin {"idle", "insert"} => r.on \in Sessions
  /\ r.step = "insert" => r.on = Nobody

\* There are requests only while the server is up, and Restore works only before that.
Phases ==
  /\ \A w \in Workers : Formed(req[w])
  /\ proc = "up" => todo = {} /\ doomed = NoDrop
  /\ proc = "down" => live = {} /\ todo = {} /\ doomed = NoDrop
  /\ doomed.on = Nobody => doomed = NoDrop
  /\ proc # "up" => \A w \in Workers : req[w] = Idle

\* Nobody is shown s as paired, or its pairing is lost.
Unpaired(s) == number[s] = NoDevice \/ s \in excused

\* Nobody but Create or Restore knows of s.
Unknown(s) == s \notin live /\ client[s] = NoDevice /\ link[s] = "off"

\* A session being created is known to its creator only, and has a row until that is undone.
Creating(r) == r.op = "create" /\ r.step # "insert"
Creation(s) ==
  \A w \in Workers : Creating(req[w]) /\ req[w].on = s =>
    /\ Unknown(s) /\ Unpaired(s)
    /\ \A v \in Workers \ {w} : req[v].on # s
    /\ req[w].step # "undo db" => row[s] # None

\* Restore visits each row once, and drops a session that was never paired or could not
\* be read.
Restoring(s) ==
  /\ proc # "up" => link[s] # "qr" /\ (s \notin live => Unknown(s))
  /\ s \in todo => row[s] # None /\ s \notin live /\ s # doomed.on
  /\ s = doomed.on => s \notin live /\ Unpaired(s)
  /\ s = doomed.on /\ doomed.dropped => s \notin db \/ s \in leaked

\* A row is deleted when the database is gone, or left behind for good.
Forgets(r) == r.op = "delete" /\ r.step = "forget"
Forgetting(s) == (\E w \in Workers : Forgets(req[w]) /\ req[w].on = s) => s \notin db \/ s \in leaked

\* What a registered session, its connection and its client have on disk.
Backed(s) ==
  /\ s \in live => row[s] # None
  /\ link[s] # "off" => s \in db
  /\ client[s] # NoDevice => \/ s \in db /\ client[s] \in devices[s]
                             \/ s \notin db /\ \E w \in Workers : Forgets(req[w]) /\ req[w].on = s

\* DatabaseHasRow and PairedSurvives, of s.
HasRow(s) == s \in db =>
  \/ row[s] # None \/ s \in leaked
  \/ \E w \in Workers : req[w].op = "create" /\ req[w].step = "undo db" /\ req[w].on = s
Survives(s) == Unpaired(s) \/ (row[s] \in Devices /\ number[s] \in devices[s])

Sound(s) == /\ Creation(s) /\ Restoring(s) /\ Forgetting(s) /\ Backed(s)
            /\ HasRow(s) /\ Survives(s)
SessionInv == SessionTypeOK /\ Phases /\ \A s \in Sessions : Sound(s)

\* A step leaves session s alone.
Untouched(s) ==
  /\ row'[s] = row[s] /\ devices'[s] = devices[s] /\ client'[s] = client[s]
  /\ link'[s] = link[s] /\ number'[s] = number[s]
  /\ s \in db' <=> s \in db
  /\ s \in live' <=> s \in live
  /\ s \in leaked' <=> s \in leaked
  /\ s \in excused => s \in excused'
  /\ s \in todo' => s \in todo
  /\ s = doomed'.on => doomed' = doomed

\* A session that is left alone stays sound.
LEMMA UntouchedSound ==
  ASSUME NEW s \in Sessions, Sound(s), Untouched(s), proc' = proc,
         \A w \in Workers : s \in {req[w].on, req'[w].on} => req'[w] = req[w]
  PROVE  Sound(s)'
<1> USE DEF Untouched
<1>1. Unpaired(s) => Unpaired(s)'
  BY DEF Unpaired
<1>2. Unknown(s) => Unknown(s)'
  BY DEF Unknown
<1>3. Creation(s)'
  BY <1>1, <1>2 DEF Sound, Creation, Creating
<1>4. Restoring(s)'
  BY <1>1, <1>2 DEF Sound, Restoring
<1>5. Forgetting(s)' /\ Backed(s)' /\ HasRow(s)'
  BY DEF Sound, Forgetting, Forgets, Backed, HasRow
<1>6. Survives(s)'
  BY <1>1 DEF Sound, Survives
<1> QED
  BY <1>3, <1>4, <1>5, <1>6 DEF Sound

\* A worker at rest holds nothing.
LEMMA IdleFacts ==
  Idle \in [op : Ops, on : Sessions \cup {Nobody}, step : Steps] /\ Formed(Idle)
  /\ ~Creating(Idle) /\ ~Forgets(Idle) /\ Idle.on = Nobody /\ Idle.op = "none" /\ Idle.step = "idle"
BY DEF Idle, Ops, Steps, Formed, Creating, Forgets

\* A request goes to its next step, or is over.
LEMMA GotoFacts ==
  ASSUME SessionTypeOK, NEW w \in Workers, NEW step \in Steps, Goto(w, step)
  PROVE  /\ req' \in [Workers -> [op : Ops, on : Sessions \cup {Nobody}, step : Steps]]
         /\ \A v \in Workers \ {w} : req'[v] = req[v]
         /\ req'[w].op = req[w].op /\ req'[w].on = req[w].on /\ req'[w].step = step
<1>1. req[w] \in [op : Ops, on : Sessions \cup {Nobody}, step : Steps]
  BY DEF SessionTypeOK
<1> DEFINE r == [op |-> req[w].op, on |-> req[w].on, step |-> step]
<1>2. [req[w] EXCEPT !.step = step] = r
  BY <1>1
<1>2a. req' = [req EXCEPT ![w] = [req[w] EXCEPT !.step = step]]
  BY Zenon DEF Goto
<1>3. r \in [op : Ops, on : Sessions \cup {Nobody}, step : Steps]
  BY <1>1
<1>4. r.op = req[w].op /\ r.on = req[w].on /\ r.step = step
  OBVIOUS
<1> HIDE DEF r
<1> QED
  BY <1>2, <1>2a, <1>3, <1>4 DEF SessionTypeOK

\* Nor does one whose request is over.
LEMMA DoneFacts ==
  ASSUME SessionTypeOK, NEW w \in Workers, Done(w)
  PROVE  /\ req' \in [Workers -> [op : Ops, on : Sessions \cup {Nobody}, step : Steps]]
         /\ \A v \in Workers \ {w} : req'[v] = req[v]
         /\ req'[w] = Idle
BY IdleFacts DEF Done, SessionTypeOK

\* A request is served while the server is up, nobody restores, and it is about a session.
LEMMA ServingFacts ==
  ASSUME SessionInv, NEW w \in Workers, req[w].step # "idle"
  PROVE  /\ proc = "up" /\ todo = {} /\ doomed.on \notin Sessions
         /\ req[w].step # "insert" => req[w].on \in Sessions
         /\ SessionTypeOK
<1>1. Formed(req[w]) /\ SessionTypeOK
  BY DEF SessionInv, Phases
<1>2. proc = "up"
  BY DEF SessionInv, Phases, Idle
<1>3. todo = {} /\ doomed = NoDrop
  BY <1>2 DEF SessionInv, Phases
<1>4. NoDrop.on \notin Sessions
  BY SessionAssumption DEF NoDrop
<1>5. req[w].step # "insert" => req[w].on \in Sessions
  BY <1>1 DEF Formed
<1> QED
  BY <1>1, <1>2, <1>3, <1>4, <1>5

\* A step of a request for s keeps the invariant if it keeps s sound and leaves the others alone.
LEMMA RequestKeepsInv ==
  ASSUME SessionInv, NEW w \in Workers, NEW s \in Sessions,
         proc = "up", req[w].on \in {s, Nobody}, req'[w].on \in {s, Nobody},
         \A v \in Workers \ {w} : req'[v] = req[v], Formed(req'[w]),
         UNCHANGED <<proc, todo, doomed>>,
         \A t \in Sessions \ {s} : Untouched(t), SessionTypeOK', Sound(s)'
  PROVE  SessionInv'
<1>1. ASSUME NEW t \in Sessions \ {s} PROVE Sound(t)'
  <2>1. \A v \in Workers : t \in {req[v].on, req'[v].on} => req'[v] = req[v]
    BY SessionAssumption
  <2> QED
    BY <2>1, UntouchedSound DEF SessionInv
<1>2. Phases'
  BY DEF SessionInv, Phases
<1> QED
  BY <1>1, <1>2 DEF SessionInv

\* So does a step of nobody's request.
LEMMA SessionKeepsInv ==
  ASSUME SessionInv, NEW s \in Sessions, UNCHANGED <<proc, req>>,
         \A t \in Sessions \ {s} : Untouched(t), SessionTypeOK', Phases', Sound(s)'
  PROVE  SessionInv'
<1>1. ASSUME NEW t \in Sessions \ {s} PROVE Sound(t)'
  BY UntouchedSound DEF SessionInv
<1> QED
  BY <1>1 DEF SessionInv

\* A store is opened, or cannot be.
LEMMA OpenStoreInv ==
  ASSUME SessionInv, NEW w \in Workers, OpenStore(w)
  PROVE  SessionInv'
<1>0. req[w].op = "create" /\ req[w].step = "open" /\ SessionTypeOK
  BY DEF OpenStore, Serves, SessionInv
<1>1. /\ proc = "up" /\ todo = {} /\ doomed.on \notin Sessions
      /\ req[w].on \in Sessions /\ Formed(req[w])
  BY <1>0, ServingFacts DEF SessionInv, Phases
<1> PICK s \in Sessions : s = req[w].on
  BY <1>1
<1>a. Sound(s)
  BY DEF SessionInv
<1>2. \/ /\ Done(w)
         /\ db' = db \cup {s} /\ live' = live \cup {s}
         /\ \E l \in {"qr", "off"} : link' = [link EXCEPT ![s] = l]
      \/ /\ Goto(w, "undo row") /\ db' \in {db, db \cup {s}} /\ UNCHANGED <<live, link>>
  BY <1>0, <1>1 DEF OpenStore
<1>3. /\ req' \in [Workers -> [op : Ops, on : Sessions \cup {Nobody}, step : Steps]]
      /\ \A v \in Workers \ {w} : req'[v] = req[v]
      /\ \/ req'[w] = Idle /\ s \in live' /\ s \in db'
         \/ /\ req'[w].op = "create" /\ req'[w].on = s /\ req'[w].step = "undo row"
            /\ UNCHANGED <<live, link>>
  BY <1>0, <1>2, GotoFacts, DoneFacts DEF Steps
<1>4. UNCHANGED <<mix, row, devices, proc, todo, doomed, client, saver, number, excused, leaked>>
  BY DEF OpenStore, disk
<1>5. SessionTypeOK'
  BY <1>0, <1>2, <1>3, <1>4 DEF SessionTypeOK
<1>6. Formed(req'[w]) /\ req'[w].on \in {s, Nobody}
  BY <1>0, <1>1, <1>3, IdleFacts DEF Formed
<1>7. ASSUME NEW t \in Sessions \ {s} PROVE Untouched(t)
  BY <1>0, <1>2, <1>4 DEF Untouched, SessionTypeOK
<1>8. Sound(s)'
  <2>1. /\ row[s] # None /\ Unknown(s) /\ Unpaired(s)
        /\ \A v \in Workers \ {w} : req[v].on # s
    BY <1>0, <1>a DEF Sound, Creation, Creating
  <2>2. Unpaired(s)'
    BY <1>4, <2>1 DEF Unpaired
  <2>3. Creation(s)'
    BY <1>3, <1>4, <2>1, <2>2, IdleFacts DEF Creation, Creating, Unknown
  <2>4. Restoring(s)'
    BY <1>1, <1>4 DEF Restoring
  <2>5. Forgetting(s)'
    BY <1>3, <2>1, IdleFacts DEF Forgetting, Forgets
  <2>6. Backed(s)' /\ HasRow(s)' /\ Survives(s)'
    BY <1>3, <1>4, <2>1, <2>2 DEF Backed, HasRow, Survives, Unknown
  <2> QED
    BY <2>3, <2>4, <2>5, <2>6 DEF Sound
<1> QED
  BY <1>0, <1>1, <1>3, <1>4, <1>5, <1>6, <1>7, <1>8, RequestKeepsInv

\* A creation that failed is undone step by step.
LEMMA UndoCreateInv ==
  ASSUME SessionInv, NEW w \in Workers, UndoCreate(w)
  PROVE  SessionInv'
<1>0. req[w].op = "create" /\ req[w].step \in {"undo row", "undo db"} /\ SessionTypeOK
  BY DEF UndoCreate, Serves, SessionInv
<1>1. /\ proc = "up" /\ todo = {} /\ doomed.on \notin Sessions
      /\ req[w].on \in Sessions /\ Formed(req[w])
  BY <1>0, ServingFacts DEF SessionInv, Phases
<1> PICK s \in Sessions : s = req[w].on
  BY <1>1
<1>a. Sound(s)
  BY DEF SessionInv
<1>2. \/ /\ req[w].step = "undo row" /\ Goto(w, "undo db")
         /\ row' \in {row, [row EXCEPT ![s] = None]} /\ UNCHANGED <<db, devices, leaked>>
      \/ /\ req[w].step = "undo db" /\ Done(w) /\ UNCHANGED row
         /\ \/ db' = db \ {s} /\ devices' = [devices EXCEPT ![s] = {}] /\ leaked' = leaked \ {s}
            \/ UNCHANGED <<db, devices>> /\ leaked' = leaked \cup ({s} \cap db)
  BY <1>0, <1>1 DEF UndoCreate, RowAfterDelete, Dropped
<1>3. /\ req' \in [Workers -> [op : Ops, on : Sessions \cup {Nobody}, step : Steps]]
      /\ \A v \in Workers \ {w} : req'[v] = req[v]
      /\ \/ /\ req'[w].op = "create" /\ req'[w].on = s /\ req'[w].step = "undo db"
            /\ UNCHANGED db
         \/ req'[w] = Idle /\ (s \notin db' \/ s \in leaked')
  BY <1>0, <1>2, GotoFacts, DoneFacts DEF Steps
<1>4. UNCHANGED <<mix, proc, todo, doomed, live, client, link, saver, number, excused>>
  BY DEF UndoCreate, disk
<1>5. SessionTypeOK'
  <2>1. row' \in [Sessions -> Devices \cup {None, Blank}]
    BY <1>0, <1>2, <1>4 DEF SessionTypeOK
  <2>2. db' \subseteq Sessions /\ devices' \in [Sessions -> SUBSET Devices]
        /\ \A t \in Sessions \ db' : devices'[t] = {}
    BY <1>0, <1>2, <1>4 DEF SessionTypeOK
  <2>3. leaked' \subseteq Sessions
    BY <1>0, <1>2, <1>4 DEF SessionTypeOK
  <2> QED
    BY <1>0, <1>3, <1>4, <2>1, <2>2, <2>3 DEF SessionTypeOK
<1>6. Formed(req'[w]) /\ req'[w].on \in {s, Nobody}
  BY <1>0, <1>1, <1>3, IdleFacts DEF Formed
<1>7. ASSUME NEW t \in Sessions \ {s} PROVE Untouched(t)
  BY <1>0, <1>2, <1>4 DEF Untouched, SessionTypeOK
<1>8. Sound(s)'
  <2>1. /\ Unknown(s) /\ Unpaired(s)
        /\ \A v \in Workers \ {w} : req[v].on # s
    BY <1>0, <1>a DEF Sound, Creation, Creating
  <2>2. Unpaired(s)' /\ Unknown(s)'
    BY <1>4, <2>1 DEF Unpaired, Unknown
  <2>3. Creation(s)'
    BY <1>3, <2>1, <2>2, IdleFacts DEF Creation, Creating
  <2>4. Restoring(s)'
    BY <1>1, <1>4 DEF Restoring
  <2>5. Forgetting(s)'
    BY <1>3, <2>1, IdleFacts DEF Forgetting, Forgets
  <2>6. Backed(s)'
    BY <2>2 DEF Backed, Unknown
  <2>7. HasRow(s)' /\ Survives(s)'
    BY <1>3, <2>2 DEF HasRow, Survives
  <2> QED
    BY <2>3, <2>4, <2>5, <2>6, <2>7 DEF Sound
<1> QED
  BY <1>0, <1>1, <1>3, <1>4, <1>5, <1>6, <1>7, <1>8, RequestKeepsInv

\* The client is unlinked.
LEMMA UnlinkInv ==
  ASSUME SessionInv, NEW w \in Workers, Unlink(w)
  PROVE  SessionInv'
<1>0. req[w].step = "unlink" /\ SessionTypeOK
  BY DEF Unlink, Serves, SessionInv
<1>1. /\ proc = "up" /\ todo = {} /\ doomed.on \notin Sessions
      /\ req[w].on \in Sessions /\ Formed(req[w])
  BY <1>0, ServingFacts DEF SessionInv, Phases
<1> PICK s \in Sessions : s = req[w].on
  BY <1>1
<1>a. Sound(s)
  BY DEF SessionInv
<1>2. /\ Goto(w, IF req[w].op = "delete" THEN "drop" ELSE "renew")
      /\ \/ UNCHANGED <<devices, client, link, number>>
         \/ /\ devices' = [devices EXCEPT ![s] = @ \ {client[s]}]
            /\ client' = [client EXCEPT ![s] = NoDevice]
            /\ link' = [link EXCEPT ![s] = "off"]
            /\ number' = [number EXCEPT ![s] = NoDevice]
  BY <1>0, <1>1 DEF Unlink, Disconnect
<1>3. /\ req' \in [Workers -> [op : Ops, on : Sessions \cup {Nobody}, step : Steps]]
      /\ \A v \in Workers \ {w} : req'[v] = req[v]
      /\ req'[w].op = req[w].op /\ req'[w].on = s /\ req'[w].step \in {"drop", "renew"}
      /\ req[w].op = "delete" <=> req'[w].step = "drop"
  BY <1>0, <1>2, GotoFacts, DoneFacts DEF Steps
<1>4. UNCHANGED <<mix, row, db, proc, todo, doomed, live, saver, excused, leaked>>
  BY DEF Unlink, disk
<1>5. SessionTypeOK'
  <2>1. db' \subseteq Sessions /\ devices' \in [Sessions -> SUBSET Devices]
        /\ \A t \in Sessions \ db' : devices'[t] = {}
    BY <1>0, <1>2, <1>4 DEF SessionTypeOK
  <2>2. client' \in [Sessions -> Devices \cup {NoDevice}]
    BY <1>0, <1>2, <1>4 DEF SessionTypeOK
  <2>3. link' \in [Sessions -> {"off", "qr", "on"}]
    BY <1>0, <1>2, <1>4 DEF SessionTypeOK
  <2>4. number' \in [Sessions -> Devices \cup {NoDevice}]
    BY <1>0, <1>2, <1>4 DEF SessionTypeOK
  <2> QED
    BY <1>0, <1>3, <1>4, <2>1, <2>2, <2>3, <2>4 DEF SessionTypeOK
<1>6. Formed(req'[w]) /\ req'[w].on \in {s, Nobody}
  BY <1>0, <1>1, <1>3, IdleFacts DEF Formed
<1>7. ASSUME NEW t \in Sessions \ {s} PROVE Untouched(t)
  BY <1>0, <1>2, <1>4 DEF Untouched, SessionTypeOK
<1>8. Sound(s)'
  <2>1. Unpaired(s) => Unpaired(s)'
    BY <1>0, <1>2, <1>4 DEF Unpaired, Disconnect, SessionTypeOK
  <2>2. Unknown(s) => Unknown(s)'
    BY <1>0, <1>2, <1>4 DEF Unknown, Disconnect, SessionTypeOK
  <2>3. Creation(s)'
    BY <1>0, <1>1, <1>3, <1>4, <1>a, <2>1, <2>2 DEF Sound, Creation, Creating, Formed
  <2>4. Restoring(s)'
    BY <1>1, <1>4 DEF Restoring
  <2>5. Forgetting(s)' /\ HasRow(s)'
    BY <1>0, <1>3, <1>4, <1>a DEF Sound, Forgetting, Forgets, HasRow
  <2>6. Backed(s)'
    BY <1>0, <1>2, <1>3, <1>4, <1>a DEF Sound, Backed, Disconnect, SessionTypeOK, Forgets
  <2>7. Survives(s)'
    BY <1>0, <1>2, <1>4, <1>a DEF Sound, Survives, Unpaired, Disconnect, SessionTypeOK
  <2> QED
    BY <2>3, <2>4, <2>5, <2>6, <2>7 DEF Sound
<1> QED
  BY <1>0, <1>1, <1>3, <1>4, <1>5, <1>6, <1>7, <1>8, RequestKeepsInv

\* A session leaves memory.
LEMMA DeleteSessionInv ==
  ASSUME SessionInv, NEW w \in Workers, DeleteSession(w)
  PROVE  SessionInv'
<1>0. req[w].op = "delete" /\ req[w].step \in {"drop", "forget"} /\ SessionTypeOK
  BY DEF DeleteSession, Serves, SessionInv
<1>1. /\ proc = "up" /\ todo = {} /\ doomed.on \notin Sessions
      /\ req[w].on \in Sessions /\ Formed(req[w])
  BY <1>0, ServingFacts DEF SessionInv, Phases
<1> PICK s \in Sessions : s = req[w].on
  BY <1>1
<1>a. Sound(s)
  BY DEF SessionInv
<1>2. \/ /\ req[w].step = "drop" /\ Goto(w, "forget")
         /\ \/ db' = db \ {s} /\ devices' = [devices EXCEPT ![s] = {}] /\ leaked' = leaked \ {s}
            \/ UNCHANGED <<db, devices>> /\ leaked' = leaked \cup ({s} \cap db)
         /\ link' = [link EXCEPT ![s] = "off"]
         /\ number' = [number EXCEPT ![s] = NoDevice]
         /\ UNCHANGED <<client, row, live>>
      \/ /\ req[w].step = "forget" /\ Done(w)
         /\ live' = live \ {s}
         /\ row' \in {row, [row EXCEPT ![s] = None]}
         /\ client' = [client EXCEPT ![s] = NoDevice]
         /\ link' = [link EXCEPT ![s] = "off"]
         /\ number' = [number EXCEPT ![s] = NoDevice]
         /\ UNCHANGED <<db, devices, leaked>>
  BY <1>0, <1>1 DEF DeleteSession, RowAfterDelete, Dropped, Disconnect
<1>3. /\ req' \in [Workers -> [op : Ops, on : Sessions \cup {Nobody}, step : Steps]]
      /\ \A v \in Workers \ {w} : req'[v] = req[v]
      /\ \/ /\ req'[w].op = "delete" /\ req'[w].on = s /\ req'[w].step = "forget"
            /\ UNCHANGED <<row, live, client>> /\ (s \notin db' \/ s \in leaked')
            /\ (db' = db /\ devices' = devices) \/ s \notin db'
         \/ /\ req[w].step = "forget" /\ req'[w] = Idle
            /\ live' = live \ {s} /\ client' = [client EXCEPT ![s] = NoDevice]
            /\ UNCHANGED <<db, leaked>>
  BY <1>0, <1>2, GotoFacts, DoneFacts DEF Steps
<1>4. UNCHANGED <<mix, proc, todo, doomed, saver, excused>>
  BY DEF DeleteSession, disk
<1>5. SessionTypeOK'
  <2>1. row' \in [Sessions -> Devices \cup {None, Blank}]
    BY <1>0, <1>2, <1>4 DEF SessionTypeOK
  <2>2. db' \subseteq Sessions /\ devices' \in [Sessions -> SUBSET Devices]
        /\ \A t \in Sessions \ db' : devices'[t] = {}
    BY <1>0, <1>2, <1>4 DEF SessionTypeOK
  <2>3. client' \in [Sessions -> Devices \cup {NoDevice}]
    BY <1>0, <1>2, <1>4 DEF SessionTypeOK
  <2>4. link' \in [Sessions -> {"off", "qr", "on"}]
    BY <1>0, <1>2, <1>4 DEF SessionTypeOK
  <2>5. number' \in [Sessions -> Devices \cup {NoDevice}]
    BY <1>0, <1>2, <1>4 DEF SessionTypeOK
  <2>6. leaked' \subseteq Sessions
    BY <1>0, <1>2, <1>4 DEF SessionTypeOK
  <2>7. live' \subseteq Sessions
    BY <1>0, <1>2, <1>4 DEF SessionTypeOK
  <2> QED
    BY <1>0, <1>3, <1>4, <2>1, <2>2, <2>3, <2>4, <2>5, <2>6, <2>7 DEF SessionTypeOK
<1>6. Formed(req'[w]) /\ req'[w].on \in {s, Nobody}
  BY <1>0, <1>1, <1>3, IdleFacts DEF Formed
<1>7. ASSUME NEW t \in Sessions \ {s} PROVE Untouched(t)
  BY <1>0, <1>2, <1>4 DEF Untouched, SessionTypeOK
<1>8. Sound(s)'
  <2>0. link'[s] = "off" /\ number'[s] = NoDevice
    BY <1>0, <1>2 DEF SessionTypeOK
  <2>1. \A v \in Workers : Creating(req[v]) => req[v].on # s
    BY <1>0, <1>a DEF Sound, Creation, Creating
  <2>3. Creation(s)'
    BY <1>0, <1>3, <2>1, IdleFacts DEF Creation, Creating
  <2>4. Restoring(s)'
    BY <1>1, <1>4 DEF Restoring
  <2>5. Forgetting(s)'
    BY <1>0, <1>3, <1>a, IdleFacts DEF Sound, Forgetting, Forgets
  <2>6. Backed(s)'
    BY <1>0, <1>3, <1>a, <2>0 DEF Sound, Backed, Forgets, SessionTypeOK
  <2>7. HasRow(s)'
    BY <1>0, <1>3, <1>a, IdleFacts DEF Sound, HasRow, Forgetting, Forgets
  <2>8. Survives(s)'
    BY <2>0 DEF Survives, Unpaired
  <2> QED
    BY <2>3, <2>4, <2>5, <2>6, <2>7, <2>8 DEF Sound
<1> QED
  BY <1>0, <1>1, <1>3, <1>4, <1>5, <1>6, <1>7, <1>8, RequestKeepsInv

\* A logout makes a new client.
LEMMA ReplaceClientInv ==
  ASSUME SessionInv, NEW w \in Workers, ReplaceClient(w)
  PROVE  SessionInv'
<1>0. req[w].step = "renew" /\ SessionTypeOK
  BY DEF ReplaceClient, Serves, SessionInv
<1>1. /\ proc = "up" /\ todo = {} /\ doomed.on \notin Sessions
      /\ req[w].on \in Sessions /\ Formed(req[w])
  BY <1>0, ServingFacts DEF SessionInv, Phases
<1> PICK s \in Sessions : s = req[w].on
  BY <1>1
<1>a. Sound(s)
  BY DEF SessionInv
<1>2. /\ Goto(w, IF req[w].op = "pair" THEN "show" ELSE "blank")
      /\ client' = [client EXCEPT ![s] = NoDevice]
      /\ link' = [link EXCEPT ![s] = "off"]
      /\ number' = [number EXCEPT ![s] = NoDevice]
  BY <1>0, <1>1 DEF ReplaceClient, Disconnect
<1>3. /\ req' \in [Workers -> [op : Ops, on : Sessions \cup {Nobody}, step : Steps]]
      /\ \A v \in Workers \ {w} : req'[v] = req[v]
      /\ req'[w].op = req[w].op /\ req'[w].on = s /\ req'[w].step \in {"show", "blank"}
  BY <1>0, <1>2, GotoFacts, DoneFacts DEF Steps
<1>4. UNCHANGED <<mix, row, db, devices, proc, todo, doomed, live, saver, excused, leaked>>
  BY DEF ReplaceClient, disk
<1>5. SessionTypeOK'
  <2>1. client' \in [Sessions -> Devices \cup {NoDevice}]
    BY <1>0, <1>2, <1>4 DEF SessionTypeOK
  <2>2. link' \in [Sessions -> {"off", "qr", "on"}]
    BY <1>0, <1>2, <1>4 DEF SessionTypeOK
  <2>3. number' \in [Sessions -> Devices \cup {NoDevice}]
    BY <1>0, <1>2, <1>4 DEF SessionTypeOK
  <2> QED
    BY <1>0, <1>3, <1>4, <2>1, <2>2, <2>3 DEF SessionTypeOK
<1>6. Formed(req'[w]) /\ req'[w].on \in {s, Nobody}
  BY <1>0, <1>1, <1>3, IdleFacts DEF Formed
<1>7. ASSUME NEW t \in Sessions \ {s} PROVE Untouched(t)
  BY <1>0, <1>2, <1>4 DEF Untouched, SessionTypeOK
<1>8. Sound(s)'
  <2>1. client'[s] = NoDevice /\ link'[s] = "off" /\ number'[s] = NoDevice
    BY <1>0, <1>2 DEF SessionTypeOK
  <2>2. Creation(s)'
    BY <1>0, <1>1, <1>3, <1>4, <1>a, <2>1 DEF Sound, Creation, Creating, Formed, Unknown, Unpaired
  <2>3. Restoring(s)'
    BY <1>1, <1>4 DEF Restoring
  <2>4. Forgetting(s)' /\ HasRow(s)'
    BY <1>0, <1>3, <1>4, <1>a DEF Sound, Forgetting, Forgets, HasRow
  <2>5. Backed(s)' /\ Survives(s)'
    BY <1>4, <1>a, <2>1 DEF Sound, Backed, Survives, Unpaired
  <2> QED
    BY <2>2, <2>3, <2>4, <2>5 DEF Sound
<1> QED
  BY <1>0, <1>1, <1>3, <1>4, <1>5, <1>6, <1>7, <1>8, RequestKeepsInv

\* It takes the device from the row.
LEMMA ClearJIDInv ==
  ASSUME SessionInv, NEW w \in Workers, ClearJID(w)
  PROVE  SessionInv'
<1>0. req[w].step = "blank" /\ SessionTypeOK
  BY DEF ClearJID, Serves, SessionInv
<1>1. /\ proc = "up" /\ todo = {} /\ doomed.on \notin Sessions
      /\ req[w].on \in Sessions /\ Formed(req[w])
  BY <1>0, ServingFacts DEF SessionInv, Phases
<1> PICK s \in Sessions : s = req[w].on
  BY <1>1
<1>a. Sound(s)
  BY DEF SessionInv
<1>2. /\ Done(w) /\ excused' = excused \cup {x \in {s} : number[s] # NoDevice}
      /\ \/ row' = row
         \/ row[s] # None /\ row' = [row EXCEPT ![s] = Blank]
  BY <1>0, <1>1 DEF ClearJID
<1>3. /\ req' \in [Workers -> [op : Ops, on : Sessions \cup {Nobody}, step : Steps]]
      /\ \A v \in Workers \ {w} : req'[v] = req[v]
      /\ req'[w] = Idle
  BY <1>0, <1>2, GotoFacts, DoneFacts DEF Steps
<1>4. UNCHANGED <<mix, db, devices, proc, todo, doomed, live, client, link, saver, number, leaked>>
  BY DEF ClearJID, disk
<1>5. SessionTypeOK'
  <2>1. row' \in [Sessions -> Devices \cup {None, Blank}]
    BY <1>0, <1>2, <1>4 DEF SessionTypeOK
  <2>2. excused' \subseteq Sessions
    BY <1>0, <1>2, <1>4 DEF SessionTypeOK
  <2> QED
    BY <1>0, <1>3, <1>4, <2>1, <2>2 DEF SessionTypeOK
<1>6. Formed(req'[w]) /\ req'[w].on \in {s, Nobody}
  BY <1>0, <1>1, <1>3, IdleFacts DEF Formed
<1>7. ASSUME NEW t \in Sessions \ {s} PROVE Untouched(t)
  BY <1>0, <1>2, <1>4 DEF Untouched, SessionTypeOK
<1>8. Sound(s)'
  <2>1. Unpaired(s)'
    BY <1>2, <1>4 DEF Unpaired
  <2>2. row'[s] # None <=> row[s] # None
    BY <1>0, <1>2 DEF SessionTypeOK, None, Blank
  <2>3. Creation(s)'
    BY <1>0, <1>1, <1>3, <1>4, <1>a, <2>1, <2>2, IdleFacts DEF Sound, Creation, Creating, Formed, Unknown
  <2>4. Restoring(s)'
    BY <1>1, <1>4 DEF Restoring
  <2>5. Forgetting(s)'
    BY <1>3, <1>4, <1>a, IdleFacts DEF Sound, Forgetting, Forgets
  <2>6. Backed(s)'
    BY <1>0, <1>3, <1>4, <1>a, <2>2 DEF Sound, Backed, Forgets
  <2>7. HasRow(s)' /\ Survives(s)'
    BY <1>0, <1>3, <1>4, <1>a, <2>1, <2>2 DEF Sound, HasRow, Survives
  <2> QED
    BY <2>3, <2>4, <2>5, <2>6, <2>7 DEF Sound
<1> QED
  BY <1>0, <1>1, <1>3, <1>4, <1>5, <1>6, <1>7, <1>8, RequestKeepsInv

\* A code is shown.
LEMMA ShowQRInv ==
  ASSUME SessionInv, NEW w \in Workers, ShowQR(w)
  PROVE  SessionInv'
<1>0. req[w].step = "show" /\ SessionTypeOK
  BY DEF ShowQR, Serves, SessionInv
<1>1. /\ proc = "up" /\ todo = {} /\ doomed.on \notin Sessions
      /\ req[w].on \in Sessions /\ Formed(req[w])
  BY <1>0, ServingFacts DEF SessionInv, Phases
<1> PICK s \in Sessions : s = req[w].on
  BY <1>1
<1>a. Sound(s)
  BY DEF SessionInv
<1>2. /\ Done(w)
      /\ \/ link' = link
         \/ s \in db /\ client[s] = NoDevice /\ link' = [link EXCEPT ![s] = "qr"]
  BY <1>0, <1>1 DEF ShowQR, SessionTypeOK
<1>3. /\ req' \in [Workers -> [op : Ops, on : Sessions \cup {Nobody}, step : Steps]]
      /\ \A v \in Workers \ {w} : req'[v] = req[v]
      /\ req'[w] = Idle
  BY <1>0, <1>2, GotoFacts, DoneFacts DEF Steps
<1>4. UNCHANGED <<mix, row, db, devices, proc, todo, doomed, live, client, saver, number, excused, leaked>>
  BY DEF ShowQR, disk
<1>5. SessionTypeOK'
  <2>1. link' \in [Sessions -> {"off", "qr", "on"}]
    BY <1>0, <1>2, <1>4 DEF SessionTypeOK
  <2> QED
    BY <1>0, <1>3, <1>4, <2>1 DEF SessionTypeOK
<1>6. Formed(req'[w]) /\ req'[w].on \in {s, Nobody}
  BY <1>0, <1>1, <1>3, IdleFacts DEF Formed
<1>7. ASSUME NEW t \in Sessions \ {s} PROVE Untouched(t)
  BY <1>0, <1>2, <1>4 DEF Untouched, SessionTypeOK
<1>8. Sound(s)'
  <2>1. Unpaired(s)' <=> Unpaired(s)
    BY <1>4 DEF Unpaired
  <2>2. link'[s] = link[s] \/ s \in db
    BY <1>0, <1>2 DEF SessionTypeOK
  <2>3. Creation(s)'
    BY <1>0, <1>1, <1>3, <1>a, IdleFacts DEF Sound, Creation, Creating, Formed
  <2>4. Restoring(s)'
    BY <1>1, <1>4 DEF Restoring
  <2>5. Forgetting(s)'
    BY <1>3, <1>4, <1>a, IdleFacts DEF Sound, Forgetting, Forgets
  <2>6. Backed(s)'
    BY <1>0, <1>3, <1>4, <1>a, <2>2 DEF Sound, Backed, Forgets
  <2>7. HasRow(s)' /\ Survives(s)'
    BY <1>0, <1>3, <1>4, <1>a, <2>1 DEF Sound, HasRow, Survives
  <2> QED
    BY <2>3, <2>4, <2>5, <2>6, <2>7 DEF Sound
<1> QED
  BY <1>0, <1>1, <1>3, <1>4, <1>5, <1>6, <1>7, <1>8, RequestKeepsInv

\* It is scanned.
LEMMA ScannedInv ==
  ASSUME SessionInv, NEW s \in Sessions, Scanned(s)
  PROVE  SessionInv'
<1>0. SessionTypeOK /\ Sound(s)
  BY DEF SessionInv
<1>2. /\ link[s] = "qr" /\ s \in db
      /\ \E d \in Devices : /\ devices' = [devices EXCEPT ![s] = @ \cup {d}]
                            /\ client' = [client EXCEPT ![s] = d]
      /\ link' = [link EXCEPT ![s] = "on"] /\ saver' = [saver EXCEPT ![s] = "due"]
  BY <1>0 DEF Scanned, FreshDevices
<1>4. UNCHANGED <<mix, row, db, proc, todo, doomed, live, req, number, excused, leaked>>
  BY DEF Scanned, disk
<1>5. SessionTypeOK'
  <2>1. db' \subseteq Sessions /\ devices' \in [Sessions -> SUBSET Devices]
        /\ \A t \in Sessions \ db' : devices'[t] = {}
    BY <1>0, <1>2, <1>4 DEF SessionTypeOK
  <2>2. client' \in [Sessions -> Devices \cup {NoDevice}]
    BY <1>0, <1>2, <1>4 DEF SessionTypeOK
  <2>3. link' \in [Sessions -> {"off", "qr", "on"}]
    BY <1>0, <1>2, <1>4 DEF SessionTypeOK
  <2>4. saver' \in [Sessions -> {"idle", "due"} \cup Devices]
    BY <1>0, <1>2, <1>4 DEF SessionTypeOK
  <2> QED
    BY <1>0, <1>4, <2>1, <2>2, <2>3, <2>4 DEF SessionTypeOK
<1>7. ASSUME NEW t \in Sessions \ {s} PROVE Untouched(t)
  BY <1>0, <1>2, <1>4 DEF Untouched, SessionTypeOK
<1>8. Sound(s)'
  <2>1. Unpaired(s)' <=> Unpaired(s)
    BY <1>4 DEF Unpaired
  <2>2. /\ link[s] = "qr" /\ s \in db /\ link'[s] = "on"
        /\ devices[s] \subseteq devices'[s] /\ client'[s] \in devices'[s]
    BY <1>0, <1>2 DEF SessionTypeOK
  <2>3. Creation(s)'
    BY <1>0, <1>4, <2>1, <2>2 DEF Sound, Creation, Creating, Unknown
  <2>4. Restoring(s)'
    BY <1>0, <1>4, <2>1, <2>2 DEF Sound, Restoring, Unknown
  <2>5. Forgetting(s)' /\ HasRow(s)'
    BY <1>0, <1>4, <2>1, <2>2 DEF Sound, Forgetting, Forgets, HasRow
  <2>6. Backed(s)'
    BY <1>0, <1>4, <2>1, <2>2 DEF Sound, Backed, Forgets
  <2>7. Survives(s)'
    BY <1>0, <1>4, <2>1, <2>2 DEF Sound, Survives
  <2> QED
    BY <2>3, <2>4, <2>5, <2>6, <2>7 DEF Sound
<1>9. Phases'
  BY <1>4 DEF SessionInv, Phases
<1> QED
  BY <1>4, <1>5, <1>7, <1>8, <1>9, SessionKeepsInv

\* The client is connected.
LEMMA ConnectedInv ==
  ASSUME SessionInv, NEW s \in Sessions, Connected(s)
  PROVE  SessionInv'
<1>0. SessionTypeOK /\ Sound(s)
  BY DEF SessionInv
<1>2. /\ s \in live /\ s \in db
      /\ link' = [link EXCEPT ![s] = "on"] /\ saver' = [saver EXCEPT ![s] = "due"]
  BY <1>0 DEF Connected
<1>4. UNCHANGED <<mix, row, db, devices, proc, todo, doomed, live, client, req, number, excused, leaked>>
  BY DEF Connected, disk
<1>5. SessionTypeOK'
  <2>1. link' \in [Sessions -> {"off", "qr", "on"}]
    BY <1>0, <1>2, <1>4 DEF SessionTypeOK
  <2>2. saver' \in [Sessions -> {"idle", "due"} \cup Devices]
    BY <1>0, <1>2, <1>4 DEF SessionTypeOK
  <2> QED
    BY <1>0, <1>4, <2>1, <2>2 DEF SessionTypeOK
<1>7. ASSUME NEW t \in Sessions \ {s} PROVE Untouched(t)
  BY <1>0, <1>2, <1>4 DEF Untouched, SessionTypeOK
<1>8. Sound(s)'
  <2>1. Unpaired(s)' <=> Unpaired(s)
    BY <1>4 DEF Unpaired
  <2>2. s \in live /\ s \in db /\ link'[s] = "on"
    BY <1>0, <1>2 DEF SessionTypeOK
  <2>3. Creation(s)'
    BY <1>0, <1>4, <2>1, <2>2 DEF Sound, Creation, Creating, Unknown
  <2>4. Restoring(s)'
    BY <1>0, <1>4, <2>1, <2>2 DEF Sound, Restoring, Unknown
  <2>5. Forgetting(s)' /\ HasRow(s)'
    BY <1>0, <1>4, <2>1, <2>2 DEF Sound, Forgetting, Forgets, HasRow
  <2>6. Backed(s)'
    BY <1>0, <1>4, <2>1, <2>2 DEF Sound, Backed, Forgets
  <2>7. Survives(s)'
    BY <1>0, <1>4, <2>1, <2>2 DEF Sound, Survives
  <2> QED
    BY <2>3, <2>4, <2>5, <2>6, <2>7 DEF Sound
<1>9. Phases'
  BY <1>4 DEF SessionInv, Phases
<1> QED
  BY <1>4, <1>5, <1>7, <1>8, <1>9, SessionKeepsInv

\* The handler reads who it is connected as.
LEMMA ReadIDInv ==
  ASSUME SessionInv, NEW s \in Sessions, ReadID(s)
  PROVE  SessionInv'
<1>0. SessionTypeOK /\ Sound(s)
  BY DEF SessionInv
<1>2. \E x \in Devices \cup {"idle"} : saver' = [saver EXCEPT ![s] = x]
  BY <1>0 DEF ReadID, SessionTypeOK
<1>4. UNCHANGED <<mix, row, db, devices, proc, todo, doomed, live, client, link, req, number, excused, leaked>>
  BY DEF ReadID, disk
<1>5. SessionTypeOK'
  <2>1. saver' \in [Sessions -> {"idle", "due"} \cup Devices]
    BY <1>0, <1>2, <1>4 DEF SessionTypeOK
  <2> QED
    BY <1>0, <1>4, <2>1 DEF SessionTypeOK
<1>7. ASSUME NEW t \in Sessions \ {s} PROVE Untouched(t)
  BY <1>0, <1>2, <1>4 DEF Untouched, SessionTypeOK
<1>8. Sound(s)'
  <2>1. Unpaired(s)' <=> Unpaired(s)
    BY <1>4 DEF Unpaired
  <2>3. Creation(s)'
    BY <1>0, <1>4, <2>1 DEF Sound, Creation, Creating, Unknown
  <2>4. Restoring(s)'
    BY <1>0, <1>4, <2>1 DEF Sound, Restoring, Unknown
  <2>5. Forgetting(s)' /\ HasRow(s)'
    BY <1>0, <1>4 DEF Sound, Forgetting, Forgets, HasRow
  <2>6. Backed(s)'
    BY <1>0, <1>4 DEF Sound, Backed, Forgets
  <2>7. Survives(s)'
    BY <1>0, <1>4, <2>1 DEF Sound, Survives
  <2> QED
    BY <2>3, <2>4, <2>5, <2>6, <2>7 DEF Sound
<1>9. Phases'
  BY <1>4 DEF SessionInv, Phases
<1> QED
  BY <1>4, <1>5, <1>7, <1>8, <1>9, SessionKeepsInv

\* The device is written to the row.
LEMMA SaveJIDInv ==
  ASSUME SessionInv, NEW s \in Sessions, SaveJID(s)
  PROVE  SessionInv'
<1>0. SessionTypeOK /\ Sound(s)
  BY DEF SessionInv
<1>2. /\ saver[s] \in Devices /\ saver' = [saver EXCEPT ![s] = "idle"]
      /\ \/ number' = number
         \/ /\ client[s] = saver[s] /\ link[s] = "on" /\ s \in live
            /\ number' = [number EXCEPT ![s] = saver[s]]
      /\ \/ row[s] = None /\ row' = row /\ excused' = excused
         \/ row[s] # None /\ row' = [row EXCEPT ![s] = saver[s]] /\ excused' = excused
         \/ row' = row /\ excused' = excused \cup {s}
  BY <1>0 DEF SaveJID, Shown, RowAfterDelete
<1>4. UNCHANGED <<mix, db, devices, proc, todo, doomed, live, client, link, req, leaked>>
  BY DEF SaveJID, disk
<1>5. SessionTypeOK'
  <2>1. row' \in [Sessions -> Devices \cup {None, Blank}]
    BY <1>0, <1>2, <1>4 DEF SessionTypeOK
  <2>2. number' \in [Sessions -> Devices \cup {NoDevice}]
    BY <1>0, <1>2, <1>4 DEF SessionTypeOK
  <2>3. excused' \subseteq Sessions
    BY <1>0, <1>2, <1>4 DEF SessionTypeOK
  <2>4. saver' \in [Sessions -> {"idle", "due"} \cup Devices]
    BY <1>0, <1>2, <1>4 DEF SessionTypeOK
  <2> QED
    BY <1>0, <1>4, <2>1, <2>2, <2>3, <2>4 DEF SessionTypeOK
<1>7. ASSUME NEW t \in Sessions \ {s} PROVE Untouched(t)
  BY <1>0, <1>2, <1>4 DEF Untouched, SessionTypeOK
<1>8. Sound(s)'
  <2>0. NoDevice \notin Devices /\ None \notin Devices /\ Blank # None
    BY SessionAssumption DEF None, Blank
  <2>1. row'[s] # None <=> row[s] # None
    BY <1>0, <1>2, <2>0 DEF SessionTypeOK
  <2>2. Unpaired(s) /\ (client[s] = NoDevice \/ s \notin live) => Unpaired(s)'
    BY <1>0, <1>2, <2>0 DEF Unpaired, SessionTypeOK
  <2>3. Creation(s)'
    BY <1>0, <1>4, <2>1, <2>2 DEF Sound, Creation, Creating, Unknown
  <2>4. Restoring(s)'
    BY <1>0, <1>4, <2>1, <2>2 DEF Sound, Restoring, Unknown
  <2>5. Forgetting(s)' /\ HasRow(s)'
    BY <1>0, <1>4, <2>1, <2>2 DEF Sound, Forgetting, Forgets, HasRow
  <2>6. Backed(s)'
    BY <1>0, <1>4, <2>1, <2>2 DEF Sound, Backed, Forgets
  <2>7. Survives(s)'
    <3>1. CASE s \in excused'
      BY <3>1 DEF Survives, Unpaired
    <3>2. CASE s \notin excused' /\ number' = number
      BY <1>0, <1>2, <1>4, <2>0, <3>2 DEF Sound, Survives, Unpaired, SessionTypeOK
    <3>3. CASE s \notin excused' /\ number' # number
      <4>1. /\ client[s] = saver[s] /\ link[s] = "on" /\ s \in live /\ saver[s] \in Devices
            /\ number' = [number EXCEPT ![s] = saver[s]]
        BY <1>2, <3>3
      <4>2. row[s] # None /\ saver[s] \in devices[s]
        BY <1>0, <2>0, <4>1 DEF Sound, Backed
      <4> QED
        BY <1>0, <1>2, <1>4, <3>3, <4>1, <4>2 DEF Survives, SessionTypeOK
    <3> QED
      BY <3>1, <3>2, <3>3
  <2> QED
    BY <2>3, <2>4, <2>5, <2>6, <2>7 DEF Sound
<1>9. Phases'
  BY <1>4 DEF SessionInv, Phases
<1> QED
  BY <1>4, <1>5, <1>7, <1>8, <1>9, SessionKeepsInv

\* The phone unlinks the device.
LEMMA LoggedOutInv ==
  ASSUME SessionInv, NEW s \in Sessions, LoggedOut(s)
  PROVE  SessionInv'
<1>0. SessionTypeOK /\ Sound(s)
  BY DEF SessionInv
<1>2. /\ link[s] = "on"
      /\ devices' = [devices EXCEPT ![s] = @ \ {client[s]}]
      /\ client' = [client EXCEPT ![s] = NoDevice]
      /\ link' = [link EXCEPT ![s] = "off"]
      /\ number' = [number EXCEPT ![s] = NoDevice]
  BY <1>0 DEF LoggedOut, Disconnect
<1>4. UNCHANGED <<mix, row, db, proc, todo, doomed, live, saver, req, excused, leaked>>
  BY DEF LoggedOut, disk
<1>5. SessionTypeOK'
  <2>1. db' \subseteq Sessions /\ devices' \in [Sessions -> SUBSET Devices]
        /\ \A t \in Sessions \ db' : devices'[t] = {}
    BY <1>0, <1>2, <1>4 DEF SessionTypeOK
  <2>2. client' \in [Sessions -> Devices \cup {NoDevice}]
    BY <1>0, <1>2, <1>4 DEF SessionTypeOK
  <2>3. link' \in [Sessions -> {"off", "qr", "on"}]
    BY <1>0, <1>2, <1>4 DEF SessionTypeOK
  <2>4. number' \in [Sessions -> Devices \cup {NoDevice}]
    BY <1>0, <1>2, <1>4 DEF SessionTypeOK
  <2> QED
    BY <1>0, <1>4, <2>1, <2>2, <2>3, <2>4 DEF SessionTypeOK
<1>7. ASSUME NEW t \in Sessions \ {s} PROVE Untouched(t)
  BY <1>0, <1>2, <1>4 DEF Untouched, SessionTypeOK
<1>8. Sound(s)'
  <2>1. Unpaired(s)'
    BY <1>0, <1>2 DEF Unpaired, SessionTypeOK
  <2>2. client'[s] = NoDevice /\ link'[s] = "off"
    BY <1>0, <1>2 DEF SessionTypeOK
  <2>3. Creation(s)'
    BY <1>0, <1>4, <2>1, <2>2 DEF Sound, Creation, Creating, Unknown
  <2>4. Restoring(s)'
    BY <1>0, <1>4, <2>1, <2>2 DEF Sound, Restoring, Unknown
  <2>5. Forgetting(s)' /\ HasRow(s)'
    BY <1>0, <1>4, <2>1, <2>2 DEF Sound, Forgetting, Forgets, HasRow
  <2>6. Backed(s)'
    BY <1>0, <1>4, <2>1, <2>2 DEF Sound, Backed, Forgets
  <2>7. Survives(s)'
    BY <1>0, <1>4, <2>1, <2>2 DEF Sound, Survives
  <2> QED
    BY <2>3, <2>4, <2>5, <2>6, <2>7 DEF Sound
<1>9. Phases'
  BY <1>4 DEF SessionInv, Phases
<1> QED
  BY <1>4, <1>5, <1>7, <1>8, <1>9, SessionKeepsInv

\* A request to create a session.
LEMMA CreateRequestInv ==
  ASSUME SessionInv, NEW w \in Workers, CreateRequest(w)
  PROVE  SessionInv'
<1> DEFINE r == [op |-> "create", on |-> Nobody, step |-> "insert"]
<1>1. /\ req' = [req EXCEPT ![w] = r] /\ req[w] = Idle /\ proc = "up" /\ SessionTypeOK
      /\ UNCHANGED <<mix, disk, proc, todo, doomed, live, client, link, saver, number,
                     excused, leaked>>
  BY DEF CreateRequest, SessionInv
<1>2. /\ r \in [op : Ops, on : Sessions \cup {Nobody}, step : Steps] /\ Formed(r)
      /\ r.on = Nobody
  BY DEF Ops, Steps, Formed
<1> HIDE DEF r
<1>3. req'[w] = r /\ \A v \in Workers \ {w} : req'[v] = req[v]
  BY <1>1 DEF SessionTypeOK
<1>4. SessionTypeOK'
  BY <1>1, <1>2 DEF SessionTypeOK, disk
<1>5. Phases'
  BY <1>1, <1>2, <1>3 DEF SessionInv, Phases
<1>6. ASSUME NEW s \in Sessions PROVE Sound(s)'
  <2>1. Untouched(s)
    BY <1>1 DEF Untouched, disk
  <2>2. \A v \in Workers : s \in {req[v].on, req'[v].on} => req'[v] = req[v]
    BY <1>1, <1>2, <1>3, IdleFacts, SessionAssumption
  <2> QED
    BY <1>1, <2>1, <2>2, UntouchedSound DEF SessionInv
<1> QED
  BY <1>4, <1>5, <1>6 DEF SessionInv

\* The row of a new session.
LEMMA InsertInv ==
  ASSUME SessionInv, NEW w \in Workers, Insert(w)
  PROVE  SessionInv'
<1>0. /\ req[w].op = "create" /\ req[w].step = "insert" /\ SessionTypeOK
      /\ FreshIds # {} /\ FreshIds \subseteq Sessions
  <2>1. Pool \subseteq Sessions
    BY SessionAssumption DEF Pool
  <2> QED
    BY <2>1 DEF Insert, Serves, SessionInv, FreshIds
<1>1. /\ proc = "up" /\ todo = {} /\ doomed.on \notin Sessions /\ req[w].on = Nobody
  BY <1>0, ServingFacts DEF SessionInv, Phases, Formed
<1> DEFINE s == CHOOSE x \in FreshIds : TRUE
<1>2. s \in FreshIds /\ s \in Sessions
  BY <1>0
<1>3. \/ /\ row' = [row EXCEPT ![s] = Blank]
         /\ req' = [req EXCEPT ![w] = [op |-> "create", on |-> s, step |-> "open"]]
      \/ row' = row /\ Done(w)
  BY DEF Insert
<1>4. UNCHANGED <<mix, db, devices, proc, todo, doomed, live, client, link, saver, number,
                  excused, leaked>>
  BY DEF Insert
<1> HIDE DEF s
<1> PICK t \in Sessions : t = s
  BY <1>2
<1>5. /\ row[t] = None /\ t \notin db /\ t \notin live /\ \A v \in Workers : req[v].on # t
  BY <1>2 DEF FreshIds
<1> DEFINE r == [op |-> "create", on |-> t, step |-> "open"]
<1>6. \/ req' = [req EXCEPT ![w] = r] /\ row' = [row EXCEPT ![t] = Blank]
      \/ req' = [req EXCEPT ![w] = Idle] /\ row' = row
  BY <1>3 DEF Done
<1>7. /\ r \in [op : Ops, on : Sessions \cup {Nobody}, step : Steps] /\ Formed(r)
      /\ r.on = t /\ r.op = "create" /\ r.step = "open"
  BY DEF Ops, Steps, Formed
<1> HIDE DEF r
<1>8. /\ \A v \in Workers \ {w} : req'[v] = req[v]
      /\ \/ req'[w] = r /\ row'[t] = Blank
         \/ req'[w] = Idle /\ row' = row
      /\ req' \in [Workers -> [op : Ops, on : Sessions \cup {Nobody}, step : Steps]]
  BY <1>0, <1>6, <1>7, IdleFacts DEF SessionTypeOK
<1>9. SessionTypeOK'
  <2>1. row' \in [Sessions -> Devices \cup {None, Blank}]
    BY <1>0, <1>6 DEF SessionTypeOK
  <2> QED
    BY <1>0, <1>4, <1>8, <2>1 DEF SessionTypeOK
<1>10. ASSUME NEW u \in Sessions \ {t} PROVE Untouched(u)
  BY <1>0, <1>4, <1>6 DEF Untouched, SessionTypeOK
<1>11. Sound(t)'
  <2>0. None # Blank /\ None \notin Devices /\ Sound(t)
    BY SessionAssumption DEF None, Blank, SessionInv
  <2>1. Unpaired(t) /\ Unpaired(t)'
    BY <1>4, <1>5, <2>0 DEF Sound, Survives, Unpaired
  <2>2. Unknown(t) /\ Unknown(t)'
    BY <1>4, <1>5, <2>0 DEF Sound, Backed, Unknown
  <2>3. Creation(t)'
    <3>1. \A v \in Workers \ {w} : req'[v].on # t
      BY <1>5, <1>8
    <3>2. Creating(req'[w]) => row'[t] # None
      BY <1>8, <2>0, IdleFacts
    <3> QED
      BY <2>1, <2>2, <3>1, <3>2 DEF Creation
  <2>4. Restoring(t)'
    BY <1>1, <1>4 DEF Restoring
  <2>5. Forgetting(t)' /\ HasRow(t)'
    BY <1>4, <1>5 DEF Forgetting, HasRow
  <2>6. Backed(t)' /\ Survives(t)'
    BY <1>4, <1>5, <2>1, <2>2 DEF Backed, Survives, Unknown
  <2> QED
    BY <2>3, <2>4, <2>5, <2>6 DEF Sound
<1>12. Formed(req'[w]) /\ req'[w].on \in {t, Nobody}
  BY <1>7, <1>8, IdleFacts
<1> QED
  BY <1>1, <1>4, <1>8, <1>9, <1>10, <1>11, <1>12, RequestKeepsInv

\* A request about a session there is.
LEMMA RequestInv ==
  ASSUME SessionInv, NEW w \in Workers, NEW op \in {"delete", "logout", "pair"},
         NEW s \in Sessions, Request(w, op, s)
  PROVE  SessionInv'
<1> DEFINE r == [op |-> op, on |-> s, step |-> IF op = "pair" THEN "renew" ELSE "unlink"]
<1>1. /\ req' = [req EXCEPT ![w] = r] /\ req[w] = Idle /\ proc = "up" /\ s \in live
      /\ number' = number \/ number' = [number EXCEPT ![s] = NoDevice]
      /\ UNCHANGED <<mix, disk, proc, todo, doomed, live, client, link, saver, excused, leaked>>
  BY DEF Request
<1>2. /\ r \in [op : Ops, on : Sessions \cup {Nobody}, step : Steps] /\ Formed(r)
      /\ r.on = s /\ ~Creating(r) /\ ~Forgets(r)
  BY DEF Ops, Steps, Formed, Creating, Forgets
<1>0. SessionTypeOK /\ Sound(s)
  BY DEF SessionInv
<1> HIDE DEF r
<1>3. /\ req'[w] = r /\ \A v \in Workers \ {w} : req'[v] = req[v]
      /\ req' \in [Workers -> [op : Ops, on : Sessions \cup {Nobody}, step : Steps]]
  BY <1>0, <1>1, <1>2 DEF SessionTypeOK
<1>4. SessionTypeOK'
  <2>1. number' \in [Sessions -> Devices \cup {NoDevice}]
    BY <1>0, <1>1 DEF SessionTypeOK
  <2> QED
    BY <1>0, <1>1, <1>3, <2>1 DEF SessionTypeOK, disk
<1>5. ASSUME NEW t \in Sessions \ {s} PROVE Untouched(t)
  BY <1>0, <1>1 DEF Untouched, SessionTypeOK, disk
<1>6. Sound(s)'
  <2>1. Unpaired(s) => Unpaired(s)'
    BY <1>0, <1>1 DEF Unpaired, SessionTypeOK
  <2>2. \A v \in Workers : Creating(req[v]) => req[v].on # s
    BY <1>0, <1>1 DEF Sound, Creation, Unknown
  <2>3. Creation(s)'
    BY <1>2, <1>3, <2>2 DEF Creation
  <2>4. Restoring(s)'
    BY <1>0, <1>1, <2>1 DEF Sound, Restoring, SessionInv, Phases, disk
  <2>5. Forgetting(s)' /\ Backed(s)'
    BY <1>0, <1>1, <1>2, <1>3, IdleFacts DEF Sound, Forgetting, Backed, disk
  <2>6. HasRow(s)'
    BY <1>0, <1>1, <1>3, IdleFacts DEF Sound, HasRow, disk
  <2>7. Survives(s)'
    BY <1>0, <1>1, <2>1 DEF Sound, Survives, Unpaired, SessionTypeOK, disk
  <2> QED
    BY <2>3, <2>4, <2>5, <2>6, <2>7 DEF Sound
<1> QED
  BY <1>1, <1>2, <1>3, <1>4, <1>5, <1>6, IdleFacts, RequestKeepsInv

\* A row is restored.
LEMMA RestoreInv ==
  ASSUME SessionInv, NEW s \in Sessions, Restore(s)
  PROVE  SessionInv'
<1>0. SessionTypeOK /\ Sound(s)
  BY DEF SessionInv
<1>1. /\ doomed = NoDrop /\ s \in todo /\ todo' = todo \ {s}
      /\ UNCHANGED <<mix, row, devices, proc, saver, req, number, leaked, link>>
  BY DEF Restore
<1>2. /\ db' \in {db, db \cup {s}} /\ live' \in {live, live \cup {s}}
      /\ excused' \in {excused, excused \cup {s}} /\ doomed' \in {NoDrop, Doom(s)}
      /\ \/ live' = live /\ client' = client
         \/ /\ live' = live \cup {s} /\ db' = db /\ doomed' = NoDrop
            /\ \E d \in devices[s] : client' = [client EXCEPT ![s] = d]
      /\ doomed' = Doom(s) => row[s] = Blank \/ devices[s] = {} \/ s \in excused'
  <2>1. CASE row[s] = Blank /\ doomed' = Doom(s) /\ UNCHANGED <<db, live, client, excused>>
    BY <2>1
  <2>2. CASE /\ devices[s] = {} /\ db' = db \cup {s} /\ doomed' = Doom(s)
             /\ UNCHANGED <<live, client, excused>>
    BY <2>2
  <2>3. CASE /\ \/ db' \in {db, db \cup {s}} /\ UNCHANGED <<doomed, excused>>
                \/ db' = db \cup {s} /\ doomed' = Doom(s) /\ excused' = excused \cup {s}
             /\ UNCHANGED <<live, client>>
    BY <1>1, <2>3, SessionAssumption DEF Doom, NoDrop
  <2>4. CASE /\ \E d \in devices[s] : client' = [client EXCEPT ![s] = d]
             /\ live' = live \cup {s} /\ UNCHANGED <<db, doomed, excused>>
    BY <1>1, <2>4, SessionAssumption DEF Doom, NoDrop
  <2> QED
    BY <2>1, <2>2, <2>3, <2>4 DEF Restore
<1>3. /\ proc = "restoring" /\ \A w \in Workers : req[w] = Idle
  BY <1>0, <1>1 DEF SessionInv, Phases, SessionTypeOK
<1>4. /\ row[s] # None /\ s \notin live /\ Unknown(s) /\ None # Blank /\ None \notin Devices
      /\ Blank \notin Devices /\ s # Nobody
  BY <1>0, <1>1, <1>3, SessionAssumption DEF Sound, Restoring, None, Blank
<1>5. /\ Doom(s).on = s /\ Doom(s) \in [on : Sessions \cup {Nobody}, dropped : BOOLEAN]
      /\ ~Doom(s).dropped /\ NoDrop.on = Nobody
      /\ NoDrop \in [on : Sessions \cup {Nobody}, dropped : BOOLEAN]
  BY DEF Doom, NoDrop
<1>6. SessionTypeOK'
  <2>1. client' \in [Sessions -> Devices \cup {NoDevice}]
    BY <1>0, <1>2 DEF SessionTypeOK
  <2>2. /\ db' \subseteq Sessions /\ \A t \in Sessions \ db' : devices'[t] = {}
    BY <1>0, <1>1, <1>2 DEF SessionTypeOK
  <2> QED
    BY <1>0, <1>1, <1>2, <1>5, <2>1, <2>2 DEF SessionTypeOK
<1>7. Phases'
  BY <1>1, <1>2, <1>3, <1>4, <1>5 DEF SessionInv, Phases
<1>8. ASSUME NEW t \in Sessions \ {s} PROVE Untouched(t)
  BY <1>0, <1>1, <1>2, <1>5, SessionAssumption DEF Untouched, SessionTypeOK
<1>9. Sound(s)'
  <2>1. Creation(s)' /\ Forgetting(s)'
    BY <1>1, <1>3, IdleFacts DEF Creation, Forgetting
  <2>2. doomed' = Doom(s) => Unpaired(s)'
    BY <1>0, <1>1, <1>2, <1>4 DEF Sound, Survives, Unpaired
  <2>3. s \notin live' => Unknown(s)'
    BY <1>1, <1>2, <1>4 DEF Unknown
  <2>4. Restoring(s)'
    BY <1>1, <1>2, <1>4, <1>5, <2>2, <2>3 DEF Restoring, Unknown
  <2>5. Backed(s)'
    <3>1. CASE live' = live /\ client' = client
      BY <1>1, <1>2, <1>4, <3>1 DEF Backed, Unknown
    <3>2. CASE \E d \in devices[s] : client' = [client EXCEPT ![s] = d] /\ db' = db
      <4>1. s \in db /\ client'[s] \in devices[s]
        BY <1>0, <3>2 DEF SessionTypeOK
      <4> QED
        BY <1>1, <1>4, <3>2, <4>1 DEF Backed, Unknown
    <3> QED
      BY <1>2, <3>1, <3>2
  <2>6. HasRow(s)' /\ Survives(s)'
    BY <1>0, <1>1, <1>2, <1>4 DEF Sound, HasRow, Survives, Unpaired
  <2> QED
    BY <2>1, <2>4, <2>5, <2>6 DEF Sound
<1> QED
  BY <1>1, <1>6, <1>7, <1>8, <1>9, SessionKeepsInv

\* A row that cannot be restored is dropped.
LEMMA DropRestoredInv ==
  ASSUME SessionInv, DropRestored
  PROVE  SessionInv'
<1>0. SessionTypeOK /\ doomed # NoDrop
  BY DEF SessionInv, DropRestored
<1>1. doomed.on \in Sessions /\ proc = "restoring" /\ \A w \in Workers : req[w] = Idle
  BY <1>0 DEF SessionInv, Phases, SessionTypeOK
<1> PICK s \in Sessions : s = doomed.on
  BY <1>1
<1>2. \/ /\ doomed.dropped /\ row' \in {row, [row EXCEPT ![s] = None]} /\ doomed' = NoDrop
         /\ UNCHANGED <<db, devices, leaked>>
      \/ /\ ~doomed.dropped
         /\ \/ db' = db \ {s} /\ devices' = [devices EXCEPT ![s] = {}] /\ leaked' = leaked \ {s}
            \/ UNCHANGED <<db, devices>> /\ leaked' = leaked \cup ({s} \cap db)
         /\ doomed' = [doomed EXCEPT !.dropped = TRUE] /\ row' = row
  BY DEF DropRestored, RowAfterDelete, Dropped
<1>3. UNCHANGED <<mix, proc, todo, live, client, link, saver, req, number, excused>>
  BY DEF DropRestored
<1>4. /\ doomed' \in [on : Sessions \cup {Nobody}, dropped : BOOLEAN]
      /\ (doomed' = NoDrop /\ doomed'.on = Nobody) \/ (doomed'.on = s /\ doomed'.dropped)
  <2>1. NoDrop.on = Nobody /\ NoDrop \in [on : Sessions \cup {Nobody}, dropped : BOOLEAN]
    BY DEF NoDrop
  <2>2. doomed \in [on : Sessions \cup {Nobody}, dropped : BOOLEAN]
    BY <1>0 DEF SessionTypeOK
  <2>3. doomed' = [doomed EXCEPT !.dropped = TRUE] => doomed'.on = s /\ doomed'.dropped
    BY <2>2
  <2> QED
    BY <1>2, <2>1, <2>2, <2>3
<1>5. /\ s \notin live /\ s \notin todo /\ Unpaired(s) /\ Unknown(s)
      /\ doomed.dropped => s \notin db \/ s \in leaked
  BY <1>1 DEF SessionInv, Sound, Restoring
<1>6. SessionTypeOK'
  <2>1. row' \in [Sessions -> Devices \cup {None, Blank}]
    BY <1>0, <1>2 DEF SessionTypeOK
  <2>2. /\ db' \subseteq Sessions /\ devices' \in [Sessions -> SUBSET Devices]
        /\ leaked' \subseteq Sessions /\ \A t \in Sessions \ db' : devices'[t] = {}
    BY <1>0, <1>2 DEF SessionTypeOK
  <2> QED
    BY <1>0, <1>3, <1>4, <2>1, <2>2 DEF SessionTypeOK
<1>7. Phases'
  BY <1>1, <1>3, <1>4, SessionAssumption DEF SessionInv, Phases
<1>8. ASSUME NEW t \in Sessions \ {s} PROVE Untouched(t)
  BY <1>0, <1>2, <1>3, <1>4, SessionAssumption DEF Untouched, SessionTypeOK
<1>9. Sound(s)'
  <2>1. Creation(s)' /\ Forgetting(s)'
    BY <1>1, <1>3, IdleFacts DEF Creation, Forgetting
  <2>2. Unpaired(s)' /\ Unknown(s)'
    BY <1>3, <1>5 DEF Unpaired, Unknown
  <2>3. s \notin db' \/ s \in leaked'
    BY <1>2, <1>5
  <2>4. Restoring(s)'
    BY <1>3, <1>5, <2>2, <2>3 DEF Restoring, Unknown
  <2>5. Backed(s)' /\ HasRow(s)' /\ Survives(s)'
    BY <2>2, <2>3 DEF Backed, HasRow, Survives, Unknown
  <2> QED
    BY <2>1, <2>4, <2>5 DEF Sound
<1> QED
  BY <1>3, <1>6, <1>7, <1>8, <1>9, SessionKeepsInv

\* The restoration ends.
LEMMA RestoredInv ==
  ASSUME SessionInv, Restored
  PROVE  SessionInv'
<1>1. /\ proc = "restoring" /\ todo = {} /\ doomed = NoDrop /\ proc' = "up"
      /\ UNCHANGED <<mix, row, db, devices, todo, doomed, live, client, link, saver, req, number,
                     excused, leaked>>
  BY DEF Restored, disk
<1>2. SessionTypeOK'
  BY <1>1 DEF SessionInv, SessionTypeOK
<1>3. Phases'
  BY <1>1 DEF SessionInv, Phases
<1>4. ASSUME NEW s \in Sessions PROVE Sound(s)'
  <2>1. Restoring(s)'
    BY <1>1, SessionAssumption DEF Restoring, NoDrop
  <2>2. Creation(s)'
    BY <1>1 DEF SessionInv, Sound, Creation, Creating, Unknown, Unpaired
  <2>3. Forgetting(s)' /\ Backed(s)' /\ HasRow(s)' /\ Survives(s)'
    BY <1>1 DEF SessionInv, Sound, Forgetting, Forgets, Backed, HasRow, Survives, Unpaired
  <2> QED
    BY <2>1, <2>2, <2>3 DEF Sound
<1> QED
  BY <1>2, <1>3, <1>4 DEF SessionInv

\* The process starts.
LEMMA StartInv ==
  ASSUME SessionInv, Start
  PROVE  SessionInv'
<1>1. /\ proc = "down" /\ todo' = {s \in Sessions : row[s] # None} /\ proc' = "restoring"
      /\ UNCHANGED <<mix, row, db, devices, doomed, live, client, link, saver, req, number,
                     excused, leaked>>
  BY DEF Start, disk
<1>2. SessionTypeOK'
  BY <1>1 DEF SessionInv, SessionTypeOK
<1>3. live = {} /\ doomed = NoDrop /\ Phases'
  BY <1>1 DEF SessionInv, Phases
<1>4. ASSUME NEW s \in Sessions PROVE Sound(s)'
  <2>1. Restoring(s)'
    BY <1>1, <1>3, SessionAssumption DEF SessionInv, Sound, Restoring, NoDrop, Unknown
  <2>2. Creation(s)'
    BY <1>1 DEF SessionInv, Sound, Creation, Creating, Unknown, Unpaired
  <2>3. Forgetting(s)' /\ Backed(s)' /\ HasRow(s)' /\ Survives(s)'
    BY <1>1 DEF SessionInv, Sound, Forgetting, Forgets, Backed, HasRow, Survives, Unpaired
  <2> QED
    BY <2>1, <2>2, <2>3 DEF Sound
<1> QED
  BY <1>2, <1>3, <1>4 DEF SessionInv

\* The process ends anywhere.
LEMMA ExitInv ==
  ASSUME SessionInv, Exit
  PROVE  SessionInv'
<1>1. /\ proc' = "down" /\ todo' = {} /\ doomed' = NoDrop /\ live' = {}
      /\ client' = [s \in Sessions |-> NoDevice] /\ link' = [s \in Sessions |-> "off"]
      /\ saver' = [s \in Sessions |-> "idle"] /\ req' = [w \in Workers |-> Idle]
      /\ leaked' = leaked \cup {s \in db : \E w \in Workers :
                     req[w] = [op |-> "create", on |-> s, step |-> "undo db"]}
      /\ UNCHANGED <<mix, row, db, devices, number, excused>>
  BY DEF Exit, disk
<1>2. SessionTypeOK'
  <2>1. doomed' \in [on : Sessions \cup {Nobody}, dropped : BOOLEAN]
    BY <1>1 DEF NoDrop
  <2>2. req' \in [Workers -> [op : Ops, on : Sessions \cup {Nobody}, step : Steps]]
    BY <1>1, IdleFacts
  <2> QED
    BY <1>1, <2>1, <2>2 DEF SessionInv, SessionTypeOK
<1>3. Phases'
  BY <1>1, IdleFacts DEF Phases
<1>4. ASSUME NEW s \in Sessions PROVE Sound(s)'
  <2>0. Unknown(s)' /\ \A w \in Workers : req'[w] = Idle
    BY <1>1 DEF Unknown
  <2>1. Restoring(s)'
    BY <1>1, <2>0, SessionAssumption DEF Restoring, NoDrop, Unknown
  <2>2. Creation(s)' /\ Forgetting(s)'
    BY <2>0, IdleFacts DEF Creation, Forgetting
  <2>3. Backed(s)' /\ Survives(s)'
    BY <1>1, <2>0 DEF SessionInv, Sound, Backed, Survives, Unpaired, Unknown
  <2>4. HasRow(s)'
    <3>1. ASSUME NEW w \in Workers, req[w].op = "create", req[w].step = "undo db", req[w].on = s
          PROVE  req[w] = [op |-> "create", on |-> s, step |-> "undo db"]
      <4>1. req[w] \in [op : Ops, on : Sessions \cup {Nobody}, step : Steps]
        BY DEF SessionInv, SessionTypeOK
      <4> QED
        BY <3>1, <4>1
    <3> QED
      BY <1>1, <3>1 DEF SessionInv, Sound, HasRow
  <2> QED
    BY <2>1, <2>2, <2>3, <2>4 DEF Sound
<1> QED
  BY <1>2, <1>3, <1>4 DEF SessionInv

-------------------------------------------------------------------------------
\* There is no session yet.
LEMMA SessionInvInit ==
  ASSUME SessionInit PROVE SessionInv
<1>1. SessionTypeOK
  BY IdleFacts DEF SessionInit, SessionTypeOK, NoDrop
<1>2. Phases
  BY IdleFacts DEF SessionInit, Phases
<1>3. ASSUME NEW s \in Sessions PROVE Sound(s)
  <2>1. Unknown(s) /\ Unpaired(s) /\ \A w \in Workers : req[w] = Idle
    BY DEF SessionInit, Unknown, Unpaired
  <2>2. Creation(s) /\ Forgetting(s)
    BY <2>1, IdleFacts DEF Creation, Forgetting
  <2>3. Restoring(s)
    BY SessionAssumption DEF SessionInit, Restoring, NoDrop
  <2>4. Backed(s) /\ HasRow(s) /\ Survives(s)
    BY <2>1 DEF SessionInit, Backed, HasRow, Survives, Unknown
  <2> QED
    BY <2>2, <2>3, <2>4 DEF Sound
<1> QED
  BY <1>1, <1>2, <1>3 DEF SessionInv

\* One case per action of SessionNext.
LEMMA SessionInvStep ==
  ASSUME SessionInv, SessionNext PROVE SessionInv'
<1>1. ASSUME NEW w \in Workers,
             \/ CreateRequest(w) \/ Insert(w) \/ OpenStore(w) \/ UndoCreate(w) \/ Unlink(w)
             \/ DeleteSession(w) \/ ReplaceClient(w) \/ ClearJID(w) \/ ShowQR(w)
      PROVE  SessionInv'
  BY <1>1, CreateRequestInv, InsertInv, OpenStoreInv, UndoCreateInv, UnlinkInv,
     DeleteSessionInv, ReplaceClientInv, ClearJIDInv, ShowQRInv
<1>2. ASSUME NEW w \in Workers, NEW op \in {"delete", "logout", "pair"}, NEW s \in Sessions,
             Request(w, op, s)
      PROVE  SessionInv'
  BY <1>2, RequestInv
<1>3. ASSUME NEW s \in Sessions,
             \/ Scanned(s) \/ Connected(s) \/ ReadID(s) \/ SaveJID(s) \/ LoggedOut(s)
             \/ Restore(s)
      PROVE  SessionInv'
  BY <1>3, ScannedInv, ConnectedInv, ReadIDInv, SaveJIDInv, LoggedOutInv, RestoreInv
<1>4. CASE Exit \/ Start \/ DropRestored \/ Restored
  BY <1>4, ExitInv, StartInv, DropRestoredInv, RestoredInv
<1> QED
  BY <1>1, <1>2, <1>3, <1>4 DEF SessionNext

\* What a step does to those who hold a session: sessions are registered by Restore or by the
\* request that creates them; the server leaves "up" by an exit only; and a session that starts
\* being created has no row before.
LEMMA SessionMoves ==
  ASSUME SessionInv, SessionNext
  PROVE  /\ \A s \in live' \ live : proc # "up" \/ \E w \in Workers : Creating(req[w]) /\ req[w].on = s
         /\ \E s \in Sessions : live' \subseteq live \cup {s}
         /\ proc' # "up" => proc' = "down" \/ proc # "up"
         /\ \A w \in Workers : Creating(req'[w]) =>
              \/ Creating(req[w]) /\ req[w].on = req'[w].on
              \/ row[req'[w].on] = None /\ row'[req'[w].on] # None
<1> DEFINE Moves == /\ \A s \in live' \ live : proc # "up" \/ \E w \in Workers : Creating(req[w]) /\ req[w].on = s
                    /\ \E s \in Sessions : live' \subseteq live \cup {s}
                    /\ proc' # "up" => proc' = "down" \/ proc # "up"
           Creates(r, q) == Creating(q) =>
              \/ Creating(r) /\ r.on = q.on
              \/ row[q.on] = None /\ row'[q.on] # None
<1>0. SessionTypeOK /\ (live' \subseteq live /\ proc' = proc => Moves)
  BY SessionAssumption DEF SessionInv
<1>1. ASSUME NEW w \in Workers, Insert(w)
      PROVE  Moves /\ \A v \in Workers : Creates(req[v], req'[v])
  <2>1. FreshIds # {} /\ FreshIds \subseteq Sessions /\ UNCHANGED <<live, proc>>
    <3>1. Pool \subseteq Sessions
      BY SessionAssumption DEF Pool
    <3> QED
      BY <1>1, <3>1 DEF Insert, FreshIds
  <2> DEFINE s == CHOOSE x \in FreshIds : TRUE
  <2>2. \/ /\ row' = [row EXCEPT ![s] = Blank]
           /\ req' = [req EXCEPT ![w] = [op |-> "create", on |-> s, step |-> "open"]]
        \/ Done(w)
    BY <1>1 DEF Insert
  <2>3. s \in Sessions /\ row[s] = None
    BY <2>1 DEF FreshIds
  <2> HIDE DEF s
  <2>4. ASSUME NEW v \in Workers PROVE Creates(req[v], req'[v])
    BY <1>0, <2>2, <2>3, IdleFacts DEF Done, SessionTypeOK, None, Blank
  <2> QED
    BY <1>0, <2>1, <2>3, <2>4
<1>2. ASSUME NEW w \in Workers, OpenStore(w) \/ UndoCreate(w)
      PROVE  Moves /\ \A v \in Workers : Creates(req[v], req'[v])
  <2>1. /\ Creating(req[w]) /\ req[w].on \in Sessions /\ proc' = proc
        /\ live' \in {live, live \cup {req[w].on}}
    BY <1>2 DEF OpenStore, UndoCreate, Serves, Creating, SessionInv, Phases, Formed
  <2>2. Done(w) \/ Goto(w, "undo row") \/ Goto(w, "undo db")
    BY <1>2 DEF OpenStore, UndoCreate
  <2>3. \A v \in Workers : Creates(req[v], req'[v])
    BY <1>0, <2>1, <2>2, IdleFacts, GotoFacts, DoneFacts DEF Steps
  <2> QED
    BY <2>1, <2>3
<1>3. ASSUME NEW w \in Workers, CreateRequest(w)
      PROVE  Moves /\ \A v \in Workers : Creates(req[v], req'[v])
  BY <1>0, <1>3 DEF CreateRequest, Creating, SessionTypeOK
<1>4. ASSUME NEW w \in Workers, NEW op \in {"delete", "logout", "pair"}, NEW s \in Sessions,
             Request(w, op, s)
      PROVE  Moves /\ \A v \in Workers : Creates(req[v], req'[v])
  BY <1>0, <1>4 DEF Request, Creating, SessionTypeOK
<1>5. ASSUME NEW w \in Workers,
             Unlink(w) \/ DeleteSession(w) \/ ReplaceClient(w) \/ ClearJID(w) \/ ShowQR(w)
      PROVE  Moves /\ \A v \in Workers : Creates(req[v], req'[v])
  <2>1. Moves
    BY <1>0, <1>5 DEF Unlink, DeleteSession, ReplaceClient, ClearJID, ShowQR
  <2>2. ~Creating(req[w]) /\ ((\E step \in Steps : Goto(w, step)) \/ Done(w))
    BY <1>5 DEF Unlink, DeleteSession, ReplaceClient, ClearJID, ShowQR, Steps, Creating,
                SessionInv, Phases, Formed
  <2>3. ~Creating(req'[w]) /\ \A v \in Workers \ {w} : req'[v] = req[v]
    <3>1. CASE Done(w)
      BY <1>0, <3>1, IdleFacts, DoneFacts
    <3>2. ASSUME NEW step \in Steps, Goto(w, step)
          PROVE  ~Creating(req'[w]) /\ \A v \in Workers \ {w} : req'[v] = req[v]
      <4>1. req[w].op # "create"
        BY <1>5 DEF Unlink, DeleteSession, ReplaceClient, ClearJID, ShowQR, SessionInv, Phases, Formed
      <4> QED
        BY <1>0, <3>2, <4>1, GotoFacts DEF Creating
    <3> QED
      BY <2>2, <3>1, <3>2
  <2> QED
    BY <2>1, <2>3
<1>6. ASSUME NEW s \in Sessions,
             Scanned(s) \/ Connected(s) \/ ReadID(s) \/ SaveJID(s) \/ LoggedOut(s)
      PROVE  Moves /\ \A v \in Workers : Creates(req[v], req'[v])
  BY <1>0, <1>6 DEF Scanned, Connected, ReadID, SaveJID, LoggedOut
<1>7. ASSUME NEW s \in Sessions, Restore(s)
      PROVE  Moves /\ \A v \in Workers : Creates(req[v], req'[v])
  <2>1. live' \in {live, live \cup {s}} /\ UNCHANGED <<proc, req>> /\ proc # "up"
    BY <1>7 DEF Restore, SessionInv, Phases
  <2> QED
    BY <2>1
<1>8. CASE Exit \/ Start \/ DropRestored \/ Restored
  <2>1. Moves
    BY <1>0, <1>8, SessionAssumption DEF Exit, Start, DropRestored, Restored
  <2>2. \A w \in Workers : req'[w] \in {req[w], Idle}
    BY <1>8 DEF Exit, Start, DropRestored, Restored
  <2> QED
    BY <2>1, <2>2, IdleFacts
<1> QED
  BY <1>1, <1>2, <1>3, <1>4, <1>5, <1>6, <1>7, <1>8 DEF SessionNext

\* The invariant speaks of the state of the sessions only.
LEMMA SessionInvStutter ==
  ASSUME SessionInv, UNCHANGED sessionVars PROVE SessionInv'
<1>1. SessionTypeOK' /\ Phases'
  BY DEF SessionInv, SessionTypeOK, Phases, sessionVars, disk, memory
<1>2. ASSUME NEW s \in Sessions PROVE Sound(s)'
  <2>1. Untouched(s)
    BY DEF Untouched, sessionVars, disk, memory
  <2> QED
    BY <2>1, UntouchedSound DEF SessionInv, sessionVars, memory
<1> QED
  BY <1>1, <1>2 DEF SessionInv

\* What it says of databases and of pairings.
LEMMA SessionInvFacts ==
  ASSUME SessionInv PROVE DatabaseHasRow /\ PairedSurvives
<1>1. ASSUME NEW s \in db
      PROVE  \/ row[s] # None \/ s \in leaked
             \/ \E w \in Workers : req[w] = [op |-> "create", on |-> s, step |-> "undo db"]
  <2>1. s \in Sessions
    BY DEF SessionInv, SessionTypeOK
  <2>2. ASSUME NEW w \in Workers, req[w].op = "create", req[w].step = "undo db", req[w].on = s
        PROVE  req[w] = [op |-> "create", on |-> s, step |-> "undo db"]
    <3>1. req[w] \in [op : Ops, on : Sessions \cup {Nobody}, step : Steps]
      BY DEF SessionInv, SessionTypeOK
    <3> QED
      BY <2>2, <3>1
  <2> QED
    BY <2>1, <2>2 DEF SessionInv, Sound, HasRow
<1>2. PairedSurvives
  BY DEF SessionInv, Sound, Survives, Unpaired, PairedSurvives
<1> QED
  BY <1>1, <1>2 DEF DatabaseHasRow

-------------------------------------------------------------------------------
(* The schedules.                                                          *)

\* What the ticker holds at each of its steps, and what the editors hold.
Marking ==
  /\ tick.step # "idle" => tick.on \in Sessions /\ tick.of \in Scheds
  /\ tick.step = "mark" => tick.of \notin trig
  /\ tick.step \in {"save", "dial", "bind"} => tick.of \in trig \ bound
  /\ tick.step = "save" => tick.copy[tick.of] = "spent"
  /\ \A e \in Editors : edit[e].step # "idle" => edit[e].on \in Sessions

\* Configurations go with the rows and the sessions they belong to, and nobody holds a
\* session that is only being created, or one of a server that is not up.
Loaded ==
  /\ \A s \in Sessions : /\ row[s] = None => saved[s] = NoConfig
                         /\ s \notin live => cfg[s] = NoConfig
  /\ \A w \in Workers : Creating(req[w]) => req[w].on \notin Held
  /\ proc # "up" => tick = NoTick /\ edit = [e \in Editors |-> NoCopy]

\* Session s would have x dialled, now or after a restart.
Kept(s, x) == cfg[s][x] = "active" \/ saved[s][x] = "active"

\* The ticker is about to dial x, and no configuration would have it dialled for the same reason:
\* while it is saving its mark, the configuration in memory can only be a newer one, but the row
\* is the one it replaces.
Due(x) ==
  /\ tick.of = x
  /\ \/ tick.step = "mark" /\ ~Kept(tick.on, x)
     \/ tick.step = "save" /\ (cfg[tick.on][x] = "active" \/ saved[tick.on][x] # "active")
     \/ tick.step = "dial"

\* Every dial of x that is still to come has been paid for.
One(P) == IF P THEN 1 ELSE 0
Keepers(x) == {s \in Sessions : Kept(s, x)}
Paid(x) == IsFiniteSet(Keepers(x)) /\ Cardinality(Keepers(x)) + One(Due(x)) <= credit[x]

SchedInv == /\ TypeOK /\ SessionInv /\ IsFiniteSet(live) /\ Marking /\ Loaded
            /\ \A x \in Scheds : Paid(x)

-------------------------------------------------------------------------------
(* Lemmas about the operators. *)

EditRec == [step : {"idle", "append", "save", "save empty", "count", "store"},
            on : Sessions \cup {Nobody}, copy : Config, total : Nat]
TickRec == [step : {"idle", "mark", "save", "dial", "bind", "save call"},
            on : Sessions \cup {Nobody}, copy : Config, of : Scheds \cup {0}]

\* An editor at rest has nothing in hand.
LEMMA NoConfigFacts ==
  /\ NoConfig \in Config /\ \A x \in Scheds : NoConfig[x] # "active"
  /\ NoCopy \in EditRec /\ NoCopy.step = "idle" /\ NoCopy.on = Nobody
  /\ NoTick \in TickRec /\ NoTick.step = "idle" /\ NoTick.on = Nobody
<1>1. NoConfig \in Config /\ \A x \in Scheds : NoConfig[x] # "active"
  BY DEF NoConfig, Config, Entries
<1> QED
  BY <1>1 DEF NoCopy, NoTick, EditRec, TickRec

\* The first active schedule of the list that is not being triggered is one of them.
LEMMA FirstDueIsCandidate ==
  ASSUME NEW s, Candidates(s) # {} PROVE FirstDue(s) \in Candidates(s)
<1>1. Candidates(s) \subseteq Nat
  BY SchedAssumption DEF Candidates, Active
<1> DEFINE Less == OpToRel(<, Nat)
<1>2. PICK x \in Candidates(s) : \A y \in Candidates(s) : <<y, x>> \notin Less
  <2>1. IsWellFoundedOn(Less, Nat)
    BY NatLessThanWellFounded
  <2> HIDE DEF Less
  <2> QED
    BY <1>1, <2>1, WFMin
<1>3. ASSUME NEW y \in Candidates(s) PROVE x <= y
  <2>1. y < x => <<y, x>> \in Less
    BY <1>1 DEF OpToRel
  <2>2. ~(y < x)
    BY <1>2, <2>1, Zenon
  <2> QED
    BY <1>1, <2>2
<1> QED
  BY <1>3 DEF FirstDue

\* A total is a number.
LEMMA TotalIsNat ==
  ASSUME IsFiniteSet(live) PROVE Total \in Nat
<1> DEFINE All == live \X Scheds
           Some == {p \in All : cfg[p[1]][p[2]] = "active"}
<1>1. IsFiniteSet(All)
  BY SchedAssumption, FS_Product
<1>2. IsFiniteSet(Some) /\ Cardinality(Some) \in Nat
  <2>1. Some \in SUBSET All
    OBVIOUS
  <2> HIDE DEF Some, All
  <2> QED
    BY <1>1, <2>1, FS_Subset, FS_CardinalityType
<1> QED
  BY <1>2 DEF Total

\* Giving back a place in the count.
LEMMA CreditFacts ==
  ASSUME credit \in [Scheds -> Int], NEW xs, credit' = Credited(xs)
  PROVE  /\ credit' \in [Scheds -> Int]
         /\ \A x \in Scheds : credit'[x] = IF x \in xs THEN credit[x] + 1 ELSE credit[x]
BY DEF Credited

\* A configuration set in memory, with the credit for what it makes active.
LEMMA SetFacts ==
  ASSUME TypeOK, NEW s \in Sessions, NEW c \in Config,
         cfg' = [cfg EXCEPT ![s] = c], credit' = Credited(Revived(s, c))
  PROVE  /\ cfg' \in [Sessions -> Config] /\ credit' \in [Scheds -> Int]
         /\ cfg'[s] = c /\ \A t \in Sessions \ {s} : cfg'[t] = cfg[t]
         /\ \A x \in Scheds : /\ credit'[x] >= credit[x]
                              /\ c[x] = "active" => cfg[s][x] = "active" \/ credit'[x] > credit[x]
<1>1. /\ cfg' \in [Sessions -> Config]
      /\ cfg'[s] = c /\ \A t \in Sessions \ {s} : cfg'[t] = cfg[t]
  BY DEF TypeOK
<1>2. \A x \in Scheds : x \in Revived(s, c) <=> c[x] = "active" /\ cfg[s][x] # "active"
  BY DEF Revived, Active
<1>3. /\ credit' \in [Scheds -> Int]
      /\ \A x \in Scheds : credit'[x] = IF x \in Revived(s, c) THEN credit[x] + 1 ELSE credit[x]
  BY CreditFacts DEF TypeOK
<1>4. credit \in [Scheds -> Int]
  BY DEF TypeOK
<1> QED
  BY <1>1, <1>2, <1>3, <1>4

\* A configuration written to a row, likewise.
LEMMA StoreFacts ==
  ASSUME TypeOK, NEW s \in Sessions, NEW c \in Config, NEW o, Store(s, c, o)
  PROVE  /\ saved' \in [Sessions -> Config] /\ credit' \in [Scheds -> Int]
         /\ \A t \in Sessions \ {s} : saved'[t] = saved[t]
         /\ \/ (o # "ok" \/ row[s] = None) /\ saved' = saved /\ credit' = credit
            \/ /\ o = "ok" /\ row[s] # None /\ saved'[s] = c
               /\ \A x \in Scheds :
                    /\ credit'[x] >= credit[x]
                    /\ c[x] = "active" => \/ saved[s][x] = "active" \/ cfg[s][x] = "active"
                                          \/ credit'[x] > credit[x]
<1>1. CASE o # "ok" \/ row[s] = None
  BY <1>1 DEF Store, TypeOK
<1>2. CASE o = "ok" /\ row[s] # None
  <2>1. saved' = [saved EXCEPT ![s] = c] /\ credit' = Credited(SavedAlone(s, c))
    BY <1>2 DEF Store
  <2>2. \A x \in Scheds : x \in SavedAlone(s, c) <=>
          c[x] = "active" /\ saved[s][x] # "active" /\ cfg[s][x] # "active"
    BY DEF SavedAlone, Active
  <2>3. /\ credit' \in [Scheds -> Int]
        /\ \A x \in Scheds : credit'[x] = IF x \in SavedAlone(s, c) THEN credit[x] + 1 ELSE credit[x]
    BY <2>1, CreditFacts DEF TypeOK
  <2>4. /\ saved' \in [Sessions -> Config] /\ saved'[s] = c
        /\ \A t \in Sessions \ {s} : saved'[t] = saved[t]
    BY <2>1 DEF TypeOK
  <2>5. credit \in [Scheds -> Int]
    BY DEF TypeOK
  <2> QED
    BY <1>2, <2>2, <2>3, <2>4, <2>5
<1> QED
  BY <1>1, <1>2

-------------------------------------------------------------------------------
(* How a step keeps every dial paid. *)

\* The sum moves with what the step does to one session.
LEMMA PaidLocally ==
  ASSUME NEW x \in Scheds, NEW s \in Sessions, Paid(x), credit[x] \in Int, credit'[x] \in Int,
         \A t \in Sessions \ {s} : Kept(t, x)' => Kept(t, x),
         One(Kept(s, x)') + One(Due(x)') - credit'[x] <= One(Kept(s, x)) + One(Due(x)) - credit[x]
  PROVE  Paid(x)'
<1> DEFINE K == Keepers(x)  L == Keepers(x)'
<1>1. IsFiniteSet(K) /\ Cardinality(K) \in Nat /\ Cardinality(K) + One(Due(x)) <= credit[x]
  BY FS_CardinalityType DEF Paid
<1>2. L \ {s} \subseteq K \ {s} /\ (s \in K <=> Kept(s, x)) /\ (s \in L <=> Kept(s, x)')
  BY DEF Keepers
<1> HIDE DEF K, L
<1>3. IsFiniteSet(K \ {s}) /\ Cardinality(K \ {s}) = Cardinality(K) - One(s \in K)
  BY <1>1, FS_RemoveElement DEF One
<1>4. /\ IsFiniteSet(L \ {s}) /\ Cardinality(L \ {s}) <= Cardinality(K \ {s})
      /\ Cardinality(L \ {s}) \in Nat
  BY <1>2, <1>3, FS_Subset, FS_CardinalityType
<1>5. IsFiniteSet(L) /\ Cardinality(L) = Cardinality(L \ {s}) + One(s \in L)
  <2>1. CASE s \in L
    <3>1. L = (L \ {s}) \cup {s}
      BY <2>1
    <3> QED
      BY <1>4, <2>1, <3>1, FS_AddElement DEF One
  <2>2. CASE s \notin L
    <3>1. L = L \ {s} /\ One(s \in L) = 0
      BY <2>2 DEF One
    <3>2. IsFiniteSet(L) /\ Cardinality(L) = Cardinality(L \ {s})
      BY <1>4, <3>1, Zenon
    <3> QED
      BY <1>4, <3>1, <3>2
  <2> QED
    BY <2>1, <2>2
<1>6. One(s \in K) = One(Kept(s, x)) /\ One(s \in L) = One(Kept(s, x)')
  BY <1>2 DEF One
<1>7. Cardinality(L) + One(Due(x)') <= credit'[x]
  BY <1>1, <1>3, <1>4, <1>5, <1>6 DEF One
<1> QED
  BY <1>5, <1>7 DEF Paid, L

\* A write of s by an editor, or by the ticker once it has dialled: what it newly makes active
\* is paid for; what it makes inactive the ticker may still hold.
LEMMA WriteKeepsPaid ==
  ASSUME TypeOK, NEW x \in Scheds, NEW s \in Sessions, Paid(x), credit' \in [Scheds -> Int],
         \A t \in Sessions \ {s} : cfg'[t] = cfg[t] /\ saved'[t] = saved[t],
         tick.step # "idle" => tick.on \in Sessions,
         tick' = tick \/ (~Due(x) /\ ~Due(x)'),
         credit'[x] >= credit[x],
         \/ /\ saved' = saved
            /\ cfg'[s][x] = "active" => cfg[s][x] = "active" \/ credit'[x] > credit[x]
         \/ /\ cfg' = cfg
            /\ saved'[s][x] = "active" => \/ saved[s][x] = "active" \/ cfg[s][x] = "active"
                                          \/ credit'[x] > credit[x]
  PROVE  Paid(x)'
<1>1. credit[x] \in Int /\ credit'[x] \in Int
  BY DEF TypeOK
<1>2. \A t \in Sessions \ {s} : Kept(t, x)' <=> Kept(t, x)
  BY DEF Kept
<1>3. One(Kept(s, x)') + One(Due(x)') - credit'[x] <= One(Kept(s, x)) + One(Due(x)) - credit[x]
  <2>1. CASE ~Due(x) /\ ~Due(x)'
    BY <1>1, <2>1 DEF Kept, One
  <2>2. CASE tick' = tick /\ tick.step = "idle"
    BY <1>1, <2>2 DEF Kept, Due, One
  <2>3. CASE tick' = tick /\ tick.step # "idle" /\ tick.on = s
    BY <1>1, <2>3 DEF Kept, Due, One
  <2>4. CASE tick' = tick /\ tick.step # "idle" /\ tick.on # s
    <3>1. Due(x)' <=> Due(x)
      BY <1>2, <2>4 DEF Due
    <3> QED
      BY <1>1, <3>1 DEF Kept, One
  <2> QED
    BY <2>1, <2>2, <2>3, <2>4
<1> QED
  BY <1>1, <1>2, <1>3, PaidLocally

\* What a step of the scheduler leaves alone.
LEMMA SessionsStay ==
  ASSUME SchedInv, UNCHANGED sessionVars
  PROVE  /\ SessionTypeOK' /\ SessionInv' /\ IsFiniteSet(live)'
         /\ UNCHANGED <<mix, row, proc, live, client, req>>
<1>1. UNCHANGED <<mix, row, proc, live, client, req>>
  BY DEF sessionVars, disk, memory
<1>2. SessionInv' /\ IsFiniteSet(live)'
  BY <1>1, SessionInvStutter DEF SchedInv
<1> QED
  BY <1>1, <1>2 DEF SessionInv

\* The sessions a request is creating are registered nowhere.
LEMMA CreatedIsUnknown ==
  ASSUME SessionInv, NEW w \in Workers, Creating(req[w])
  PROVE  req[w].on \in Sessions \ live
<1>1. req[w].on \in Sessions
  BY DEF SessionInv, Phases, Formed, Creating
<1> QED
  BY <1>1 DEF SessionInv, Sound, Creation, Unknown

-------------------------------------------------------------------------------
(* One lemma per action. *)

\* The settings handler starts with the configuration it was sent.
LEMMA PutConfigInv ==
  ASSUME SchedInv, NEW s \in Sessions, NEW c \in [Scheds -> {"absent", "active"}], PutConfig(s, c)
  PROVE  SchedInv'
<1>1. /\ SessionTypeOK' /\ SessionInv' /\ IsFiniteSet(live)'
      /\ UNCHANGED <<mix, row, proc, live, client, req>>
  BY SessionsStay DEF PutConfig
<1>2. TypeOK /\ Marking /\ Loaded /\ c \in Config
  BY DEF SchedInv, Config, Entries
<1>0. /\ s \in live /\ proc = "up" /\ edits < MaxEdits /\ edits' = edits + 1
      /\ UNCHANGED <<saved, count, tick, trig, bound, ringing>> /\ muddled' \in BOOLEAN
  BY DEF PutConfig
<1>3. /\ cfg' \in [Sessions -> Config] /\ credit' \in [Scheds -> Int]
      /\ cfg'[s] = c /\ \A t \in Sessions \ {s} : cfg'[t] = cfg[t]
      /\ \A x \in Scheds : /\ credit'[x] >= credit[x]
                           /\ c[x] = "active" => cfg[s][x] = "active" \/ credit'[x] > credit[x]
  <2>1. cfg' = [cfg EXCEPT ![s] = c] /\ credit' = Credited(Revived(s, c))
    BY DEF PutConfig, SetConfig
  <2> QED
    BY <1>2, <2>1, SetFacts
<1>4. /\ edit' \in [Editors -> EditRec] /\ edit'["put"].on = s /\ edit'["tool"] = edit["tool"]
  <2>1. PICK step \in {"save", "save empty"} :
          edit' = [edit EXCEPT !["put"] = [step |-> step, on |-> s, copy |-> c, total |-> 0]]
    BY DEF PutConfig
  <2>2. [step |-> step, on |-> s, copy |-> c, total |-> 0] \in EditRec
    BY <1>2, <2>1 DEF EditRec
  <2> QED
    BY <1>2, <2>1, <2>2 DEF TypeOK, EditRec, Editors
<1>5. TypeOK'
  <2>0. edits \in 0..MaxEdits /\ MaxEdits \in Nat
    BY <1>2, SchedAssumption DEF TypeOK
  <2>1. edits' \in 0..MaxEdits
    BY <1>0, <2>0
  <2> QED
    BY <1>0, <1>1, <1>2, <1>3, <1>4, <2>1 DEF TypeOK, EditRec
<1>6. Marking'
  BY <1>0, <1>2, <1>4 DEF Marking, Editors
<1>7. Loaded'
  <2>1. \A w \in Workers : Creating(req[w]) => req[w].on # s
    BY <1>0, CreatedIsUnknown DEF SchedInv
  <2>2. Held' \subseteq Held \cup {s}
    BY <1>0, <1>4 DEF Held, Editors
  <2> QED
    BY <1>0, <1>1, <1>2, <1>3, <2>1, <2>2 DEF Loaded
<1>8. ASSUME NEW x \in Scheds PROVE Paid(x)'
  <2>0. credit \in [Scheds -> Int]
    BY <1>2 DEF TypeOK
  <2>1. /\ credit'[x] >= credit[x]
        /\ cfg'[s][x] = "active" => cfg[s][x] = "active" \/ credit'[x] > credit[x]
    BY <1>3, <2>0
  <2>2. tick.step # "idle" => tick.on \in Sessions
    BY <1>2 DEF Marking
  <2>3. Paid(x) /\ \A t \in Sessions \ {s} : cfg'[t] = cfg[t] /\ saved'[t] = saved[t]
    BY <1>0, <1>3 DEF SchedInv
  <2>4. TypeOK /\ tick' = tick /\ saved' = saved /\ credit' \in [Scheds -> Int]
    BY <1>0, <1>2, <1>3
  <2>5. tick' = tick \/ (~Due(x) /\ ~Due(x)')
    BY <2>4
  <2>6. \/ /\ saved' = saved
           /\ cfg'[s][x] = "active" => cfg[s][x] = "active" \/ credit'[x] > credit[x]
        \/ /\ cfg' = cfg
           /\ saved'[s][x] = "active" => \/ saved[s][x] = "active" \/ cfg[s][x] = "active"
                                         \/ credit'[x] > credit[x]
    BY <2>1, <2>4
  <2> QED
    BY <2>1, <2>2, <2>3, <2>4, <2>5, <2>6, WriteKeepsPaid, SMTT(60)
<1> QED
  BY <1>1, <1>5, <1>6, <1>7, <1>8 DEF SchedInv

\* The agent's tool takes a copy.
LEMMA ToolCopiesInv ==
  ASSUME SchedInv, NEW s \in Sessions, ToolCopies(s)
  PROVE  SchedInv'
<1>1. /\ SessionTypeOK' /\ SessionInv' /\ IsFiniteSet(live)'
      /\ UNCHANGED <<mix, row, proc, live, client, req>>
  BY SessionsStay DEF ToolCopies
<1>2. TypeOK /\ Marking /\ Loaded
  BY DEF SchedInv
<1>0. /\ s \in live /\ proc = "up" /\ edits < MaxEdits /\ edits' = edits + 1
      /\ UNCHANGED <<cfg, saved, count, tick, trig, bound, ringing, credit>>
      /\ muddled' \in BOOLEAN
  BY DEF ToolCopies
<1>3. /\ edit' \in [Editors -> EditRec] /\ edit'["tool"].on = s /\ edit'["put"] = edit["put"]
  <2>1. [step |-> "append", on |-> s, copy |-> cfg[s], total |-> 0] \in EditRec
    BY <1>2 DEF EditRec, TypeOK
  <2> QED
    BY <1>2, <2>1 DEF ToolCopies, TypeOK, EditRec, Editors
<1>4. TypeOK'
  <2>0. edits \in 0..MaxEdits /\ MaxEdits \in Nat
    BY <1>2, SchedAssumption DEF TypeOK
  <2>1. edits' \in 0..MaxEdits
    BY <1>0, <2>0
  <2> QED
    BY <1>0, <1>1, <1>2, <1>3, <2>1 DEF TypeOK, EditRec
<1>5. Marking'
  BY <1>0, <1>2, <1>3 DEF Marking, Editors
<1>6. Loaded'
  <2>1. \A w \in Workers : Creating(req[w]) => req[w].on # s
    BY <1>0, CreatedIsUnknown DEF SchedInv
  <2>2. Held' \subseteq Held \cup {s}
    BY <1>0, <1>3 DEF Held, Editors
  <2> QED
    BY <1>0, <1>1, <1>2, <2>1, <2>2 DEF Loaded
<1>7. ASSUME NEW x \in Scheds PROVE Paid(x)'
  BY <1>0 DEF SchedInv, Paid, Keepers, Kept, Due
<1> QED
  BY <1>1, <1>4, <1>5, <1>6, <1>7 DEF SchedInv

\* It adds one schedule to its copy.
LEMMA ToolAppendsInv ==
  ASSUME SchedInv, ToolAppends
  PROVE  SchedInv'
<1> DEFINE old == edit["tool"].copy
           new == {x \in Scheds : \A y \in Scheds : y >= x => old[y] = "absent"}
           d == [old EXCEPT ![CHOOSE y \in new : \A z \in new : y <= z] = "active"]
<1>1. /\ SessionTypeOK' /\ SessionInv' /\ IsFiniteSet(live)'
      /\ UNCHANGED <<mix, row, proc, live, client, req>>
  BY SessionsStay DEF ToolAppends
<1>2. /\ TypeOK /\ Marking /\ Loaded /\ edit["tool"].step = "append"
      /\ edit \in [Editors -> EditRec] /\ "tool" \in Editors
  BY DEF SchedInv, ToolAppends, TypeOK, EditRec, Editors
<1>3. edit["tool"].on \in Sessions /\ old \in Config /\ d \in Config
  <2>1. edit["tool"].on \in Sessions /\ old \in Config
    BY <1>2 DEF Marking, EditRec
  <2> QED
    BY <2>1 DEF Config, Entries
<1> PICK s \in Sessions : s = edit["tool"].on
  BY <1>3
<1>4. /\ UNCHANGED <<saved, count, tick, trig, bound, ringing, edits, muddled>>
      /\ \/ edit' = [edit EXCEPT !["tool"] = NoCopy] /\ UNCHANGED <<cfg, credit>>
         \/ /\ edit' = [edit EXCEPT !["tool"].step = "save", !["tool"].copy = d]
            /\ \/ s \notin live /\ UNCHANGED <<cfg, credit>>
               \/ s \in live /\ cfg' = [cfg EXCEPT ![s] = d] /\ credit' = Credited(Revived(s, d))
  BY DEF ToolAppends
<1> HIDE DEF old, d, new
<1> PICK a \in Config : a = d
  BY <1>3
<1>5. /\ cfg' \in [Sessions -> Config] /\ credit' \in [Scheds -> Int]
      /\ \A t \in Sessions \ {s} : cfg'[t] = cfg[t]
      /\ s \notin live => cfg'[s] = cfg[s]
      /\ \A x \in Scheds :
           /\ credit'[x] >= credit[x]
           /\ cfg'[s][x] = "active" => cfg[s][x] = "active" \/ credit'[x] > credit[x]
  <2>0. credit \in [Scheds -> Int] /\ cfg \in [Sessions -> Config]
    BY <1>2 DEF TypeOK
  <2>1. CASE UNCHANGED <<cfg, credit>>
    BY <2>0, <2>1
  <2>2. CASE s \in live /\ cfg' = [cfg EXCEPT ![s] = d] /\ credit' = Credited(Revived(s, d))
    <3>1. TypeOK /\ cfg' = [cfg EXCEPT ![s] = a] /\ credit' = Credited(Revived(s, a))
      BY <1>2, <2>2, Zenon
    <3> QED
      BY <2>2, <3>1, SetFacts
  <2> QED
    BY <1>4, <2>1, <2>2
<1>6. /\ edit' \in [Editors -> EditRec] /\ edit'["put"] = edit["put"]
      /\ edit'["tool"].on \in {s, Nobody}
      /\ edit'["tool"].step # "idle" => edit'["tool"].on = s
  <2>1. CASE edit' = [edit EXCEPT !["tool"] = NoCopy]
    BY <1>2, <2>1, NoConfigFacts DEF Editors
  <2>2. CASE edit' = [edit EXCEPT !["tool"].step = "save", !["tool"].copy = d]
    BY <1>2, <1>3, <2>2 DEF EditRec, Editors
  <2> QED
    BY <1>4, <2>1, <2>2
<1>7. TypeOK'
  BY <1>1, <1>2, <1>4, <1>5, <1>6 DEF TypeOK, EditRec
<1>8. Marking'
  BY <1>2, <1>4, <1>6 DEF Marking, Editors
<1>9. Loaded'
  <2>1. Held' \subseteq Held \cup {Nobody}
    BY <1>4, <1>6 DEF Held, Editors
  <2>2. \A w \in Workers : Creating(req[w]) => req[w].on # Nobody
    BY CreatedIsUnknown, SessionAssumption DEF SchedInv
  <2>3. proc = "up"
    BY <1>2, NoConfigFacts DEF Loaded
  <2> QED
    BY <1>1, <1>2, <1>4, <1>5, <2>1, <2>2, <2>3 DEF Loaded
<1>10. ASSUME NEW x \in Scheds PROVE Paid(x)'
  <2>0. credit \in [Scheds -> Int]
    BY <1>2 DEF TypeOK
  <2>1. /\ credit'[x] >= credit[x]
        /\ cfg'[s][x] = "active" => cfg[s][x] = "active" \/ credit'[x] > credit[x]
    BY <1>5, <2>0
  <2>2. tick.step # "idle" => tick.on \in Sessions
    BY <1>2 DEF Marking
  <2>3. Paid(x) /\ \A t \in Sessions \ {s} : cfg'[t] = cfg[t] /\ saved'[t] = saved[t]
    BY <1>4, <1>5 DEF SchedInv
  <2>4. TypeOK /\ tick' = tick /\ saved' = saved /\ credit' \in [Scheds -> Int]
    BY <1>2, <1>4, <1>5
  <2>5. tick' = tick \/ (~Due(x) /\ ~Due(x)')
    BY <2>4
  <2>6. \/ /\ saved' = saved
           /\ cfg'[s][x] = "active" => cfg[s][x] = "active" \/ credit'[x] > credit[x]
        \/ /\ cfg' = cfg
           /\ saved'[s][x] = "active" => \/ saved[s][x] = "active" \/ cfg[s][x] = "active"
                                         \/ credit'[x] > credit[x]
    BY <2>1, <2>4
  <2> QED
    BY <2>1, <2>2, <2>3, <2>4, <2>5, <2>6, WriteKeepsPaid, SMTT(60)
<1> QED
  BY <1>1, <1>7, <1>8, <1>9, <1>10 DEF SchedInv

\* An editor writes its copy back, to memory and to the row.
LEMMA EditSavesInv ==
  ASSUME SchedInv, NEW e \in Editors, EditSaves(e)
  PROVE  SchedInv'
<1>0. /\ edit[e].step \in {"save", "save empty"} /\ muddled' \in BOOLEAN
      /\ UNCHANGED <<cfg, count, tick, trig, bound, ringing, edits>>
  BY DEF EditSaves
<1>1. /\ SessionTypeOK' /\ SessionInv' /\ IsFiniteSet(live)'
      /\ UNCHANGED <<mix, row, proc, live, client, req>>
  BY SessionsStay DEF EditSaves
<1>2. /\ TypeOK /\ Marking /\ Loaded /\ edit \in [Editors -> EditRec]
  BY DEF SchedInv, TypeOK, EditRec
<1>3. edit[e].on \in Sessions /\ edit[e].copy \in Config
  BY <1>0, <1>2 DEF Marking, EditRec
<1> PICK s \in Sessions, c \in Config : s = edit[e].on /\ c = edit[e].copy
  BY <1>3
<1>4. PICK o \in Outcome :
        /\ Store(s, c, o)
        /\ \/ edit' = [edit EXCEPT ![e].step = "count"]
           \/ edit' = [edit EXCEPT ![e] = NoCopy]
  BY DEF EditSaves
<1>5. /\ saved' \in [Sessions -> Config] /\ credit' \in [Scheds -> Int]
      /\ \A t \in Sessions \ {s} : saved'[t] = saved[t]
      /\ \/ saved' = saved /\ credit' = credit
         \/ /\ row[s] # None /\ saved'[s] = c
            /\ \A x \in Scheds :
                 /\ credit'[x] >= credit[x]
                 /\ c[x] = "active" => \/ saved[s][x] = "active" \/ cfg[s][x] = "active"
                                       \/ credit'[x] > credit[x]
  BY <1>2, <1>4, StoreFacts
<1>6. /\ edit' \in [Editors -> EditRec] /\ \A f \in Editors \ {e} : edit'[f] = edit[f]
      /\ edit'[e].on \in {s, Nobody} /\ (edit'[e].step # "idle" => edit'[e].on = s)
  <2>1. CASE edit' = [edit EXCEPT ![e] = NoCopy]
    BY <1>2, <2>1, NoConfigFacts
  <2>2. CASE edit' = [edit EXCEPT ![e].step = "count"]
    BY <1>2, <2>2 DEF EditRec
  <2> QED
    BY <1>4, <2>1, <2>2
<1>7. TypeOK'
  BY <1>0, <1>1, <1>2, <1>5, <1>6 DEF TypeOK, EditRec
<1>8. Marking'
  BY <1>0, <1>2, <1>6 DEF Marking
<1>9. Loaded'
  <2>1. Held' \subseteq Held \cup {Nobody}
    BY <1>0, <1>6 DEF Held
  <2>2. \A w \in Workers : Creating(req[w]) => req[w].on # Nobody
    BY CreatedIsUnknown, SessionAssumption DEF SchedInv
  <2>3. proc = "up"
    BY <1>0, <1>2, NoConfigFacts DEF Loaded
  <2> QED
    BY <1>0, <1>1, <1>2, <1>5, <2>1, <2>2, <2>3 DEF Loaded
<1>10. ASSUME NEW x \in Scheds PROVE Paid(x)'
  <2>1. credit \in [Scheds -> Int]
    BY <1>2 DEF TypeOK
  <2>2. /\ credit'[x] >= credit[x]
        /\ saved'[s][x] = "active" => \/ saved[s][x] = "active" \/ cfg[s][x] = "active"
                                      \/ credit'[x] > credit[x]
    BY <1>5, <2>1
  <2>3. /\ Paid(x) /\ cfg' = cfg /\ tick' = tick
        /\ \A t \in Sessions \ {s} : cfg'[t] = cfg[t] /\ saved'[t] = saved[t]
    BY <1>0, <1>5 DEF SchedInv
  <2>4. tick.step # "idle" => tick.on \in Sessions
    BY <1>2 DEF Marking
  <2> QED
    BY <1>2, <1>5, <2>2, <2>3, <2>4, WriteKeepsPaid
<1> QED
  BY <1>1, <1>7, <1>8, <1>9, <1>10 DEF SchedInv

\* The active schedules are added up, and the sum is stored later.
LEMMA RecountInv ==
  ASSUME SchedInv, NEW e \in Editors, Recount(e)
  PROVE  SchedInv'
<1>0. /\ edit[e].step \in {"count", "store"}
      /\ UNCHANGED <<cfg, saved, tick, trig, bound, ringing, credit, edits, muddled>>
      /\ \/ count' = count /\ edit' = [edit EXCEPT ![e].step = "store", ![e].total = Total]
         \/ count' = edit[e].total /\ edit' = [edit EXCEPT ![e] = NoCopy]
  BY DEF Recount
<1>1. /\ SessionTypeOK' /\ SessionInv' /\ IsFiniteSet(live)'
      /\ UNCHANGED <<mix, row, proc, live, client, req>>
  BY SessionsStay DEF Recount
<1>2. /\ TypeOK /\ Marking /\ Loaded /\ edit \in [Editors -> EditRec] /\ Total \in Nat
  BY TotalIsNat DEF SchedInv, TypeOK, EditRec
<1>3. /\ edit' \in [Editors -> EditRec] /\ \A f \in Editors \ {e} : edit'[f] = edit[f]
      /\ edit'[e].on \in {edit[e].on, Nobody} /\ (edit'[e].step # "idle" => edit'[e].on = edit[e].on)
  <2>1. CASE edit' = [edit EXCEPT ![e] = NoCopy]
    BY <1>2, <2>1, NoConfigFacts
  <2>2. CASE edit' = [edit EXCEPT ![e].step = "store", ![e].total = Total]
    BY <1>2, <2>2 DEF EditRec
  <2> QED
    BY <1>0, <2>1, <2>2
<1>4. TypeOK'
  <2>0. count \in Int /\ edit[e].total \in Nat
    BY <1>2 DEF TypeOK, EditRec
  <2>1. count' \in Int
    BY <1>0, <2>0
  <2> QED
    BY <1>0, <1>1, <1>2, <1>3, <2>1 DEF TypeOK, EditRec
<1>5. Marking'
  BY <1>0, <1>2, <1>3 DEF Marking
<1>6. Loaded'
  <2>1. Held' \subseteq Held \cup {Nobody}
    BY <1>0, <1>3 DEF Held
  <2>2. \A w \in Workers : Creating(req[w]) => req[w].on # Nobody
    BY CreatedIsUnknown, SessionAssumption DEF SchedInv
  <2>3. proc = "up"
    BY <1>0, <1>2, NoConfigFacts DEF Loaded
  <2> QED
    BY <1>0, <1>1, <1>2, <2>1, <2>2, <2>3 DEF Loaded
<1>7. ASSUME NEW x \in Scheds PROVE Paid(x)'
  BY <1>0 DEF SchedInv, Paid, Keepers, Kept, Due
<1> QED
  BY <1>1, <1>4, <1>5, <1>6, <1>7 DEF SchedInv

\* A scheduled call ends and gives its place back.
LEMMA CallEndsInv ==
  ASSUME SchedInv, NEW s \in Sessions, NEW x \in Scheds, CallEnds(s, x)
  PROVE  SchedInv'
<1>0. /\ ringing' \subseteq ringing /\ bound' = bound \ {x}
      /\ trig' = trig \/ (x \in bound /\ trig' = trig \ {x})
      /\ UNCHANGED <<cfg, saved, count, edit, tick, credit, edits, muddled>>
  BY DEF CallEnds
<1>1. /\ SessionTypeOK' /\ SessionInv' /\ IsFiniteSet(live)'
      /\ UNCHANGED <<mix, row, proc, live, client, req>>
  BY SessionsStay DEF CallEnds
<1>2. TypeOK /\ Marking /\ Loaded
  BY DEF SchedInv
<1>3. TypeOK'
  <2>1. trig' \subseteq Scheds /\ bound' \subseteq trig' /\ ringing' \subseteq Sessions \X Scheds
    BY <1>0, <1>2 DEF TypeOK
  <2> QED
    BY <1>0, <1>1, <1>2, <2>1 DEF TypeOK
<1>4. Marking'
  BY <1>0, <1>2 DEF Marking
<1>5. Loaded'
  BY <1>0, <1>1, <1>2 DEF Loaded, Held
<1>6. ASSUME NEW y \in Scheds PROVE Paid(y)'
  BY <1>0 DEF SchedInv, Paid, Keepers, Kept, Due
<1> QED
  BY <1>1, <1>3, <1>4, <1>5, <1>6 DEF SchedInv

-------------------------------------------------------------------------------
(* The ticker's steps. *)

\* What they have in common: they end on the session they are on, or on none.
LEMMA TickKeeps ==
  ASSUME SchedInv,
         UNCHANGED <<sessionVars, edit>>, proc = "up",
         NEW s \in Sessions, s \in live \/ s = tick.on, tick'.on \in {s, Nobody},
         \A t \in Sessions : \/ t \in live \/ cfg'[t] = cfg[t],
         \A t \in Sessions : row[t] # None \/ saved'[t] = saved[t]
  PROVE  Loaded'
<1>1. UNCHANGED <<row, proc, live, req>> /\ Loaded
  BY SessionsStay DEF SchedInv
<1>2. Held' \subseteq Held \cup {s, Nobody}
  BY DEF Held
<1>3. \A w \in Workers : Creating(req[w]) => req[w].on \notin live \cup {Nobody}
  BY CreatedIsUnknown, SessionAssumption DEF SchedInv
<1>4. tick.on \in Held
  BY DEF Held
<1>5. \A w \in Workers : Creating(req[w]) => req[w].on \notin Held'
  BY <1>1, <1>2, <1>3, <1>4 DEF Loaded
<1> QED
  BY <1>1, <1>5 DEF Loaded

\* The ticker takes the configuration as it is.
LEMMA TickReadsInv ==
  ASSUME SchedInv, NEW s \in Sessions, TickReads(s)
  PROVE  SchedInv'
<1>0. /\ tick.step = "idle" /\ proc = "up" /\ s \in live /\ Candidates(s) # {}
      /\ tick' = [step |-> "mark", on |-> s, copy |-> cfg[s], of |-> FirstDue(s)]
      /\ UNCHANGED <<sessionVars, cfg, saved, count, edit, trig, bound, ringing, credit, edits>>
      /\ muddled' \in BOOLEAN
  BY DEF TickReads
<1>1. /\ SessionTypeOK' /\ SessionInv' /\ IsFiniteSet(live)'
      /\ UNCHANGED <<mix, row, proc, live, client, req>>
  BY <1>0, SessionsStay
<1>2. TypeOK /\ Marking /\ Loaded
  BY DEF SchedInv
<1>3. FirstDue(s) \in Scheds \ trig /\ cfg[s][FirstDue(s)] = "active"
  BY <1>0, FirstDueIsCandidate DEF Candidates, Active
<1>4. tick' \in TickRec
  BY <1>0, <1>2, <1>3 DEF TypeOK, TickRec
<1>5. TypeOK'
  BY <1>0, <1>1, <1>2, <1>4 DEF TypeOK, TickRec
<1>6. Marking'
  BY <1>0, <1>2, <1>3 DEF Marking
<1>7. Loaded'
  BY <1>0, TickKeeps
<1>8. ASSUME NEW x \in Scheds PROVE Paid(x)'
  <2>1. ~Due(x) /\ ~Due(x)'
    BY <1>0, <1>3 DEF Due, Kept
  <2>2. Keepers(x)' = Keepers(x)
    BY <1>0 DEF Keepers, Kept
  <2> QED
    BY <1>0, <2>1, <2>2 DEF SchedInv, Paid, One
<1> QED
  BY <1>1, <1>5, <1>6, <1>7, <1>8 DEF SchedInv

\* The ticker marks the schedule it is going to dial.
LEMMA TickMarksInv ==
  ASSUME SchedInv, TickMarks
  PROVE  SchedInv'
<1> DEFINE d == [tick.copy EXCEPT ![tick.of] = "spent"]
<1>0. /\ tick.step = "mark" /\ tick' = [tick EXCEPT !.step = "save", !.copy = d]
      /\ \/ tick.on \notin live /\ UNCHANGED <<cfg, credit>>
         \/ /\ tick.on \in live /\ cfg' = [cfg EXCEPT ![tick.on] = d]
            /\ credit' = Credited(Revived(tick.on, d))
      /\ trig' = trig \cup {tick.of} /\ count' = count - 1
      /\ UNCHANGED <<sessionVars, saved, edit, bound, ringing, edits, muddled>>
  BY DEF TickMarks
<1>1. /\ SessionTypeOK' /\ SessionInv' /\ IsFiniteSet(live)'
      /\ UNCHANGED <<mix, row, proc, live, client, req>>
  BY <1>0, SessionsStay
<1>2. TypeOK /\ Marking /\ Loaded /\ tick \in TickRec
  BY DEF SchedInv, TypeOK, TickRec
<1>3. /\ tick.on \in Sessions /\ tick.of \in Scheds \ trig /\ d \in Config /\ d[tick.of] = "spent"
      /\ proc = "up"
  BY <1>0, <1>2, NoConfigFacts DEF Marking, Loaded, TickRec, Config, Entries
<1> HIDE DEF d
<1> PICK s \in Sessions, y \in Scheds, c \in Config : s = tick.on /\ y = tick.of /\ c = d
  BY <1>3
<1>4. /\ cfg' \in [Sessions -> Config] /\ credit' \in [Scheds -> Int]
      /\ \A t \in Sessions \ {s} : cfg'[t] = cfg[t]
      /\ s \notin live => cfg'[s] = cfg[s]
      /\ cfg'[s][y] # "active"
      /\ \A x \in Scheds :
           /\ credit'[x] >= credit[x]
           /\ cfg'[s][x] = "active" => cfg[s][x] = "active" \/ credit'[x] > credit[x]
  <2>0. credit \in [Scheds -> Int] /\ cfg \in [Sessions -> Config]
    BY <1>2 DEF TypeOK
  <2>1. CASE s \notin live /\ UNCHANGED <<cfg, credit>>
    <3>1. cfg[s] = NoConfig
      BY <1>2, <2>1 DEF Loaded
    <3> QED
      BY <2>0, <2>1, <3>1, NoConfigFacts
  <2>2. CASE /\ s \in live /\ cfg' = [cfg EXCEPT ![s] = c] /\ credit' = Credited(Revived(s, c))
    BY <1>2, <1>3, <2>2, SetFacts
  <2> QED
    BY <1>0, <2>1, <2>2
<1>5. /\ tick' \in TickRec /\ tick'.step = "save" /\ tick'.on = s /\ tick'.of = y
      /\ tick'.copy = c
  BY <1>0, <1>2 DEF TickRec
<1>6. TypeOK'
  <2>0. count \in Int /\ bound \subseteq trig /\ trig \subseteq Scheds
    BY <1>2 DEF TypeOK
  <2>1. count' \in Int /\ bound' \subseteq trig' /\ trig' \subseteq Scheds
    BY <1>0, <1>3, <2>0
  <2> QED
    BY <1>0, <1>1, <1>2, <1>4, <1>5, <2>1 DEF TypeOK, TickRec
<1>7. Marking'
  <2>1. bound \subseteq trig
    BY <1>2 DEF TypeOK
  <2> QED
    BY <1>0, <1>2, <1>3, <1>5, <2>1 DEF Marking
<1>8. Loaded'
  BY <1>0, <1>3, <1>4, <1>5, TickKeeps
<1>9. ASSUME NEW x \in Scheds PROVE Paid(x)'
  <2>1. credit[x] \in Int /\ credit'[x] \in Int /\ Paid(x)
    BY <1>2, <1>4 DEF TypeOK, SchedInv
  <2>2. \A t \in Sessions \ {s} : Kept(t, x)' => Kept(t, x)
    BY <1>0, <1>4 DEF Kept
  <2>3. One(Kept(s, x)') + One(Due(x)') - credit'[x] <= One(Kept(s, x)) + One(Due(x)) - credit[x]
    <3>1. CASE x = y
      <4>1. (Kept(s, x) <=> ~Due(x)) /\ (Kept(s, x)' <=> ~Due(x)')
        BY <1>0, <1>4, <1>5, <3>1 DEF Kept, Due
      <4> QED
        BY <1>4, <2>1, <4>1 DEF One
    <3>2. CASE x # y
      <4>1. ~Due(x) /\ ~Due(x)'
        BY <1>5, <3>2 DEF Due
      <4>2. Kept(s, x)' => Kept(s, x) \/ credit'[x] > credit[x]
        BY <1>0, <1>4 DEF Kept
      <4> QED
        BY <1>4, <2>1, <4>1, <4>2 DEF One
    <3> QED
      BY <3>1, <3>2
  <2> QED
    BY <2>1, <2>2, <2>3, PaidLocally
<1> QED
  BY <1>1, <1>6, <1>7, <1>8, <1>9 DEF SchedInv

\* It stores the schedule as fired.
LEMMA TickSavesInv ==
  ASSUME SchedInv, TickSaves
  PROVE  SchedInv'
<1>1. /\ SessionTypeOK' /\ SessionInv' /\ IsFiniteSet(live)'
      /\ UNCHANGED <<mix, row, proc, live, client, req>>
  BY SessionsStay DEF TickSaves
<1>2. /\ TypeOK /\ Marking /\ Loaded /\ tick \in TickRec /\ tick.step = "save"
      /\ bound \subseteq trig
  BY DEF SchedInv, TypeOK, TickRec, TickSaves
<1>3. /\ tick.on \in Sessions /\ tick.of \in Scheds /\ tick.copy \in Config
      /\ tick.of \in trig \ bound /\ tick.copy[tick.of] = "spent" /\ proc = "up"
  BY <1>2, NoConfigFacts DEF Marking, Loaded, TickRec
<1> PICK s \in Sessions, y \in Scheds, c \in Config :
      s = tick.on /\ y = tick.of /\ c = tick.copy
  BY <1>3
<1>4. PICK o \in Outcome :
        /\ Store(s, c, o) /\ muddled' = (muddled \/ o # "ok")
        /\ \/ o = "ok" /\ tick' = [tick EXCEPT !.step = "dial"] /\ trig' = trig
           \/ o # "ok" /\ tick' = NoTick /\ trig' = trig \ {y}
  BY DEF TickSaves
<1>5. UNCHANGED <<sessionVars, cfg, count, edit, bound, ringing, edits>> /\ muddled' \in BOOLEAN
  BY <1>4 DEF TickSaves
<1>6. /\ saved' \in [Sessions -> Config] /\ credit' \in [Scheds -> Int]
      /\ \A t \in Sessions \ {s} : saved'[t] = saved[t]
      /\ \/ (o # "ok" \/ row[s] = None) /\ saved' = saved /\ credit' = credit
         \/ /\ o = "ok" /\ row[s] # None /\ saved'[s] = c
            /\ \A x \in Scheds :
                 /\ credit'[x] >= credit[x]
                 /\ c[x] = "active" => \/ saved[s][x] = "active" \/ cfg[s][x] = "active"
                                       \/ credit'[x] > credit[x]
  BY <1>2, <1>4, StoreFacts
<1>7. /\ tick' \in TickRec
      /\ \/ o = "ok" /\ tick'.step = "dial" /\ tick'.on = s /\ tick'.of = y /\ trig' = trig
         \/ o # "ok" /\ tick' = NoTick /\ trig' = trig \ {y}
  <2>1. tick' = [tick EXCEPT !.step = "dial"] =>
          tick' \in TickRec /\ tick'.step = "dial" /\ tick'.on = s /\ tick'.of = y
    BY <1>2 DEF TickRec
  <2> QED
    BY <1>4, <2>1, NoConfigFacts
<1>8. TypeOK'
  <2>1. bound' \subseteq trig' /\ trig' \subseteq Scheds
    BY <1>2, <1>3, <1>5, <1>7 DEF TypeOK
  <2> QED
    BY <1>1, <1>2, <1>5, <1>6, <1>7, <2>1 DEF TypeOK, TickRec
<1>9. Marking'
  BY <1>2, <1>3, <1>5, <1>7, NoConfigFacts DEF Marking
<1>10. Loaded'
  BY <1>3, <1>5, <1>6, <1>7, NoConfigFacts, TickKeeps
<1>11. ASSUME NEW x \in Scheds PROVE Paid(x)'
  <2>1. credit[x] \in Int /\ credit'[x] \in Int /\ Paid(x)
    BY <1>2, <1>6 DEF TypeOK, SchedInv
  <2>2. \A t \in Sessions \ {s} : Kept(t, x)' => Kept(t, x)
    BY <1>5, <1>6 DEF Kept
  <2>3. One(Kept(s, x)') + One(Due(x)') - credit'[x] <= One(Kept(s, x)) + One(Due(x)) - credit[x]
    <3>1. CASE o # "ok"
      <4>1. ~Due(x)' /\ (Kept(s, x)' <=> Kept(s, x)) /\ credit' = credit
        BY <1>5, <1>6, <1>7, <3>1, NoConfigFacts DEF Due, Kept
      <4> QED
        BY <2>1, <4>1 DEF One
    <3>2. CASE o = "ok" /\ x # y
      <4>1. ~Due(x) /\ ~Due(x)'
        BY <1>7, <3>2 DEF Due
      <4>2. /\ Kept(s, x)' => Kept(s, x) \/ credit'[x] > credit[x]
            /\ credit'[x] >= credit[x]
        BY <1>5, <1>6, <2>1 DEF Kept
      <4> QED
        BY <2>1, <4>1, <4>2 DEF One
    <3>3. CASE o = "ok" /\ x = y
      <4>0. saved'[s][y] # "active"
        <5>1. CASE row[s] = None
          <6>1. saved[s] = NoConfig
            BY <1>2, <5>1 DEF Loaded
          <6> QED
            BY <1>6, <5>1, <6>1, NoConfigFacts
        <5>2. CASE row[s] # None
          BY <1>3, <1>6, <3>3, <5>2
        <5> QED
          BY <5>1, <5>2
      <4>1. /\ Due(x)' /\ (Kept(s, x)' <=> cfg[s][x] = "active")
            /\ (Due(x) <=> cfg[s][x] = "active" \/ saved[s][x] # "active")
            /\ (Kept(s, x) <=> cfg[s][x] = "active" \/ saved[s][x] = "active")
        BY <1>2, <1>5, <1>7, <3>3, <4>0 DEF Due, Kept
      <4>2. credit'[x] >= credit[x]
        BY <1>6, <2>1
      <4> QED
        BY <2>1, <4>1, <4>2 DEF One
    <3> QED
      BY <3>1, <3>2, <3>3
  <2> QED
    BY <2>1, <2>2, <2>3, PaidLocally
<1> QED
  BY <1>1, <1>8, <1>9, <1>10, <1>11 DEF SchedInv

\* It dials, or gives up.
LEMMA TickDialsInv ==
  ASSUME SchedInv, TickDials
  PROVE  SchedInv'
<1>0. /\ tick.step = "dial"
      /\ \/ /\ ringing' = ringing \cup {<<tick.on, tick.of>>}
            /\ credit' = [credit EXCEPT ![tick.of] = @ - 1]
            /\ tick' = [tick EXCEPT !.step = "bind"] /\ trig' = trig
         \/ /\ trig' = trig \ {tick.of} /\ tick' = NoTick
            /\ UNCHANGED <<ringing, credit>>
      /\ UNCHANGED <<sessionVars, cfg, saved, count, edit, bound, edits, muddled>>
  BY DEF TickDials
<1>1. /\ SessionTypeOK' /\ SessionInv' /\ IsFiniteSet(live)'
      /\ UNCHANGED <<mix, row, proc, live, client, req>>
  BY <1>0, SessionsStay
<1>2. /\ TypeOK /\ Marking /\ Loaded /\ tick \in TickRec
      /\ credit \in [Scheds -> Int] /\ bound \subseteq trig
  BY DEF SchedInv, TypeOK, TickRec
<1>3. tick.on \in Sessions /\ tick.of \in Scheds /\ tick.of \in trig \ bound /\ proc = "up"
  BY <1>0, <1>2, NoConfigFacts DEF Marking, Loaded
<1> PICK s \in Sessions, y \in Scheds : s = tick.on /\ y = tick.of
  BY <1>3
<1>4. /\ tick' \in TickRec /\ ~(tick'.step \in {"mark", "save", "dial"})
      /\ \/ tick' = NoTick /\ trig' = trig \ {y} /\ credit' = credit
         \/ /\ tick'.step = "bind" /\ tick'.on = s /\ tick'.of = y /\ trig' = trig
            /\ credit' = [credit EXCEPT ![y] = @ - 1]
  <2>1. CASE tick' = NoTick /\ trig' = trig \ {y} /\ credit' = credit
    BY <2>1, NoConfigFacts
  <2>2. CASE /\ tick' = [tick EXCEPT !.step = "bind"] /\ trig' = trig
             /\ credit' = [credit EXCEPT ![y] = @ - 1]
    BY <1>2, <2>2 DEF TickRec
  <2> QED
    BY <1>0, <2>1, <2>2
<1>5. TypeOK'
  <2>0. trig \subseteq Scheds /\ ringing \subseteq Sessions \X Scheds
    BY <1>2 DEF TypeOK
  <2>1. bound' \subseteq trig' /\ trig' \subseteq Scheds /\ ringing' \subseteq Sessions \X Scheds
    BY <1>0, <1>2, <1>3, <1>4, <2>0
  <2>2. credit' \in [Scheds -> Int]
    BY <1>2, <1>4
  <2> QED
    BY <1>0, <1>1, <1>2, <1>4, <2>1, <2>2 DEF TypeOK, TickRec
<1>6. Marking'
  BY <1>0, <1>2, <1>3, <1>4, NoConfigFacts DEF Marking
<1>7. Loaded'
  BY <1>0, <1>3, <1>4, NoConfigFacts, TickKeeps
<1>8. ASSUME NEW x \in Scheds PROVE Paid(x)'
  <2>1. credit[x] \in Int /\ credit'[x] \in Int /\ Paid(x)
    BY <1>2, <1>4 DEF SchedInv
  <2>2. \A t \in Sessions : Kept(t, x)' <=> Kept(t, x)
    BY <1>0 DEF Kept
  <2>3. ~Due(x)' /\ (Due(x) <=> x = y) /\ (x # y => credit'[x] = credit[x])
        /\ credit'[x] >= credit[x] - 1
    BY <1>0, <1>2, <1>4 DEF Due
  <2>4. One(Kept(s, x)') + One(Due(x)') - credit'[x] <= One(Kept(s, x)) + One(Due(x)) - credit[x]
    BY <2>1, <2>2, <2>3 DEF One
  <2> QED
    BY <2>1, <2>2, <2>4, PaidLocally
<1> QED
  BY <1>1, <1>5, <1>6, <1>7, <1>8 DEF SchedInv

\* It binds the call to the schedule.
LEMMA TickBindsInv ==
  ASSUME SchedInv, TickBinds
  PROVE  SchedInv'
<1>0. /\ tick.step = "bind" /\ bound' = bound \cup {tick.of}
      /\ \/ tick.on \notin live /\ UNCHANGED <<cfg, credit>>
         \/ /\ tick.on \in live /\ cfg' = [cfg EXCEPT ![tick.on] = tick.copy]
            /\ credit' = Credited(Revived(tick.on, tick.copy))
      /\ tick' = [tick EXCEPT !.step = "save call"]
      /\ UNCHANGED <<sessionVars, saved, count, edit, trig, ringing, edits, muddled>>
  BY DEF TickBinds
<1>1. /\ SessionTypeOK' /\ SessionInv' /\ IsFiniteSet(live)'
      /\ UNCHANGED <<mix, row, proc, live, client, req>>
  BY <1>0, SessionsStay
<1>2. TypeOK /\ Marking /\ Loaded /\ tick \in TickRec /\ bound \subseteq trig
  BY DEF SchedInv, TypeOK, TickRec
<1>3. /\ tick.on \in Sessions /\ tick.of \in Scheds /\ tick.copy \in Config
      /\ tick.of \in trig /\ proc = "up"
  BY <1>0, <1>2, NoConfigFacts DEF Marking, Loaded, TickRec
<1> PICK s \in Sessions, c \in Config : s = tick.on /\ c = tick.copy
  BY <1>3
<1>4. /\ cfg' \in [Sessions -> Config] /\ credit' \in [Scheds -> Int]
      /\ \A t \in Sessions \ {s} : cfg'[t] = cfg[t]
      /\ s \notin live => cfg'[s] = cfg[s]
      /\ \A x \in Scheds :
           /\ credit'[x] >= credit[x]
           /\ cfg'[s][x] = "active" => cfg[s][x] = "active" \/ credit'[x] > credit[x]
  <2>0. credit \in [Scheds -> Int] /\ cfg \in [Sessions -> Config]
    BY <1>2 DEF TypeOK
  <2>1. CASE s \notin live /\ UNCHANGED <<cfg, credit>>
    BY <2>0, <2>1
  <2>2. CASE s \in live /\ cfg' = [cfg EXCEPT ![s] = c] /\ credit' = Credited(Revived(s, c))
    BY <1>2, <2>2, SetFacts
  <2> QED
    BY <1>0, <2>1, <2>2
<1>5. tick' \in TickRec /\ tick'.step = "save call" /\ tick'.on = s /\ tick'.of = tick.of
  BY <1>0, <1>2 DEF TickRec
<1>6. TypeOK'
  <2>1. bound' \subseteq trig'
    BY <1>0, <1>2, <1>3
  <2> QED
    BY <1>0, <1>1, <1>2, <1>4, <1>5, <2>1 DEF TypeOK, TickRec
<1>7. Marking'
  BY <1>0, <1>2, <1>3, <1>5 DEF Marking
<1>8. Loaded'
  BY <1>0, <1>3, <1>4, <1>5, TickKeeps
<1>9. ASSUME NEW x \in Scheds PROVE Paid(x)'
  <2>1. /\ credit'[x] >= credit[x] /\ saved' = saved
        /\ cfg'[s][x] = "active" => cfg[s][x] = "active" \/ credit'[x] > credit[x]
    BY <1>0, <1>4
  <2>2. ~Due(x) /\ ~Due(x)'
    BY <1>0, <1>5 DEF Due
  <2>3. Paid(x) /\ \A t \in Sessions \ {s} : cfg'[t] = cfg[t] /\ saved'[t] = saved[t]
    BY <1>0, <1>4 DEF SchedInv
  <2> QED
    BY <1>2, <1>3, <1>4, <2>1, <2>2, <2>3, WriteKeepsPaid
<1> QED
  BY <1>1, <1>6, <1>7, <1>8, <1>9 DEF SchedInv

\* It stores the call's id.
LEMMA TickSavesCallInv ==
  ASSUME SchedInv, TickSavesCall
  PROVE  SchedInv'
<1>0. /\ tick.step = "save call" /\ tick' = NoTick
      /\ UNCHANGED <<sessionVars, cfg, count, edit, trig, bound, ringing, edits, muddled>>
  BY DEF TickSavesCall
<1>1. /\ SessionTypeOK' /\ SessionInv' /\ IsFiniteSet(live)'
      /\ UNCHANGED <<mix, row, proc, live, client, req>>
  BY <1>0, SessionsStay
<1>2. TypeOK /\ Marking /\ Loaded /\ tick \in TickRec
  BY DEF SchedInv, TypeOK, TickRec
<1>3. tick.on \in Sessions /\ tick.copy \in Config /\ proc = "up"
  BY <1>0, <1>2, NoConfigFacts DEF Marking, Loaded, TickRec
<1> PICK s \in Sessions, c \in Config : s = tick.on /\ c = tick.copy
  BY <1>3
<1>4. PICK o \in Outcome : Store(s, c, o)
  BY DEF TickSavesCall
<1>5. /\ saved' \in [Sessions -> Config] /\ credit' \in [Scheds -> Int]
      /\ \A t \in Sessions \ {s} : saved'[t] = saved[t]
      /\ \/ saved' = saved /\ credit' = credit
         \/ /\ row[s] # None /\ saved'[s] = c
            /\ \A x \in Scheds :
                 /\ credit'[x] >= credit[x]
                 /\ c[x] = "active" => \/ saved[s][x] = "active" \/ cfg[s][x] = "active"
                                       \/ credit'[x] > credit[x]
  BY <1>2, <1>4, StoreFacts
<1>6. TypeOK'
  BY <1>0, <1>1, <1>2, <1>5, NoConfigFacts DEF TypeOK, TickRec
<1>7. Marking'
  BY <1>0, <1>2, NoConfigFacts DEF Marking
<1>8. Loaded'
  BY <1>0, <1>3, <1>5, NoConfigFacts, TickKeeps
<1>9. ASSUME NEW x \in Scheds PROVE Paid(x)'
  <2>1. credit \in [Scheds -> Int]
    BY <1>2 DEF TypeOK
  <2>2. /\ credit'[x] >= credit[x] /\ cfg' = cfg
        /\ saved'[s][x] = "active" => \/ saved[s][x] = "active" \/ cfg[s][x] = "active"
                                      \/ credit'[x] > credit[x]
    <3>1. CASE saved' = saved /\ credit' = credit
      <4>1. credit'[x] = credit[x] /\ credit[x] \in Int
        BY <2>1, <3>1
      <4>2. credit'[x] >= credit[x]
        BY <4>1
      <4> QED
        BY <1>0, <3>1, <4>2
    <3> QED
      BY <1>0, <1>5, <3>1
  <2>3. ~Due(x) /\ ~Due(x)'
    BY <1>0, NoConfigFacts DEF Due
  <2>4. Paid(x) /\ \A t \in Sessions \ {s} : cfg'[t] = cfg[t] /\ saved'[t] = saved[t]
    BY <1>0, <1>5 DEF SchedInv
  <2> QED
    BY <1>2, <1>3, <1>5, <2>2, <2>3, <2>4, WriteKeepsPaid
<1> QED
  BY <1>1, <1>6, <1>7, <1>8, <1>9 DEF SchedInv

-------------------------------------------------------------------------------
(* A step of SessionManager takes schedules away, or loads them again from the row. *)

\* A step of the sessions, of which the scheduler sees the deletion and the exit.
LEMMA SessionStepInv ==
  ASSUME SchedInv, SessionStep
  PROVE  SchedInv'
<1>0. /\ SessionNext /\ \A s \in Sessions : row[s] = None /\ row'[s] # None => s \notin Held
      /\ saved' = [s \in Sessions |-> IF row'[s] = None THEN NoConfig ELSE saved[s]]
      /\ cfg' = [s \in Sessions |-> IF s \notin live' THEN NoConfig
                                    ELSE IF s \in live THEN cfg[s] ELSE saved[s]]
      /\ UNCHANGED <<credit, edits, muddled>>
  BY DEF SessionStep
<1>1. \/ /\ proc' = "down" /\ edit' = [e \in Editors |-> NoCopy] /\ tick' = NoTick
         /\ trig' = {} /\ bound' = {} /\ ringing' = {} /\ count' = 0
      \/ /\ proc' # "down" /\ UNCHANGED <<edit, tick, trig, bound, ringing>>
         /\ count' \in {count, Total}
  BY DEF SessionStep
<1>2. TypeOK /\ SessionInv /\ Marking /\ Loaded /\ Total \in Nat /\ IsFiniteSet(live)
  BY TotalIsNat DEF SchedInv
<1>3. SessionInv' /\ SessionTypeOK'
  BY <1>0, <1>2, SessionInvStep DEF SessionInv
<1>4. /\ \A s \in live' \ live : proc # "up" \/ \E w \in Workers : Creating(req[w]) /\ req[w].on = s
      /\ \E s \in Sessions : live' \subseteq live \cup {s}
      /\ proc' # "up" => proc' = "down" \/ proc # "up"
      /\ \A w \in Workers : Creating(req'[w]) =>
           \/ Creating(req[w]) /\ req[w].on = req'[w].on
           \/ row[req'[w].on] = None /\ row'[req'[w].on] # None
  BY <1>0, <1>2, SessionMoves
<1>5. IsFiniteSet(live)'
  <2>1. PICK s \in Sessions : live' \subseteq live \cup {s}
    BY <1>4
  <2>2. IsFiniteSet(live \cup {s})
    BY <1>2, FS_AddElement
  <2> QED
    BY <2>1, <2>2, FS_Subset
<1>6. TypeOK'
  <2>1. /\ cfg \in [Sessions -> Config] /\ saved \in [Sessions -> Config] /\ count \in Int
        /\ edit \in [Editors -> EditRec] /\ tick \in TickRec
    BY <1>2 DEF TypeOK, EditRec, TickRec
  <2>2. cfg' \in [Sessions -> Config] /\ saved' \in [Sessions -> Config]
    BY <1>0, <2>1, NoConfigFacts
  <2>3. edit' \in [Editors -> EditRec] /\ tick' \in TickRec /\ count' \in Int
    BY <1>1, <1>2, <2>1, NoConfigFacts
  <2>4. trig' \subseteq Scheds /\ bound' \subseteq trig' /\ ringing' \subseteq Sessions \X Scheds
    BY <1>1, <1>2 DEF TypeOK
  <2> QED
    BY <1>0, <1>2, <1>3, <2>2, <2>3, <2>4 DEF TypeOK, EditRec, TickRec
<1>7. Marking'
  BY <1>1, <1>2, NoConfigFacts DEF Marking
<1>8. Loaded'
  <2>1. \A s \in Sessions : /\ row'[s] = None => saved'[s] = NoConfig
                            /\ s \notin live' => cfg'[s] = NoConfig
    BY <1>0
  <2>2. Held' \subseteq Held \cup {Nobody}
    BY <1>1, NoConfigFacts DEF Held
  <2>3. ASSUME NEW w \in Workers, Creating(req'[w]) PROVE req'[w].on \notin Held'
    <3>1. req'[w].on \in Sessions
      BY <1>3, <2>3 DEF SessionInv, Phases, Formed, Creating
    <3>2. req'[w].on \notin Held
      BY <1>0, <1>2, <1>4, <2>3, <3>1 DEF Loaded
    <3> QED
      BY <2>2, <3>1, <3>2, SessionAssumption
  <2>4. proc' # "up" => tick' = NoTick /\ edit' = [e \in Editors |-> NoCopy]
    BY <1>1, <1>2, <1>4 DEF Loaded
  <2> QED
    BY <2>1, <2>3, <2>4 DEF Loaded
<1>9. ASSUME NEW x \in Scheds PROVE Paid(x)'
  <2>1. /\ Paid(x) /\ credit[x] \in Int /\ credit'[x] = credit[x]
    BY <1>0 DEF SchedInv, TypeOK
  <2>2. ASSUME NEW t \in Sessions, Kept(t, x)' PROVE Kept(t, x)
    BY <1>0, <2>2, NoConfigFacts DEF Kept
  <2>3. CASE tick'.step = "idle"
    <3>1. ~Due(x)'
      BY <2>3 DEF Due
    <3>2. PICK s \in Sessions : TRUE
      BY SessionAssumption
    <3>3. One(Kept(s, x)') + One(Due(x)') - credit'[x] <= One(Kept(s, x)) + One(Due(x)) - credit[x]
      BY <2>1, <2>2, <3>1 DEF One
    <3> QED
      BY <2>1, <2>2, <3>3, PaidLocally
  <2>4. CASE tick'.step # "idle"
    <3>1. tick' = tick /\ tick.on \in Sessions /\ proc = "up"
      BY <1>1, <1>2, <2>4, NoConfigFacts DEF Marking, Loaded
    <3> PICK s \in Sessions : s = tick.on
      BY <3>1
    <3>2. s \in live' => s \in live
      BY <1>2, <1>4, <3>1 DEF Loaded, Held
    <3>3. cfg'[s][x] = "active" => cfg[s][x] = "active"
      BY <1>0, <3>2, NoConfigFacts
    <3>4. One(Kept(s, x)') + One(Due(x)') - credit'[x] <= One(Kept(s, x)) + One(Due(x)) - credit[x]
      <4>1. CASE tick.of = x /\ tick.step = "mark"
        <5>1. (Due(x) <=> ~Kept(s, x)) /\ (Due(x)' <=> ~Kept(s, x)')
          BY <3>1, <4>1 DEF Due, Kept
        <5> QED
          BY <2>1, <5>1 DEF One
      <4>2. CASE tick.of = x /\ tick.step = "save"
        <5>1. /\ Due(x) <=> cfg[s][x] = "active" \/ saved[s][x] # "active"
              /\ Due(x)' <=> cfg'[s][x] = "active" \/ saved'[s][x] # "active"
          BY <3>1, <4>2 DEF Due
        <5> QED
          BY <2>1, <3>3, <5>1 DEF One, Kept
      <4>3. CASE tick.of # x \/ ~(tick.step \in {"mark", "save"})
        <5>1. Due(x)' <=> Due(x)
          BY <3>1, <4>3 DEF Due
        <5> QED
          BY <2>1, <2>2, <5>1 DEF One
      <4> QED
        BY <4>1, <4>2, <4>3
    <3> QED
      BY <2>1, <2>2, <3>4, PaidLocally
  <2> QED
    BY <2>3, <2>4
<1> QED
  BY <1>3, <1>5, <1>6, <1>7, <1>8, <1>9 DEF SchedInv

-------------------------------------------------------------------------------
\* Nothing is scheduled yet.
LEMMA SchedInvInit ==
  ASSUME Init PROVE SchedInv
<1>1. SessionInv /\ SessionTypeOK
  BY SessionInvInit DEF Init, SessionInv
<1>2. /\ live = {} /\ proc = "up" /\ req = [w \in Workers |-> Idle] /\ IsFiniteSet(live)
  BY FS_EmptySet DEF Init, SessionInit
<1>3. /\ cfg = [s \in Sessions |-> NoConfig] /\ saved = cfg /\ count = 0
      /\ edit = [e \in Editors |-> NoCopy] /\ tick = NoTick /\ trig = {} /\ bound = {}
      /\ ringing = {} /\ credit = [x \in Scheds |-> 0] /\ edits = 0 /\ muddled = FALSE
  BY DEF Init
<1>4. TypeOK
  <2>1. edits \in 0..MaxEdits /\ count \in Int /\ credit \in [Scheds -> Int]
    BY <1>3, SchedAssumption
  <2>2. cfg \in [Sessions -> Config] /\ saved \in [Sessions -> Config]
    BY <1>3, NoConfigFacts
  <2>3. edit \in [Editors -> EditRec] /\ tick \in TickRec
    BY <1>3, NoConfigFacts
  <2> QED
    BY <1>1, <1>3, <2>1, <2>2, <2>3 DEF TypeOK, EditRec, TickRec
<1>5. Marking
  BY <1>3, NoConfigFacts DEF Marking
<1>6. Loaded
  BY <1>2, <1>3, IdleFacts DEF Loaded
<1>7. ASSUME NEW x \in Scheds PROVE Paid(x)
  <2>1. ~Due(x)
    BY <1>3, NoConfigFacts DEF Due
  <2>2. Keepers(x) = {}
    BY <1>3, NoConfigFacts DEF Keepers, Kept
  <2> QED
    BY <1>3, <2>1, <2>2, FS_EmptySet DEF Paid, One
<1> QED
  BY <1>1, <1>2, <1>4, <1>5, <1>6, <1>7 DEF SchedInv

\* One case per action of Next.
LEMMA SchedInvStep ==
  ASSUME SchedInv, [Next]_vars PROVE SchedInv'
<1>1. CASE SessionStep
  BY <1>1, SessionStepInv
<1>2. ASSUME NEW s \in Sessions,
             ToolCopies(s) \/ \E c \in [Scheds -> {"absent", "active"}] : PutConfig(s, c)
      PROVE  SchedInv'
  BY <1>2, PutConfigInv, ToolCopiesInv
<1>3. ASSUME NEW e \in Editors, Writing(e) PROVE SchedInv'
  BY <1>3, EditSavesInv, RecountInv, ToolAppendsInv DEF Writing
<1>4. CASE Ticker
  BY <1>4, TickReadsInv, TickMarksInv, TickSavesInv, TickDialsInv, TickBindsInv,
     TickSavesCallInv DEF Ticker
<1>5. ASSUME NEW s \in Sessions, NEW x \in Scheds, CallEnds(s, x) PROVE SchedInv'
  BY <1>5, CallEndsInv
<1>6. CASE UNCHANGED vars
  <2>1. /\ SessionTypeOK' /\ SessionInv' /\ IsFiniteSet(live)'
        /\ UNCHANGED <<mix, row, proc, live, client, req>>
    BY <1>6, SessionsStay DEF vars
  <2>2. UNCHANGED <<cfg, saved, count, edit, tick, trig, bound, ringing, credit, edits, muddled>>
    BY <1>6 DEF vars, schedVars
  <2>3. TypeOK'
    BY <2>1, <2>2 DEF SchedInv, TypeOK
  <2>5. Marking' /\ Loaded'
    BY <2>1, <2>2 DEF SchedInv, Marking, Loaded, Held
  <2>4. ASSUME NEW x \in Scheds PROVE Paid(x)'
    BY <2>2 DEF SchedInv, Paid, Keepers, Kept, Due
  <2> QED
    BY <2>1, <2>3, <2>4, <2>5 DEF SchedInv
<1> QED
  BY <1>1, <1>2, <1>3, <1>4, <1>5, <1>6 DEF Next

\* The inductive invariant holds in every reachable state.
THEOREM SchedInvariant == Spec => []SchedInv
<1>1. Init => SchedInv
  BY SchedInvInit
<1>2. SchedInv /\ [Next]_vars => SchedInv'
  BY SchedInvStep
<1> QED
  BY <1>1, <1>2, PTL DEF Spec

\* Type correctness of the sessions and of the schedules.
THEOREM TypeCorrect == Spec => []TypeOK
<1>1. SchedInv => TypeOK
  BY DEF SchedInv
<1> QED
  BY <1>1, SchedInvariant, PTL

\* No restart, failed store, deletion or interrupted Create leaves a session's database behind
\* without a row, except where DROP DATABASE failed or the process exited between Create's two
\* clean-up steps.
THEOREM DatabasesHaveRows == Spec => []DatabaseHasRow
<1>1. SchedInv => DatabaseHasRow
  BY SessionInvFacts DEF SchedInv
<1> QED
  BY <1>1, SchedInvariant, PTL

\* A session shown as paired keeps its row, the jid in it and the device in its database through
\* every restart and every request in progress, unless a store failed or an older Logout wrote late.
THEOREM PairedSessionsSurvive == Spec => []PairedSurvives
<1>1. SchedInv => PairedSurvives
  BY SessionInvFacts DEF SchedInv
<1> QED
  BY <1>1, SchedInvariant, PTL

\* A schedule is dialled at most once each time somebody made it active, whatever the ticker, the
\* handlers, the agent's tool, failed writes and restarts do to the copies of the configuration.
THEOREM EachActivationDialsOnce == Spec => []DialledOnce
<1>1. ASSUME SchedInv, NEW x \in Scheds PROVE credit[x] >= 0
  <2>1. IsFiniteSet(Keepers(x)) /\ Cardinality(Keepers(x)) + One(Due(x)) <= credit[x]
    BY <1>1 DEF SchedInv, Paid
  <2>2. Cardinality(Keepers(x)) \in Nat /\ credit[x] \in Int
    BY <1>1, <2>1, FS_CardinalityType DEF SchedInv, TypeOK
  <2> QED
    BY <2>1, <2>2 DEF One
<1>2. SchedInv => DialledOnce
  BY <1>1 DEF DialledOnce
<1> QED
  BY <1>2, SchedInvariant, PTL
================================================================================

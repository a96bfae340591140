---------------------------- MODULE SessionManager ----------------------------
(***************************************************************************)
(* The WhatsApp sessions of cmd/server/sessionmanager.go: one row of the   *)
(* main database (sessionstore.go) and one database of its own (db.go) per *)
(* session, which no transaction joins, and the Session object with its    *)
(* whatsmeow client in memory.  Requests of concurrent handlers, pairing   *)
(* events and Restore go through them step by step; the process may exit   *)
(* between any two steps, and each call of a store may fail.               *)
(*                                                                         *)
(* Names, keys and the authentication state shown to the browser are data. *)
(***************************************************************************)
EXTENDS Naturals, FiniteSets

CONSTANTS Sessions,  \* session ids
          Devices,   \* device identities a phone can pair (a jid)
          NoDevice,  \* a nil Store.ID
          Workers,   \* goroutines of the HTTP server
          Limit,     \* connections the project's plan allows
          Mixes      \* sets of events; a behaviour is exposed to one of them

Events == {"create", "delete", "logout", "pair",  \* requests
           "unlink", "reconnect",                 \* the phone, the network
           "exit", "fail",                        \* the process, the stores
           "crowd",                               \* more than one session
           "plan", "tool", "phoneless"}           \* see AIScheduler

None == "none"      \* no row
Blank == "blank"    \* a row with an empty jid
Nobody == "nobody"  \* no session

ASSUME SessionAssumption ==
  /\ Sessions # {} /\ Nobody \notin Sessions
  /\ Devices \cap {NoDevice, None, Blank, "idle", "due"} = {}
  /\ Limit \in Nat \ {0}
  /\ Mixes \subseteq SUBSET Events

VARIABLES
  mix,      \* the events this behaviour is exposed to
  row,      \* main database: the session's jid
  db,       \* sessions that have a database of their own
  devices,  \* the devices stored in it
  proc,     \* the process
  todo,     \* rows Restore has yet to visit
  doomed,   \* the session Restore is dropping
  live,     \* m.sessions
  client,   \* Store.ID of each session's client
  link,     \* its connection: none, showing a QR code, or connected
  saver,    \* the goroutine that stores the jid after pairing or connecting
  req,      \* each worker's request: operation, session and step
  number,   \* history: the device a session is shown paired with
  excused,  \* history: sessions a store's failure or a late write cost their pairing
  leaked    \* history: databases a failure left behind

disk == <<row, db, devices>>
memory == <<proc, todo, doomed, live, client, link, saver, req>>
sessionVars == <<mix, disk, memory, number, excused, leaked>>

NoDrop == [on |-> Nobody, dropped |-> FALSE]
Idle == [op |-> "none", on |-> Nobody, step |-> "idle"]

Ops == {"none", "create", "delete", "logout", "pair"}
Steps == {"idle", "insert", "open", "undo row", "undo db", "unlink", "drop", "forget",
          "renew", "blank", "show"}

SessionTypeOK ==
  /\ mix \in Mixes
  /\ row \in [Sessions -> Devices \cup {None, Blank}]
  /\ db \subseteq Sessions
  /\ devices \in [Sessions -> SUBSET Devices]
  /\ \A s \in Sessions \ db : devices[s] = {}
  /\ proc \in {"down", "restoring", "up"}
  /\ todo \subseteq Sessions
  /\ doomed \in [on : Sessions \cup {Nobody}, dropped : BOOLEAN]
  /\ live \subseteq Sessions
  /\ client \in [Sessions -> Devices \cup {NoDevice}]
  /\ link \in [Sessions -> {"off", "qr", "on"}]
  /\ saver \in [Sessions -> {"idle", "due"} \cup Devices]
  /\ req \in [Workers -> [op : Ops, on : Sessions \cup {Nobody}, step : Steps]]
  /\ number \in [Sessions -> Devices \cup {NoDevice}]
  /\ excused \subseteq Sessions /\ leaked \subseteq Sessions

SessionInit ==
  /\ mix \in Mixes
  /\ row = [s \in Sessions |-> None] /\ db = {} /\ devices = [s \in Sessions |-> {}]
  /\ proc = "up" /\ todo = {} /\ doomed = NoDrop /\ live = {}
  /\ client = [s \in Sessions |-> NoDevice] /\ link = [s \in Sessions |-> "off"]
  /\ saver = [s \in Sessions |-> "idle"] /\ req = [w \in Workers |-> Idle]
  /\ number = [s \in Sessions |-> NoDevice] /\ excused = {} /\ leaked = {}

-------------------------------------------------------------------------------
\* A call of a store: it works, or it fails where failures are considered.
Outcome == IF "fail" \in mix THEN {"ok", "error"} ELSE {"ok"}

Goto(w, step) == req' = [req EXCEPT ![w].step = step]
Done(w) == req' = [req EXCEPT ![w] = Idle]
Serves(w, op, step) == req[w].op = op /\ req[w].step = step

\* dropSessionDB, DROP DATABASE IF EXISTS ... WITH (FORCE): what is left of the
\* session's database when it worked or failed.
Dropped(s, o) ==
  /\ db' = IF o = "ok" THEN db \ {s} ELSE db
  /\ devices' = IF o = "ok" THEN [devices EXCEPT ![s] = {}] ELSE devices
  /\ leaked' = IF o = "ok" THEN leaked \ {s} ELSE leaked \cup ({s} \cap db)

\* store.delete, whose error every caller ignores.
RowAfterDelete(s, o) == IF o = "ok" THEN [row EXCEPT ![s] = None] ELSE row

\* POST /api/sessions: the plan's limit is compared with the rows counted now.
CreateRequest(w) ==
  /\ "create" \in mix /\ proc = "up" /\ req[w] = Idle
  /\ Cardinality({s \in Sessions : row[s] # None}) < Limit
  /\ req' = [req EXCEPT ![w] = [op |-> "create", on |-> Nobody, step |-> "insert"]]
  /\ UNCHANGED <<mix, disk, proc, todo, doomed, live, client, link, saver, number,
                 excused, leaked>>

\* newSessionID is random: an id nobody uses.  (Without "crowd" the model has a
\* single id, used again when nothing is left of it.)
Pool == IF "crowd" \in mix THEN Sessions ELSE {CHOOSE s \in Sessions : TRUE}
FreshIds == {s \in Pool : /\ row[s] = None /\ s \notin db \cup live /\ saver[s] = "idle"
                          /\ \A w \in Workers : req[w].on # s}

\* Create: a fresh id gets its row.
Insert(w) ==
  /\ Serves(w, "create", "insert") /\ FreshIds # {}
  /\ \/ LET s == CHOOSE x \in FreshIds : TRUE
        IN
          /\ row' = [row EXCEPT ![s] = Blank]
          /\ req' = [req EXCEPT ![w] = [op |-> "create", on |-> s, step |-> "open"]]
     \/ /\ "error" \in Outcome
        /\ Done(w) /\ UNCHANGED row
  /\ UNCHANGED <<mix, db, devices, proc, todo, doomed, live, client, link, saver, number,
                 excused, leaked>>

\* openSessionContainer: ensureDatabase may have created the database when a
\* later step of it fails.  The session is registered and starts pairing, which
\* may fail: the caller gets an error for a session that stays.
OpenStore(w) ==
  /\ Serves(w, "create", "open")
  /\ LET s == req[w].on
     IN  \/ /\ db' = db \cup {s} /\ live' = live \cup {s}
            /\ \E l \in {"qr"} \cup {x \in {"off"} : "fail" \in mix} : link' = [link EXCEPT ![s] = l]
            /\ Done(w)
         \/ /\ "error" \in Outcome
            /\ db' \in {db, db \cup {s}}
            /\ Goto(w, "undo row") /\ UNCHANGED <<live, link>>
  /\ UNCHANGED <<mix, row, devices, proc, todo, doomed, client, saver, number, excused,
                 leaked>>

\* The row is deleted first, then the database is dropped.
UndoCreate(w) ==
  /\ req[w].op = "create"
  /\ \E o \in Outcome :
       \/ /\ req[w].step = "undo row" /\ Goto(w, "undo db")
          /\ row' = RowAfterDelete(req[w].on, o)
          /\ UNCHANGED <<db, devices, leaked>>
       \/ /\ req[w].step = "undo db" /\ Done(w)
          /\ Dropped(req[w].on, o)
          /\ UNCHANGED row
  /\ UNCHANGED <<mix, proc, todo, doomed, live, client, link, saver, number, excused>>

-------------------------------------------------------------------------------
\* DELETE, logout and pair requests find a registered session.  Pair refuses a
\* paired one.
Request(w, op, s) ==
  /\ op \in mix /\ proc = "up" /\ req[w] = Idle /\ s \in live
  /\ op = "pair" => client[s] = NoDevice
  /\ req' = [req EXCEPT ![w] = [op |-> op, on |-> s,
                                step |-> IF op = "pair" THEN "renew" ELSE "unlink"]]
  /\ number' = IF op = "pair" THEN number ELSE [number EXCEPT ![s] = NoDevice]
  /\ UNCHANGED <<mix, disk, proc, todo, doomed, live, client, link, saver, excused, leaked>>

\* The client of s is disconnected and out of use: nobody is shown paired.
Disconnect(s) ==
  /\ client' = [client EXCEPT ![s] = NoDevice]
  /\ link' = [link EXCEPT ![s] = "off"]
  /\ number' = [number EXCEPT ![s] = NoDevice]

\* client.Logout, which deletes the stored device; an error is only logged.
Unlink(w) ==
  /\ req[w].step = "unlink"
  /\ Goto(w, IF req[w].op = "delete" THEN "drop" ELSE "renew")
  /\ LET s == req[w].on
     IN  \E o \in Outcome :
           IF client[s] # NoDevice /\ o = "ok"
           THEN /\ devices' = [devices EXCEPT ![s] = @ \ {client[s]}]
                /\ Disconnect(s)
           ELSE UNCHANGED <<devices, client, link, number>>
  /\ UNCHANGED <<mix, row, db, proc, todo, doomed, live, saver, excused, leaked>>

\* Mutant of DeleteSession: the row goes first.
DeleteSessionRowFirst(w) ==
  /\ req[w].op = "delete"
  /\ LET s == req[w].on
     IN  \E o \in Outcome :
           \/ /\ req[w].step = "drop" /\ Goto(w, "forget")
              /\ row' = RowAfterDelete(s, o)
              /\ Disconnect(s)
              /\ UNCHANGED <<db, devices, leaked, live>>
           \/ /\ req[w].step = "forget" /\ Done(w)
              /\ live' = live \ {s}
              /\ Dropped(s, o)
              /\ Disconnect(s)
              /\ UNCHANGED row
  /\ UNCHANGED <<mix, proc, todo, doomed, saver, excused>>

\* Delete: Disconnect, teardownAllCalls, the session's database is dropped;
\* then the session leaves the map and its row is deleted.
DeleteSession(w) ==
  /\ req[w].op = "delete"
  /\ LET s == req[w].on
     IN  \E o \in Outcome :
           \/ /\ req[w].step = "drop" /\ Goto(w, "forget")
              /\ Dropped(s, o)
              /\ link' = [link EXCEPT ![s] = "off"]
              /\ number' = [number EXCEPT ![s] = NoDevice]
              /\ UNCHANGED client
              /\ UNCHANGED <<row, live>>
           \/ /\ req[w].step = "forget" /\ Done(w)
              /\ live' = live \ {s}
              /\ row' = RowAfterDelete(s, o)
              /\ Disconnect(s)
              /\ UNCHANGED <<db, devices, leaked>>
  /\ UNCHANGED <<mix, proc, todo, doomed, saver, excused>>

\* replaceClient: the old client is disconnected and a new device takes its
\* place, even if the old one was paired since Pair looked.  A logout goes on
\* to clear the jid, Pair to show a QR code.
ReplaceClient(w) ==
  /\ req[w].step = "renew"
  /\ Goto(w, IF req[w].op = "pair" THEN "show" ELSE "blank")
  /\ Disconnect(req[w].on)
  /\ UNCHANGED <<mix, disk, proc, todo, doomed, live, saver, excused, leaked>>

\* The last step of Logout: setJID(""), its error ignored.  A session paired
\* again before it loses the jid of the new device.
ClearJID(w) ==
  /\ req[w].step = "blank" /\ Done(w)
  /\ LET s == req[w].on
     IN  /\ \E o \in Outcome :
              row' = IF o = "ok" /\ row[s] # None THEN [row EXCEPT ![s] = Blank] ELSE row
         /\ excused' = excused \cup {x \in {s} : number[s] # NoDevice}
  /\ UNCHANGED <<mix, db, devices, proc, todo, doomed, live, client, link, saver, number,
                 leaked>>

\* startPairing: GetQRChannel and Connect, which may fail.
ShowQR(w) ==
  /\ req[w].step = "show" /\ Done(w)
  /\ LET s == req[w].on
     IN  \/ link' = [link EXCEPT ![s] = IF s \in db /\ client[s] = NoDevice THEN "qr" ELSE @]
         \/ "fail" \in mix /\ UNCHANGED link
  /\ UNCHANGED <<mix, disk, proc, todo, doomed, live, client, saver, number, excused, leaked>>

-------------------------------------------------------------------------------
FreshDevices == {d \in Devices : \A s \in Sessions :
                   d \notin devices[s] \cup {row[s], client[s], number[s], saver[s]}}

\* The phone scans the code: whatsmeow stores the device and reports success.
Scanned(s) ==
  /\ link[s] = "qr" /\ s \in db
  /\ FreshDevices # {}
  /\ LET d == CHOOSE x \in FreshDevices : TRUE
     IN
       /\ devices' = [devices EXCEPT ![s] = @ \cup {d}]
       /\ client' = [client EXCEPT ![s] = d]
  /\ link' = [link EXCEPT ![s] = "on"]
  /\ saver' = [saver EXCEPT ![s] = "due"]
  /\ UNCHANGED <<mix, row, db, proc, todo, doomed, live, req, number, excused, leaked>>

\* A client with a device connects, or connects again: events.Connected.
Connected(s) ==
  /\ s \in live /\ client[s] # NoDevice /\ saver[s] = "idle" /\ s \in db
  /\ link[s] = "off" \/ "reconnect" \in mix
  /\ link' = [link EXCEPT ![s] = "on"]
  /\ saver' = [saver EXCEPT ![s] = "due"]
  /\ UNCHANGED <<mix, disk, proc, todo, doomed, live, client, req, number, excused, leaked>>

\* The handler of both: it reads Store.ID of the session's client ...
ReadID(s) ==
  /\ saver[s] = "due"
  /\ saver' = [saver EXCEPT ![s] = IF client[s] = NoDevice THEN "idle" ELSE client[s]]
  /\ UNCHANGED <<mix, disk, proc, todo, doomed, live, client, link, req, number, excused,
                 leaked>>

\* What the browser is shown, as far as it is true.
Shown(s, d) == IF client[s] = d /\ link[s] = "on" /\ s \in live THEN [number EXCEPT ![s] = d] ELSE number

\* Mutant of SaveJID: only the screen learns of the device.
SaveJIDNot(s) ==
  /\ saver[s] \in Devices
  /\ saver' = [saver EXCEPT ![s] = "idle"]
  /\ number' = Shown(s, saver[s])
  /\ UNCHANGED <<mix, disk, proc, todo, doomed, live, client, link, req, excused, leaked>>

\* ... and stores it with setJID, ignoring an error; the session is shown paired.
SaveJID(s) ==
  /\ saver[s] \in Devices
  /\ saver' = [saver EXCEPT ![s] = "idle"]
  /\ number' = Shown(s, saver[s])
  /\ \E o \in Outcome :
       /\ row' = IF o = "ok" /\ row[s] # None THEN [row EXCEPT ![s] = saver[s]] ELSE row
       /\ excused' = IF o = "ok" THEN excused ELSE excused \cup {s}
  /\ UNCHANGED <<mix, db, devices, proc, todo, doomed, live, client, link, req, leaked>>

\* The phone unlinks the device: whatsmeow deletes it, then LoggedOut.
LoggedOut(s) ==
  /\ "unlink" \in mix /\ link[s] = "on" /\ client[s] # NoDevice
  /\ devices' = [devices EXCEPT ![s] = @ \ {client[s]}]
  /\ Disconnect(s)
  /\ UNCHANGED <<mix, row, db, proc, todo, doomed, live, saver, req, excused, leaked>>

-------------------------------------------------------------------------------
\* The process exits: a crash, or the end of main, which closes and disconnects
\* everything and stores nothing.  A Create that had deleted its row leaves the
\* database.
Exit ==
  /\ "exit" \in mix /\ proc # "down"
  /\ proc' = "down" /\ todo' = {} /\ doomed' = NoDrop /\ live' = {}
  /\ client' = [s \in Sessions |-> NoDevice] /\ link' = [s \in Sessions |-> "off"]
  /\ saver' = [s \in Sessions |-> "idle"] /\ req' = [w \in Workers |-> Idle]
  /\ leaked' = leaked \cup {s \in db : \E w \in Workers : req[w] =
                                [op |-> "create", on |-> s, step |-> "undo db"]}
  /\ UNCHANGED <<mix, disk, number, excused>>

\* main: newServer and the start of Restore, which lists the rows.
Start ==
  /\ proc = "down"
  /\ proc' = "restoring" /\ todo' = {s \in Sessions : row[s] # None}
  /\ UNCHANGED <<mix, disk, doomed, live, client, link, saver, req, number, excused, leaked>>

Doom(s) == [on |-> s, dropped |-> FALSE]

\* Restore drops a session without a jid or without a stored device; a device
\* that could not be read counts as none.  A database that does not open leaves
\* the session out, one that is missing is made anew.
Restore(s) ==
  /\ doomed = NoDrop /\ s \in todo
  /\ todo' = todo \ {s}
  /\ \/ /\ row[s] = Blank
        /\ doomed' = Doom(s)
        /\ UNCHANGED <<db, live, client, link, excused>>
     \/ /\ row[s] # Blank /\ devices[s] = {}
        /\ db' = db \cup {s} /\ doomed' = Doom(s)
        /\ UNCHANGED <<live, client, link, excused>>
     \/ /\ row[s] # Blank /\ "error" \in Outcome
        /\ \/ db' \in {db, db \cup {s}} /\ UNCHANGED <<doomed, excused>>
           \/ db' = db \cup {s} /\ doomed' = Doom(s) /\ excused' = excused \cup {s}
        /\ UNCHANGED <<live, client, link>>
     \/ /\ row[s] # Blank
        /\ \E d \in devices[s] : client' = [client EXCEPT ![s] = d]
        /\ live' = live \cup {s}
        /\ UNCHANGED <<db, doomed, link, excused>>
  /\ UNCHANGED <<mix, row, devices, proc, saver, req, number, leaked>>

\* Restore's drop: the database, then the row.
DropRestored ==
  /\ doomed # NoDrop
  /\ \E o \in Outcome :
       IF doomed.dropped
       THEN /\ row' = RowAfterDelete(doomed.on, o)
            /\ doomed' = NoDrop
            /\ UNCHANGED <<db, devices, leaked>>
       ELSE /\ Dropped(doomed.on, o)
            /\ doomed' = [doomed EXCEPT !.dropped = TRUE]
            /\ UNCHANGED row
  /\ UNCHANGED <<mix, proc, todo, live, client, link, saver, req, number, excused>>

Restored ==
  /\ proc = "restoring" /\ todo = {} /\ doomed = NoDrop
  /\ proc' = "up"
  /\ UNCHANGED <<mix, disk, todo, doomed, live, client, link, saver, req, number, excused,
                 leaked>>

-------------------------------------------------------------------------------
SessionNext ==
  \/ \E w \in Workers :
       \/ CreateRequest(w) \/ Insert(w) \/ OpenStore(w) \/ UndoCreate(w)
       \/ \E op \in {"delete", "logout", "pair"}, s \in Sessions : Request(w, op, s)
       \/ Unlink(w) \/ DeleteSession(w) \/ ReplaceClient(w) \/ ClearJID(w) \/ ShowQR(w)
  \/ \E s \in Sessions : Scanned(s) \/ Connected(s) \/ ReadID(s) \/ SaveJID(s)
                         \/ LoggedOut(s) \/ Restore(s)
  \/ Exit \/ Start \/ DropRestored \/ Restored

\* Nothing but a failed drop, or an exit between Create's two clean-up steps,
\* leaves a session database without a row: no restart would ever find it.
DatabaseHasRow ==
  \A s \in db : \/ row[s] # None \/ s \in leaked
                \/ \E w \in Workers : req[w] = [op |-> "create", on |-> s, step |-> "undo db"]

\* A session shown paired, which nobody has deleted, logged out, paired anew or
\* unlinked since, keeps a row with a jid and the device through every restart
\* and every request in progress, unless a store failed or an older Logout's
\* last write came late.
PairedSurvives ==
  \A s \in Sessions : number[s] # NoDevice =>
    s \in excused \/ (row[s] \in Devices /\ number[s] \in devices[s])
===============================================================================

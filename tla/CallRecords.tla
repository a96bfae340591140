------------------------------ MODULE CallRecords ------------------------------
(***************************************************************************)
(* What the server keeps of the calls of one session: the active records   *)
(* and the history of Broker, in memory; the tables call_history,          *)
(* call_transcripts and call_ratings of sessionstore.go; the recording     *)
(* files.  The broker writes memory under its lock and hands every write   *)
(* of the database to a goroutine of its own (pgHistoryPersister), so they *)
(* reach it in any order, or not at all.                                   *)
(*                                                                         *)
(* A record is the set of its marks: opened as a ticket, summarised, with  *)
(* a recording.  Owner, peer, times and texts are data.                    *)
(***************************************************************************)
EXTENDS Naturals, Bags, SequencesExt

CONSTANTS Calls,      \* call ids of the session
          Sessions,   \* sessions messages arrive on
          Home,       \* the session the calls belong to
          MaxHistory, \* maxHistorySize, 500
          MaxHydrated, \* rows of a session that hydrateHistory reads back, 100
          Mixes       \* sets of events; a behaviour is exposed to one of them

Events == {"crowd", "start", "ticket", "summary", "delete", "script", "fail", "exit", "automate",
           "chat", "resolve"}

ASSUME RecordAssumption ==
  /\ Home \in Sessions /\ Mixes \subseteq SUBSET Events
  /\ MaxHistory \in Nat \ {0} /\ MaxHydrated \in 1..MaxHistory

Marks == {"ticket", "summary"}
Absent == {"absent"}   \* no record

VARIABLES
  mix,      \* the events this behaviour is exposed to
  phase,    \* each call: new, ringing, active or ended
  inserter, \* the start handler, which inserts a record of its own
  ender,    \* what is left to do by onEnded
  live,     \* Broker.calls
  history,  \* Broker.history
  jobs,     \* goroutines of pgHistoryPersister
  row,      \* call_history
  wav,      \* the recording file
  script,   \* the transcript: due, saved or over
  ratings,  \* rows of call_ratings, by session and call
  deleter,  \* the handler of DELETE /history/{callId}
  accepted, \* history: marks a request was told are saved
  lost,     \* history: marks a race, a failure or a call the broker does not know
            \* has cost the database
  busy      \* history: calls somebody was still writing about when deleted

memoryVars == <<inserter, ender, live, history, jobs, deleter>>
tables == <<row, wav, script, ratings>>
recordVars == <<mix, phase, memoryVars, tables, accepted, lost, busy>>

Jobs == [kind : {"call"}, call : Calls, marks : SUBSET Marks]
        \cup [kind : {"update"}, call : Calls, marks : {{m} : m \in Marks}]

RecordTypeOK ==
  /\ mix \in Mixes
  /\ phase \in [Calls -> {"new", "ringing", "active", "ended"}]
  /\ inserter \in [Calls -> {"idle", "due", "done"}]
  /\ ender \in [Calls -> {"none", "recording", "again", "automate", "done"}]
  /\ live \in [Calls -> (SUBSET Marks) \cup {Absent}]
  /\ history \in Seq([call : Calls, marks : SUBSET (Marks \cup {"recording"})])
  /\ Len(history) <= MaxHistory
  /\ IsABag(jobs) /\ BagToSet(jobs) \subseteq Jobs
  /\ row \in [Calls -> (SUBSET (Marks \cup {"recording"})) \cup {Absent}]
  /\ wav \in [Calls -> {"none", "file", "removed"}]
  /\ script \in [Calls -> {"none", "due", "saved", "over"}]
  /\ ratings \in [Sessions -> [Calls -> Nat]]
  /\ deleter \in [Calls -> {"none", "rows", "memory", "done", "failed"}]
  /\ accepted \in [Calls -> SUBSET Marks] /\ lost \in [Calls -> SUBSET Marks]
  /\ busy \subseteq Calls

RecordInit ==
  /\ mix \in Mixes
  /\ phase = [c \in Calls |-> "new"] /\ inserter = [c \in Calls |-> "idle"]
  /\ ender = [c \in Calls |-> "none"] /\ live = [c \in Calls |-> Absent]
  /\ history = <<>> /\ jobs = EmptyBag /\ row = [c \in Calls |-> Absent]
  /\ wav = [c \in Calls |-> "none"] /\ script = [c \in Calls |-> "none"]
  /\ ratings = [s \in Sessions |-> [c \in Calls |-> 0]]
  /\ deleter = [c \in Calls |-> "none"]
  /\ accepted = [c \in Calls |-> {}] /\ lost = [c \in Calls |-> {}] /\ busy = {}

-------------------------------------------------------------------------------
\* A write works, or it fails where failures are considered.
Outcome == IF "fail" \in mix THEN {"ok", "error"} ELSE {"ok"}

\* upsertCall with a record made anew: only the owner and the start time of the
\* record it replaces are kept.
Upsert(c) ==
  /\ live' = [live EXCEPT ![c] = {}]
  /\ lost' = [lost EXCEPT ![c] = @ \cup (live[c] \ Absent)]

\* wireCall opens the recorder; the first listener call inserts the record.
Ring(c) ==
  /\ phase[c] = "new" /\ phase' = [phase EXCEPT ![c] = "ringing"]
  /\ "crowd" \in mix \/ \A d \in Calls : phase[d] = "new"
  /\ Upsert(c)
  /\ \E o \in Outcome : wav' = IF o = "ok" THEN [wav EXCEPT ![c] = "file"] ELSE wav
  /\ \E i \in IF "start" \in mix THEN {"idle", "due"} ELSE {"idle"} :
       inserter' = [inserter EXCEPT ![c] = i]
  /\ UNCHANGED <<mix, ender, history, jobs, row, script, ratings, deleter, accepted, busy>>

\* The listener, for any later state that is not the end.
Connect(c) ==
  /\ phase[c] = "ringing" /\ phase' = [phase EXCEPT ![c] = "active"]
  /\ Upsert(c)
  /\ UNCHANGED <<mix, inserter, ender, history, jobs, tables, deleter, accepted, busy>>

\* doStartCall inserts its record when startOutgoing has returned.
StartInserts(c) ==
  /\ inserter[c] = "due" /\ inserter' = [inserter EXCEPT ![c] = "done"]
  /\ Upsert(c)
  /\ UNCHANGED <<mix, phase, ender, history, jobs, tables, deleter, accepted, busy>>

\* The history keeps the newest MaxHistory calls.
Trimmed(h) == IF Len(h) > MaxHistory THEN Tail(h) ELSE h

\* endCall: nothing when there is no record.
EndCall(c) ==
  IF live[c] = Absent THEN UNCHANGED <<live, history, jobs>>
  ELSE /\ live' = [live EXCEPT ![c] = Absent]
       /\ history' = Trimmed(Append(history, [call |-> c, marks |-> live[c]]))
       /\ jobs' = jobs (+) SetToBag({[kind |-> "call", call |-> c, marks |-> live[c]]})

\* The listener of the ended state.  RejectCall runs it but not onEnded; an
\* agent of an active call has a transcript to save.
End(c) ==
  /\ phase[c] \in {"ringing", "active"} /\ phase' = [phase EXCEPT ![c] = "ended"]
  /\ EndCall(c)
  /\ \E next \in IF phase[c] = "ringing" THEN {"recording", "done"} ELSE {"recording"} :
       ender' = [ender EXCEPT ![c] = next]
  /\ script' = IF "script" \in mix /\ phase[c] = "active"
               THEN [script EXCEPT ![c] = "due"] ELSE script
  /\ UNCHANGED <<mix, inserter, row, wav, ratings, deleter, accepted, lost, busy>>

\* onEnded: updateCallRecording, an UPDATE whose error is ignored; then endCall
\* once more.
StoreRecording(c) ==
  /\ ender[c] = "recording" /\ ender' = [ender EXCEPT ![c] = "again"]
  /\ \E o \in Outcome :
       row' = IF o = "ok" /\ wav[c] # "none" /\ row[c] # Absent
              THEN [row EXCEPT ![c] = @ \cup {"recording"}] ELSE row
  /\ UNCHANGED <<mix, phase, inserter, live, history, jobs, wav, script, ratings, deleter,
                 accepted, lost, busy>>
EndAgain(c) ==
  /\ ender[c] = "again" /\ ender' = [ender EXCEPT ![c] = "automate"]
  /\ EndCall(c)
  /\ UNCHANGED <<mix, phase, inserter, tables, deleter, accepted, lost, busy>>

\* doEndCall of a call that is over: its record may have been inserted late.
HangUpAgain(c) ==
  /\ phase[c] = "ended" /\ live[c] # Absent /\ EndCall(c)
  /\ UNCHANGED <<mix, phase, inserter, ender, tables, deleter, accepted, lost, busy>>

-------------------------------------------------------------------------------
LogsOf(c) == {i \in DOMAIN history : history[i].call = c}
InBroker(c) == live[c] # Absent \/ LogsOf(c) # {}

\* A mark of c in the active record and in row i of the history.
Marked(c, rows, m) ==
  /\ live' = IF live[c] = Absent THEN live ELSE [live EXCEPT ![c] = @ \cup {m}]
  /\ history' = [i \in DOMAIN history |->
                   IF i \in rows THEN [history[i] EXCEPT !.marks = @ \cup {m}] ELSE history[i]]
UpdateJob(c, m) == jobs' = jobs (+) SetToBag({[kind |-> "update", call |-> c, marks |-> {m}]})
Accepted(c, m) == accepted' = [accepted EXCEPT ![c] = @ \cup {m}]

\* openTicket: the active record and the newest row of the history, then the
\* database.  Of a call the broker does not know it marks and persists nothing.
OpenTicket(c) ==
  /\ Marked(c, {i \in LogsOf(c) : \A j \in LogsOf(c) : j <= i}, "ticket")
  /\ IF InBroker(c) THEN UpdateJob(c, "ticket") ELSE UNCHANGED jobs

\* handleOpenTicket and the agent's tool.  Neither asks whether the call was found:
\* "ticket saved" is the answer in any case.
HandleOpenTicket(c) ==
  /\ "ticket" \in mix /\ phase[c] # "new" /\ "ticket" \notin accepted[c]
  /\ OpenTicket(c) /\ Accepted(c, "ticket")
  /\ lost' = IF InBroker(c) THEN lost ELSE [lost EXCEPT ![c] = @ \cup {"ticket"}]
  /\ UNCHANGED <<mix, phase, inserter, ender, deleter, tables, busy>>

\* saveSummary, for executePostCallActions and for the summary handler: the active
\* record and the oldest row of the history; the database in any case.
SaveSummary(c) ==
  /\ "summary" \in mix /\ phase[c] # "new" /\ "summary" \notin accepted[c]
  /\ Marked(c, {i \in LogsOf(c) : \A j \in LogsOf(c) : i <= j}, "summary")
  /\ UpdateJob(c, "summary") /\ Accepted(c, "summary")
  /\ UNCHANGED <<mix, phase, inserter, ender, deleter, tables, lost, busy>>

\* A mark that the active record of c or a SaveCall on its way still carries.
Carried(c, m) ==
  \/ m \in live[c]
  \/ \E j \in BagToSet(jobs) : j.kind = "call" /\ j.call = c /\ m \in j.marks

\* The statement of one goroutine.  saveCallHistory inserts the row or, when there
\* is one, adds to it what the record has; the UPDATE of a mark finds no row to
\* change as long as the call has not been saved.
\* A plausible error: the INSERT's conflict clause takes every column of the new record.
SavedOver(old, marks) == marks
Saved(old, marks) == IF old = Absent THEN marks ELSE old \cup marks
JobRuns(j) ==
  /\ BagIn(j, jobs) /\ jobs' = jobs (-) SetToBag({j})
  /\ LET c == j.call IN
       /\ row' = [row EXCEPT ![c] = IF j.kind = "call" THEN Saved(@, j.marks)
                                    ELSE IF @ = Absent THEN @ ELSE @ \cup j.marks]
       /\ lost' = IF j.kind = "update" /\ row[c] = Absent
                  THEN [lost EXCEPT ![c] = @ \cup {m \in j.marks : ~Carried(c, m)}] ELSE lost
  /\ UNCHANGED <<mix, phase, inserter, ender, live, history, deleter, wav, script, ratings,
                 accepted, busy>>

\* Its error is logged and the goroutine ends.
JobFails(j) ==
  /\ "fail" \in mix /\ BagIn(j, jobs) /\ jobs' = jobs (-) SetToBag({j})
  /\ lost' = [lost EXCEPT ![j.call] = @ \cup j.marks]
  /\ UNCHANGED <<mix, phase, inserter, ender, live, history, deleter, tables, accepted, busy>>

\* executePostCallActions saves the transcript in a transaction of its own.
SaveTranscript(c) ==
  /\ script[c] = "due"
  /\ \E o \in Outcome : script' = [script EXCEPT ![c] = IF o = "ok" THEN "saved" ELSE "over"]
  /\ UNCHANGED <<mix, phase, memoryVars, row, wav, ratings, accepted, lost, busy>>

-------------------------------------------------------------------------------
\* Somebody is still going to write about c.
Unfinished(c) ==
  \/ phase[c] # "ended" \/ live[c] # Absent \/ inserter[c] = "due" \/ script[c] = "due"
  \/ ender[c] \notin {"none", "done"}
  \/ \E j \in BagToSet(jobs) : j.kind = "call" /\ j.call = c

\* handleDeleteHistoryCall removes the file, whose error is ignored, ...
DeleteFile(c) ==
  /\ "delete" \in mix /\ phase[c] # "new" /\ deleter[c] = "none"
  /\ deleter' = [deleter EXCEPT ![c] = "rows"]
  /\ \E o \in Outcome :
       wav' = IF wav[c] = "file" /\ o = "ok" THEN [wav EXCEPT ![c] = "removed"] ELSE wav
  /\ UNCHANGED <<mix, phase, inserter, ender, live, history, jobs, row, script, ratings, accepted,
                 lost, busy>>

\* ... then the rows, in one transaction whose error ends the request, ...
DeleteRows(c, writing) ==
  /\ deleter[c] = "rows"
  /\ \/ /\ deleter' = [deleter EXCEPT ![c] = "memory"]
        /\ row' = [row EXCEPT ![c] = Absent]
        /\ script' = IF script[c] = "saved" THEN [script EXCEPT ![c] = "none"] ELSE script
        /\ ratings' = [ratings EXCEPT ![Home][c] = 0]
        /\ busy' = IF Unfinished(c) \/ writing THEN busy \cup {c} ELSE busy
     \/ /\ "fail" \in mix /\ deleter' = [deleter EXCEPT ![c] = "failed"]
        /\ UNCHANGED <<row, script, ratings, busy>>
  /\ UNCHANGED <<mix, phase, inserter, ender, live, history, jobs, wav, accepted, lost>>

\* ... then the broker's copies (removeCall): the rest of the history keeps its order.
\* A plausible error: only the active record is removed.
RemoveLive(c) ==
  /\ deleter[c] = "memory" /\ deleter' = [deleter EXCEPT ![c] = "done"]
  /\ live' = [live EXCEPT ![c] = Absent]
  /\ UNCHANGED <<mix, phase, inserter, ender, jobs, tables, accepted, lost, busy, history>>
RemoveCall(c) ==
  /\ deleter[c] = "memory" /\ deleter' = [deleter EXCEPT ![c] = "done"]
  /\ live' = [live EXCEPT ![c] = Absent]
  /\ \E rows \in SetToSeqs(DOMAIN history \ LogsOf(c)) :
       /\ \A i, j \in DOMAIN rows : i < j => rows[i] < rows[j]
       /\ history' = [i \in DOMAIN rows |-> history[rows[i]]]
  /\ UNCHANGED <<mix, phase, inserter, ender, jobs, tables, accepted, lost, busy>>

\* The process dies and starts again: what memory and goroutines held is gone, and
\* hydrateHistory reads back the newest rows, unless the query fails.
Newest(h) == IF Len(h) > MaxHydrated THEN SubSeq(h, Len(h) - MaxHydrated + 1, Len(h)) ELSE h
Restart ==
  /\ "exit" \in mix
  /\ phase' = [c \in Calls |-> IF phase[c] = "new" THEN "new" ELSE "ended"]
  /\ inserter' = [c \in Calls |-> "idle"] /\ ender' = [c \in Calls |-> "none"]
  /\ live' = [c \in Calls |-> Absent] /\ jobs' = EmptyBag
  /\ script' = [c \in Calls |-> IF script[c] = "due" THEN "over" ELSE script[c]]
  /\ deleter' = [c \in Calls |-> IF deleter[c] = "rows" THEN "failed"
                                 ELSE IF deleter[c] = "memory" THEN "done" ELSE deleter[c]]
  /\ lost' = [c \in Calls |-> lost[c] \cup (accepted[c] \ row[c])]
  /\ \E o \in Outcome, order \in SetToSeqs({c \in Calls : row[c] # Absent}) :
       history' = IF o = "error" THEN <<>>
                  ELSE Newest([i \in DOMAIN order |-> [call |-> order[i], marks |-> row[order[i]]]])
  /\ UNCHANGED <<mix, row, wav, ratings, accepted, busy>>

\* "crowd": several calls; "start": requests place calls, beside the peer's.
RecordNext(writing(_)) ==
  \/ \E c \in Calls :
       \/ Ring(c) \/ Connect(c) \/ StartInserts(c) \/ End(c) \/ StoreRecording(c) \/ EndAgain(c)
       \/ HangUpAgain(c) \/ HandleOpenTicket(c) \/ SaveSummary(c) \/ SaveTranscript(c)
       \/ DeleteFile(c) \/ DeleteRows(c, writing(c)) \/ RemoveCall(c)
  \/ \E j \in BagToSet(jobs) : JobRuns(j) \/ JobFails(j)

-------------------------------------------------------------------------------
\* A call whose deletion was answered with success leaves nothing behind: no row, no
\* transcript, no rating of its session, no copy in memory and no recording, unless somebody
\* was still writing about it (busy) or the file could not be removed
\* (handleDeleteHistoryCall, httpapi.go; deleteCall, sessionstore.go; removeCall, broker.go).
DeletedStaysDeleted ==
  \A c \in Calls \ busy : deleter[c] = "done" =>
    /\ row[c] = Absent /\ script[c] # "saved" /\ ratings[Home][c] = 0
    /\ ~InBroker(c)
    /\ wav[c] = "file" => "fail" \in mix

\* A ticket or a summary the server said is saved is in the table once the
\* call is over and its writers are done, whatever order they ran in, unless a listener
\* replaced the record that carried it, its UPDATE came before the row, a write
\* failed, the process died, or the broker did not know the call a ticket was opened
\* for, which the answer does not tell (lost)
\* (handleOpenTicket, httpapi.go; openTicket, saveSummary, endCall, broker.go;
\* saveCallHistory, sessionstore.go).
MarksReachDatabase ==
  \A c \in Calls :
    /\ phase[c] = "ended" /\ live[c] = Absent /\ deleter[c] \in {"none", "failed"}
    /\ \A j \in BagToSet(jobs) : j.call # c
    => accepted[c] \ lost[c] \subseteq row[c]
===============================================================================

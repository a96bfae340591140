----------------------------- MODULE AIScheduler -----------------------------
(***************************************************************************)
(* The scheduled calls of cmd/server/ai_scheduler.go and aiconfig.go over  *)
(* SessionManager.  A session's schedules are part of one configuration    *)
(* document, kept in memory and in its row.  The ticker, the settings      *)
(* handlers and the schedule_call tool of an agent each take a copy of it, *)
(* change it and write it back, to memory first and to the row after;      *)
(* activeCount and the triggering set are kept beside it.                  *)
(*                                                                         *)
(* A schedule's position in the list stands for its id.  An active one is  *)
(* due: one that is not due yet is one the ticker has not come to.         *)
(***************************************************************************)
EXTENDS SessionManager, Integers

CONSTANTS Scheds,    \* schedules, in the order of the list
          MaxEdits   \* bound: configurations written by handlers and tools

ASSUME SchedAssumption == Scheds \subseteq Nat /\ IsFiniteSet(Scheds) /\ MaxEdits \in Nat

Entries == {"absent", "active", "spent"}
Config == [Scheds -> Entries]
NoConfig == [x \in Scheds |-> "absent"]
Editors == {"put", "tool"}
NoCopy == [step |-> "idle", on |-> Nobody, copy |-> NoConfig, total |-> 0]
NoTick == [step |-> "idle", on |-> Nobody, copy |-> NoConfig, of |-> 0]

VARIABLES
  cfg,      \* schedules of each session, in memory
  saved,    \* ... and in its row
  count,    \* activeCount
  edit,     \* the settings handler and the tool: step and copy
  tick,     \* the ticker's goroutine: step, copy and chosen schedule
  trig,     \* triggeringIds
  bound,    \* schedules in callToSched
  ringing,  \* schedules whose call is in a session's registry, by session
  credit,   \* history: times a schedule was made active and not dialled for it
  edits,    \* configurations written so far
  muddled   \* history: writers overlapped, or a write failed

schedVars == <<cfg, saved, count, edit, tick, trig, bound, ringing, credit, edits, muddled>>
vars == <<sessionVars, schedVars>>

TypeOK ==
  /\ SessionTypeOK
  /\ cfg \in [Sessions -> Config] /\ saved \in [Sessions -> Config]
  /\ count \in Int
  /\ edit \in [Editors -> [step : {"idle", "append", "save", "save empty", "count", "store"},
                           on : Sessions \cup {Nobody}, copy : Config, total : Nat]]
  /\ tick \in [step : {"idle", "mark", "save", "dial", "bind", "save call"},
               on : Sessions \cup {Nobody}, copy : Config, of : Scheds \cup {0}]
  /\ trig \subseteq Scheds /\ bound \subseteq trig
  /\ ringing \subseteq Sessions \X Scheds
  /\ credit \in [Scheds -> Int]
  /\ edits \in 0..MaxEdits /\ muddled \in BOOLEAN

Init ==
  /\ SessionInit
  /\ cfg = [s \in Sessions |-> NoConfig] /\ saved = cfg
  /\ count = 0 /\ edit = [e \in Editors |-> NoCopy] /\ tick = NoTick
  /\ trig = {} /\ bound = {} /\ ringing = {}
  /\ credit = [x \in Scheds |-> 0] /\ edits = 0 /\ muddled = FALSE

-------------------------------------------------------------------------------
Active(c) == {x \in Scheds : c[x] = "active"}

\* RecalculateActiveCount's loop over the sessions.
Total == Cardinality({p \in live \X Scheds : cfg[p[1]][p[2]] = "active"})

\* Schedules that a write of configuration c makes active: in memory; or in the
\* row when they are not active in memory, where a restart would find them.
Credited(xs) == [x \in Scheds |-> credit[x] + IF x \in xs THEN 1 ELSE 0]
Revived(s, c) == Active(c) \ Active(cfg[s])
SavedAlone(s, c) == (Active(c) \ Active(saved[s])) \ Active(cfg[s])

SetConfig(s, c) == cfg' = [cfg EXCEPT ![s] = c]

\* store.setAIConfig: a row that is gone is not written.
Store(s, c, o) ==
  /\ saved' = IF o = "ok" /\ row[s] # None THEN [saved EXCEPT ![s] = c] ELSE saved
  /\ credit' = IF o = "ok" /\ row[s] # None THEN Credited(SavedAlone(s, c)) ELSE credit

Busy(who) == \/ who # "tick" /\ tick.step # "idle"
             \/ \E e \in Editors \ {who} : edit[e].step # "idle"

\* Session objects somebody still holds; a new session is never one of them.
Held == {tick.on} \cup {edit[e].on : e \in Editors}

\* Everything the scheduler loses or reads anew when SessionManager takes a step:
\* rows leave with their configuration, Restore loads it, an exit forgets the
\* rest and the start counts the active schedules.
SessionStep ==
  /\ SessionNext
  /\ \A s \in Sessions : row[s] = None /\ row'[s] # None => s \notin Held
  /\ saved' = [s \in Sessions |-> IF row'[s] = None THEN NoConfig ELSE saved[s]]
  /\ cfg' = [s \in Sessions |-> IF s \notin live' THEN NoConfig
                                ELSE IF s \in live THEN cfg[s] ELSE saved[s]]
  /\ LET gone == proc' = "down"
     IN  /\ edit' = IF gone THEN [e \in Editors |-> NoCopy] ELSE edit
         /\ tick' = IF gone THEN NoTick ELSE tick
         /\ trig' = IF gone THEN {} ELSE trig
         /\ bound' = IF gone THEN {} ELSE bound
         /\ ringing' = IF gone THEN {} ELSE ringing
         /\ count' = CASE gone -> 0
                       [] proc = "restoring" /\ proc' = "up" -> Total
                       [] OTHER -> count
  /\ UNCHANGED <<credit, edits, muddled>>

-------------------------------------------------------------------------------
\* PUT ai-config with any schedules, DELETE ai-config with none: the handler
\* sets the configuration in memory.
PutConfig(s, c) ==
  /\ "plan" \in mix /\ s \in live /\ proc = "up"
  /\ edit["put"].step = "idle" /\ edits < MaxEdits
  /\ SetConfig(s, c)
  /\ \E step \in {"save"} \cup {x \in {"save empty"} : c = NoConfig} :
       edit' = [edit EXCEPT !["put"] = [step |-> step, on |-> s, copy |-> c, total |-> 0]]
  /\ credit' = Credited(Revived(s, c)) /\ edits' = edits + 1
  /\ muddled' = (muddled \/ Busy("put"))
  /\ UNCHANGED <<sessionVars, saved, count, tick, trig, bound, ringing>>

\* toolScheduleCall takes a copy ...
ToolCopies(s) ==
  /\ "tool" \in mix /\ s \in live /\ proc = "up"
  /\ edit["tool"].step = "idle" /\ edits < MaxEdits
  /\ edit' = [edit EXCEPT !["tool"] = [step |-> "append", on |-> s, copy |-> cfg[s],
                                       total |-> 0]]
  /\ edits' = edits + 1 /\ muddled' = (muddled \/ Busy("tool"))
  /\ UNCHANGED <<sessionVars, cfg, saved, count, tick, trig, bound, ringing, credit>>

\* ... and sets it with one more active schedule at its end.
ToolAppends ==
  /\ edit["tool"].step = "append"
  /\ LET s == edit["tool"].on
         c == edit["tool"].copy
         new == {x \in Scheds : \A y \in Scheds : y >= x => c[y] = "absent"}
     IN  IF new = {} THEN /\ edit' = [edit EXCEPT !["tool"] = NoCopy]
                          /\ UNCHANGED <<cfg, credit>>
         ELSE LET x == CHOOSE y \in new : \A z \in new : y <= z
                  d == [c EXCEPT ![x] = "active"]
              IN  /\ cfg' = IF s \in live THEN [cfg EXCEPT ![s] = d] ELSE cfg
                  /\ credit' = IF s \in live THEN Credited(Revived(s, d)) ELSE credit
                  /\ edit' = [edit EXCEPT !["tool"].step = "save", !["tool"].copy = d]
  /\ UNCHANGED <<sessionVars, saved, count, tick, trig, bound, ringing, edits, muddled>>

\* Mutant of EditSaves: nobody counts the schedules again.
EditSavesUncounted(e) ==
  /\ edit[e].step \in {"save", "save empty"}
  /\ \E o \in Outcome :
       /\ Store(edit[e].on, edit[e].copy, o)
       /\ muddled' = (muddled \/ o # "ok")
  /\ edit' = [edit EXCEPT ![e] = NoCopy]
  /\ UNCHANGED <<sessionVars, cfg, count, tick, trig, bound, ringing, edits>>

\* Both store what they set; after an error they answer and do not count.
EditSaves(e) ==
  /\ edit[e].step \in {"save", "save empty"}
  /\ \E o \in Outcome :
       /\ Store(edit[e].on, edit[e].copy, o)
       /\ edit' = IF o = "ok" /\ edit[e].step = "save" THEN [edit EXCEPT ![e].step = "count"]
                  ELSE [edit EXCEPT ![e] = NoCopy]
       /\ muddled' = (muddled \/ o # "ok")
  /\ UNCHANGED <<sessionVars, cfg, count, tick, trig, bound, ringing, edits>>

\* RecalculateActiveCount: it adds up, and stores the sum later.
Recount(e) ==
  /\ \/ /\ edit[e].step = "count"
        /\ edit' = [edit EXCEPT ![e].step = "store", ![e].total = Total]
        /\ UNCHANGED count
     \/ /\ edit[e].step = "store"
        /\ count' = edit[e].total
        /\ edit' = [edit EXCEPT ![e] = NoCopy]
  /\ UNCHANGED <<sessionVars, cfg, saved, tick, trig, bound, ringing, credit, edits, muddled>>

-------------------------------------------------------------------------------
\* checkSession, while activeCount is not zero and no call is in its registry:
\* the first active schedule of the list that is not being triggered.  One
\* without a phone number ends the check.
Candidates(s) == Active(cfg[s]) \ trig
FirstDue(s) == CHOOSE x \in Candidates(s) : \A y \in Candidates(s) : x <= y
Phoneless == {x \in Scheds : "phoneless" \in mix /\ \A y \in Scheds : x <= y}

TickReads(s) ==
  /\ tick.step = "idle" /\ proc = "up" /\ s \in live /\ count # 0
  /\ \A x \in Scheds : <<s, x>> \notin ringing
  /\ Candidates(s) # {} /\ FirstDue(s) \notin Phoneless
  /\ tick' = [step |-> "mark", on |-> s, copy |-> cfg[s], of |-> FirstDue(s)]
  /\ muddled' = (muddled \/ Busy("tick"))
  /\ UNCHANGED <<sessionVars, cfg, saved, count, edit, trig, bound, ringing, credit, edits>>

\* Mutant of TickMarks: the row is written with the call's id only.
TickMarksOnly ==
  /\ tick.step = "mark"
  /\ LET s == tick.on
         c == [tick.copy EXCEPT ![tick.of] = "spent"]
     IN  /\ cfg' = IF s \in live THEN [cfg EXCEPT ![s] = c] ELSE cfg
         /\ credit' = IF s \in live THEN Credited(Revived(s, c)) ELSE credit
         /\ tick' = [tick EXCEPT !.step = "dial", !.copy = c]
  /\ trig' = trig \cup {tick.of} /\ count' = count - 1
  /\ UNCHANGED <<sessionVars, saved, edit, bound, ringing, edits, muddled>>

\* It becomes inactive in the copy, which replaces the configuration in memory.
TickMarks ==
  /\ tick.step = "mark"
  /\ LET s == tick.on
         c == [tick.copy EXCEPT ![tick.of] = "spent"]
     IN  /\ cfg' = IF s \in live THEN [cfg EXCEPT ![s] = c] ELSE cfg
         /\ credit' = IF s \in live THEN Credited(Revived(s, c)) ELSE credit
         /\ tick' = [tick EXCEPT !.step = "save", !.copy = c]
  /\ trig' = trig \cup {tick.of} /\ count' = count - 1
  /\ UNCHANGED <<sessionVars, saved, edit, bound, ringing, edits, muddled>>

\* The row follows; after an error there is no call, and the mark is taken back.
TickSaves ==
  /\ tick.step = "save"
  /\ \E o \in Outcome :
       /\ Store(tick.on, tick.copy, o)
       /\ tick' = IF o = "ok" THEN [tick EXCEPT !.step = "dial"] ELSE NoTick
       /\ trig' = IF o = "ok" THEN trig ELSE trig \ {tick.of}
       /\ muddled' = (muddled \/ o # "ok")
  /\ UNCHANGED <<sessionVars, cfg, count, edit, bound, ringing, edits>>

\* An unpaired session makes no call, nor does one that startOutgoing refuses.
TickDials ==
  /\ tick.step = "dial"
  /\ \/ /\ client[tick.on] # NoDevice /\ tick.on \in live
        /\ ringing' = ringing \cup {<<tick.on, tick.of>>}
        /\ credit' = [credit EXCEPT ![tick.of] = @ - 1]
        /\ tick' = [tick EXCEPT !.step = "bind"]
        /\ UNCHANGED trig
     \/ /\ trig' = trig \ {tick.of} /\ tick' = NoTick
        /\ UNCHANGED <<ringing, credit>>
  /\ UNCHANGED <<sessionVars, cfg, saved, count, edit, bound, edits, muddled>>

\* callToSched, setOwner, and the copy once more, now with the call's id; it is
\* bound even if the call is over by now.
TickBinds ==
  /\ tick.step = "bind"
  /\ bound' = bound \cup {tick.of}
  /\ cfg' = IF tick.on \in live THEN [cfg EXCEPT ![tick.on] = tick.copy] ELSE cfg
  /\ credit' = IF tick.on \in live THEN Credited(Revived(tick.on, tick.copy)) ELSE credit
  /\ tick' = [tick EXCEPT !.step = "save call"]
  /\ UNCHANGED <<sessionVars, saved, count, edit, trig, ringing, edits, muddled>>

\* An error is logged; attachServerAI follows if the call is still there.
TickSavesCall ==
  /\ tick.step = "save call"
  /\ \E o \in Outcome : Store(tick.on, tick.copy, o)
  /\ tick' = NoTick
  /\ UNCHANGED <<sessionVars, cfg, count, edit, trig, bound, ringing, edits, muddled>>

\* The call ends: removeCall, then CleanupAgent, which knows it once bound.
CallEnds(s, x) ==
  /\ <<s, x>> \in ringing
  /\ ringing' = ringing \ {<<s, x>>} /\ bound' = bound \ {x}
  /\ trig' = IF x \in bound THEN trig \ {x} ELSE trig
  /\ UNCHANGED <<sessionVars, cfg, saved, count, edit, tick, credit, edits, muddled>>

-------------------------------------------------------------------------------
Ticker == \/ \E s \in Sessions : TickReads(s)
          \/ TickMarks \/ TickSaves \/ TickDials \/ TickBinds \/ TickSavesCall
Writing(e) == EditSaves(e) \/ Recount(e) \/ (e = "tool" /\ ToolAppends)

Next ==
  \/ SessionStep
  \/ \E s \in Sessions : \/ \E c \in [Scheds -> {"absent", "active"}] : PutConfig(s, c)
                         \/ ToolCopies(s)
  \/ \E e \in Editors : Writing(e)
  \/ Ticker
  \/ \E s \in Sessions, x \in Scheds : CallEnds(s, x)

Spec == Init /\ [][Next]_vars
FairSpec == /\ Spec /\ WF_vars(Ticker)
            /\ \A e \in Editors : WF_vars(Writing(e))
            /\ \A s \in Sessions, x \in Scheds : WF_vars(CallEnds(s, x))

-------------------------------------------------------------------------------
\* A schedule is dialled at most once each time somebody made it active: no
\* restart, failed write or overlap of the ticker with itself dials it again.
DialledOnce == \A x \in Scheds : credit[x] >= 0

\* Marked as triggering with nobody left to take the mark back: its call had
\* ended before it was bound.
Stuck == {x \in bound : \A s \in Sessions : <<s, x>> \notin ringing}

\* An active schedule of a running server is dialled, or inactive again, in the
\* end; it waits for ever only behind an earlier one without a phone number,
\* after a mark that stuck, or when writers of the configuration overlapped or
\* failed, for then activeCount may say that there is none.
DueScheduleFires ==
  \A s \in Sessions, x \in Scheds :
    (s \in live /\ cfg[s][x] = "active")
      ~> \/ s \notin live \/ cfg[s][x] # "active" \/ proc # "up"
         \/ x \in Stuck \/ muddled
         \/ \E y \in Phoneless : cfg[s][y] = "active"
===============================================================================

----------------------------- MODULE Conversations -----------------------------
(***************************************************************************)
(* What follows a call of one customer: the NPS survey (nps.go), the       *)
(* follow-up of a missed call (followup.go) and the customer's messages,   *)
(* which call off the follow-up, answer the survey and go on to Chatwoot   *)
(* (chatwoot.go).  Both engines keep one entry per phone, in memory, for   *)
(* all sessions; timers, surveys and pushes run in goroutines of their     *)
(* own, and so does each session's event handler.  Chatwoot is configured  *)
(* for Home only; its contacts and conversations are external.             *)
(***************************************************************************)
EXTENDS CallRecords

CONSTANTS Messages,  \* messages of the customer
          NoCall     \* no entry for the phone

ASSUME ConversationAssumption == NoCall \notin Calls

VARIABLES
  timer,         \* each call's follow-up
  pendingTimer,  \* FollowupEngine.pending
  survey,        \* the goroutine that asks for a rating
  pendingSurvey, \* NPSEngine.pending
  expired,       \* its 24 hours are over
  msg,           \* each message: its session, its step, the survey it answers
  contact,       \* Chatwoot has the contact
  open,          \* its open, pending or snoozed conversations in the inbox
  calledOff,     \* history: follow-ups a message or a newer missed call found waiting
  orphaned,      \* history: follow-ups whose entry an older one erased
  doubled,       \* history: surveys two messages held at once
  crossed,       \* history: two pushes both found no contact or no conversation
  troubled       \* history: a request to Chatwoot failed

engineVars == <<timer, pendingTimer, survey, pendingSurvey, expired, calledOff, orphaned>>
chatVars == <<msg, contact, open, doubled, crossed, troubled>>
conversationVars == <<engineVars, chatVars>>

Handling == {"lookup", "take", "rate"}
Pushing == {"find", "create", "list", "converse", "post"}

ConversationTypeOK ==
  /\ RecordTypeOK
  /\ timer \in [Calls -> {"none", "armed", "fired", "erased", "sent", "stopped", "over"}]
  /\ pendingTimer \in Calls \cup {NoCall}
  /\ survey \in [Calls -> {"none", "asleep", "asked", "over"}]
  /\ pendingSurvey \in Calls \cup {NoCall} /\ expired \in BOOLEAN
  /\ msg \in [Messages -> [at : Sessions, answers : Calls \cup {NoCall},
                           step : {"new", "over", "posted", "dropped"} \cup Handling \cup Pushing]]
  /\ contact \in BOOLEAN /\ open \in Nat
  /\ calledOff \subseteq Calls /\ orphaned \subseteq Calls /\ doubled \subseteq Calls
  /\ crossed \in BOOLEAN /\ troubled \in BOOLEAN

ConversationInit ==
  /\ RecordInit
  /\ timer = [c \in Calls |-> "none"] /\ pendingTimer = NoCall
  /\ survey = [c \in Calls |-> "none"] /\ pendingSurvey = NoCall /\ expired = FALSE
  /\ msg = [m \in Messages |-> [at |-> Home, answers |-> NoCall, step |-> "new"]]
  /\ contact \in (IF "chat" \in mix THEN BOOLEAN ELSE {FALSE}) /\ open = 0
  /\ calledOff = {} /\ orphaned = {} /\ doubled = {} /\ crossed = FALSE /\ troubled = FALSE

-------------------------------------------------------------------------------
\* Timers: Stop has no effect on one that has fired.
Stopped(S) == [c \in Calls |-> IF c \in S /\ timer[c] = "armed" THEN "stopped" ELSE timer[c]]
Waiting == {c \in Calls : timer[c] = "armed"}

\* ScheduleFollowup: stops the timer the phone has and takes its place.
ScheduleFollowup(c) ==
  /\ timer' = [Stopped({pendingTimer}) EXCEPT ![c] = "armed"]
  /\ pendingTimer' = c /\ calledOff' = calledOff \cup Waiting

\* The end of onEnded: by the duration since the call was made it is a survey or a
\* follow-up, if that one is configured (ScheduleNPS sleeps first).
Automate(c) ==
  /\ ender[c] = "automate" /\ ender' = [ender EXCEPT ![c] = "done"]
  /\ \/ "automate" \in mix /\ ScheduleFollowup(c) /\ UNCHANGED survey
     \/ /\ "automate" \in mix /\ survey' = [survey EXCEPT ![c] = "asleep"]
        /\ UNCHANGED <<timer, pendingTimer, calledOff>>
     \/ UNCHANGED <<timer, pendingTimer, calledOff, survey>>
  /\ UNCHANGED <<mix, phase, inserter, live, history, jobs, deleter, tables, accepted, lost, busy,
                 pendingSurvey, expired, orphaned, chatVars>>

\* The timer's function starts, erases the entry of the phone and sends, if the
\* session is paired.
TimerFires(c) ==
  /\ timer[c] = "armed" /\ timer' = [timer EXCEPT ![c] = "fired"]
  /\ UNCHANGED <<recordVars, pendingTimer, survey, pendingSurvey, expired, calledOff, orphaned,
                 chatVars>>
EraseEntry(c) ==
  /\ timer[c] = "fired" /\ timer' = [timer EXCEPT ![c] = "erased"]
  /\ pendingTimer' = NoCall
  /\ orphaned' = orphaned \cup ({pendingTimer} \ {c, NoCall})
  /\ UNCHANGED <<recordVars, survey, pendingSurvey, expired, calledOff, chatVars>>
SendFollowup(c) ==
  /\ timer[c] = "erased"
  /\ \E next \in {"sent", "over"} : timer' = [timer EXCEPT ![c] = next]
  /\ UNCHANGED <<recordVars, pendingTimer, survey, pendingSurvey, expired, calledOff, orphaned,
                 chatVars>>

\* CancelFollowup.  A plausible error: the entry goes and the timer runs on.
CancelForgets == timer' = timer /\ pendingTimer' = NoCall
CancelFollowup == timer' = Stopped({pendingTimer}) /\ pendingTimer' = NoCall

\* ScheduleNPS wakes and asks, if the session is paired; then it notes the survey as
\* the one the phone is to answer.
AskRating(c) ==
  /\ survey[c] = "asleep"
  /\ \E next \in {"asked", "over"} : survey' = [survey EXCEPT ![c] = next]
  /\ UNCHANGED <<recordVars, timer, pendingTimer, pendingSurvey, expired, calledOff, orphaned,
                 chatVars>>
NoteSurvey(c) ==
  /\ survey[c] = "asked" /\ survey' = [survey EXCEPT ![c] = "over"]
  /\ pendingSurvey' = c /\ expired' = FALSE
  /\ UNCHANGED <<recordVars, timer, pendingTimer, calledOff, orphaned, chatVars>>
SurveyExpires ==
  /\ pendingSurvey # NoCall /\ ~expired /\ expired' = TRUE
  /\ UNCHANGED <<recordVars, timer, pendingTimer, survey, pendingSurvey, calledOff, orphaned,
                 chatVars>>

-------------------------------------------------------------------------------
At(m, step) == msg[m].step = step
To(m, step) == msg' = [msg EXCEPT ![m].step = step]

\* Only Home pushes to Chatwoot.
AfterSurvey(s) == IF s = Home THEN "find" ELSE "over"

\* A message of the last hour.  A session handles one event at a time.  A vote in a
\* poll and a message without text do not reach the survey.
Arrives(m, s) ==
  /\ "chat" \in mix /\ At(m, "new")
  /\ \A o \in Messages : msg[o].at = s => msg[o].step \notin Handling
  /\ CancelFollowup /\ calledOff' = calledOff \cup Waiting
  /\ \E next \in {"lookup", "over", AfterSurvey(s)} :
       msg' = [msg EXCEPT ![m].at = s, ![m].step = next]
  /\ UNCHANGED <<recordVars, survey, pendingSurvey, expired, orphaned, contact, open, doubled,
                 crossed, troubled>>

\* HandleIncomingMessage reads the survey; an old one is erased; only a number from 0
\* to 10 is an answer.
LookUpSurvey(m) ==
  /\ At(m, "lookup")
  /\ pendingSurvey' = IF expired THEN NoCall ELSE pendingSurvey
  /\ expired' = FALSE
  /\ \/ /\ pendingSurvey # NoCall /\ ~expired
        /\ msg' = [msg EXCEPT ![m].step = "take", ![m].answers = pendingSurvey]
        /\ doubled' = doubled \cup
             {c \in {pendingSurvey} : \E o \in Messages : At(o, "take") /\ msg[o].answers = c}
     \/ To(m, AfterSurvey(msg[m].at)) /\ UNCHANGED doubled
  /\ UNCHANGED <<recordVars, timer, pendingTimer, survey, calledOff, orphaned, contact, open,
                 crossed, troubled>>

\* It erases the entry of the phone, whichever that is by now, ...
\* A plausible error: the answer leaves the entry.
TakeLeaves(m) ==
  /\ At(m, "take") /\ To(m, "rate")
  /\ UNCHANGED <<recordVars, engineVars, contact, open, doubled, crossed, troubled>>
TakeSurvey(m) ==
  /\ At(m, "take") /\ To(m, "rate")
  /\ pendingSurvey' = NoCall /\ expired' = FALSE
  /\ UNCHANGED <<recordVars, timer, pendingTimer, survey, calledOff, orphaned, contact, open,
                 doubled, crossed, troubled>>

\* ... and saves the rating under the session the message came to.
Rate(m) ==
  /\ At(m, "rate") /\ To(m, AfterSurvey(msg[m].at))
  /\ \E o \in Outcome :
       ratings' = IF o = "ok" THEN [ratings EXCEPT ![msg[m].at][msg[m].answers] = @ + 1]
                  ELSE ratings
  /\ UNCHANGED <<mix, phase, memoryVars, row, wav, script, accepted, lost, busy, engineVars,
                 contact, open, doubled, crossed, troubled>>

-------------------------------------------------------------------------------
\* chatwootPushIncoming.  A failed request is an error of the push, except for the
\* searches, after which it goes on to create what they would have found.
Pushes == UNCHANGED <<recordVars, engineVars, doubled>>
Fails == "fail" \in mix /\ troubled' = TRUE
Others(m, step) == \E o \in Messages \ {m} : At(o, step)

\* ensureContact: the search, and the inbox a contact it finds may still lack, ...
FindContact(m) ==
  /\ At(m, "find")
  /\ \/ contact /\ To(m, "list") /\ UNCHANGED <<crossed, troubled>>
     \/ ~contact /\ To(m, "create") /\ crossed' = (crossed \/ Others(m, "create"))
        /\ UNCHANGED troubled
     \/ Fails /\ To(m, "create") /\ UNCHANGED crossed
     \/ contact /\ Fails /\ To(m, "dropped") /\ UNCHANGED crossed
  /\ Pushes /\ UNCHANGED <<contact, open>>

\* ... and the creation, which Chatwoot refuses when the phone has a contact.
CreateContact(m) ==
  /\ At(m, "create")
  /\ \/ /\ To(m, IF contact THEN "dropped" ELSE "list")
        /\ contact' = TRUE /\ UNCHANGED troubled
     \/ Fails /\ To(m, "dropped") /\ contact' \in {contact, TRUE}
  /\ Pushes /\ UNCHANGED <<open, crossed>>

\* ensureConversation: the list, ...
\* A plausible error: a conversation for every message.
ListsNone(m) ==
  /\ At(m, "list") /\ To(m, "converse")
  /\ crossed' = (crossed \/ Others(m, "converse"))
  /\ Pushes /\ UNCHANGED <<contact, open, troubled>>
ListConversations(m) ==
  /\ At(m, "list")
  /\ \/ open > 0 /\ To(m, "post") /\ UNCHANGED <<crossed, troubled>>
     \/ open = 0 /\ To(m, "converse") /\ crossed' = (crossed \/ Others(m, "converse"))
        /\ UNCHANGED troubled
     \/ Fails /\ To(m, "converse") /\ UNCHANGED crossed
  /\ Pushes /\ UNCHANGED <<contact, open>>

\* ... and a new conversation, which Chatwoot always makes.
CreateConversation(m) ==
  /\ At(m, "converse")
  /\ \/ To(m, "post") /\ open' = open + 1 /\ UNCHANGED troubled
     \/ Fails /\ To(m, "dropped") /\ open' \in {open, open + 1}
  /\ Pushes /\ UNCHANGED <<contact, crossed>>

\* The attachment, or else the text.
PostMessage(m) ==
  /\ At(m, "post")
  /\ \/ To(m, "posted") /\ UNCHANGED troubled
     \/ Fails /\ To(m, "dropped")
  /\ Pushes /\ UNCHANGED <<contact, open, crossed>>

\* External: an operator resolves a conversation.
Resolve ==
  /\ "resolve" \in mix /\ open > 0 /\ open' = open - 1
  /\ Pushes /\ UNCHANGED <<msg, contact, crossed, troubled>>

-------------------------------------------------------------------------------
\* A survey of c that may still be answered.
Surveying(c) ==
  \/ survey[c] \in {"asleep", "asked"} \/ pendingSurvey = c
  \/ \E m \in Messages : msg[m].answers = c /\ msg[m].step \in Handling

\* The engines and the goroutines die with the process.
Forget ==
  /\ timer' = [c \in Calls |-> IF timer[c] \in {"armed", "fired", "erased"} THEN "over"
                               ELSE timer[c]]
  /\ survey' = [c \in Calls |-> IF survey[c] \in {"asleep", "asked"} THEN "over" ELSE survey[c]]
  /\ msg' = [m \in Messages |-> IF msg[m].step \in Handling \cup Pushing
                                THEN [msg[m] EXCEPT !.step = "over"] ELSE msg[m]]
  /\ pendingTimer' = NoCall /\ pendingSurvey' = NoCall /\ expired' = FALSE
  /\ UNCHANGED <<calledOff, orphaned, contact, open, doubled, crossed, troubled>>

ConversationNext ==
  \/ RecordNext(Surveying) /\ UNCHANGED conversationVars
  \/ Restart /\ Forget
  \/ \E c \in Calls : \/ Automate(c) \/ TimerFires(c) \/ EraseEntry(c) \/ SendFollowup(c)
                      \/ AskRating(c) \/ NoteSurvey(c)
  \/ SurveyExpires
  \/ \E m \in Messages :
       \/ \E s \in Sessions : Arrives(m, s)
       \/ LookUpSurvey(m) \/ TakeSurvey(m) \/ Rate(m)
       \/ FindContact(m) \/ CreateContact(m) \/ ListConversations(m) \/ CreateConversation(m)
       \/ PostMessage(m)
  \/ Resolve

-------------------------------------------------------------------------------
\* A follow-up that a message of the customer or a newer missed call found waiting is
\* never sent, unless an older follow-up, which had fired, erased its entry
\* (ScheduleFollowup, CancelFollowup, followup.go).
FollowupsStop == \A c \in calledOff \ orphaned : timer[c] # "sent"

\* One call is rated at most once, whatever the customer answers and on whichever
\* session, unless two sessions' handlers looked the survey up before either had
\* erased it (ScheduleNPS, HandleIncomingMessage, nps.go).
RatedOnce(c) == \A s, t \in Sessions :
  /\ ratings[s][c] <= 1
  /\ ratings[s][c] > 0 /\ ratings[t][c] > 0 => s = t
SurveyRatedOnce == \A c \in Calls \ doubled : RatedOnce(c)

\* The customer has one open conversation and no message of theirs is dropped, unless
\* two pushes searched before either had created what they searched for, or a
\* request failed (ensureContact, ensureConversation, chatwoot.go).
OneConversation ==
  ~crossed /\ ~troubled => open <= 1 /\ \A m \in Messages : ~At(m, "dropped")
===============================================================================

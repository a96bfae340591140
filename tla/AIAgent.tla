------------------------------- MODULE AIAgent -------------------------------
(***************************************************************************)
(* The voice agent of one call: cmd/server/ai_agent.go with its Gemini     *)
(* clients (GeminiLive), attachServerAI of session.go, and the agent       *)
(* registry of ai_scheduler.go (RegisterAgent, CleanupAgent, Stop).        *)
(*                                                                         *)
(* The agent starts when the call becomes active, in a goroutine that may  *)
(* still be connecting when the call ends.  It is detached by whoever      *)
(* comes first: the end of the call, the hangup tool, the duration limit,  *)
(* a Gemini session that closes, or the shutdown.  TransferTo swaps its    *)
(* client while all that goes on.                                          *)
(***************************************************************************)
EXTENDS GeminiLive

CONSTANTS First,      \* the client NewServerAIAgent makes; the others are personas
          Tools,      \* PredefinedTools of each client's configuration
          Summary     \* PostCall.SummaryEnabled

Targets == Clients \ {First}

ASSUME AgentAssumption ==
  /\ First \in Clients
  /\ Tools \in [Clients -> SUBSET {"hangup", "transfer_to_agent", "open_ticket"}]
  /\ Summary \in BOOLEAN

VARIABLES
  agent,    \* the fields of ServerAIAgent, and who is inside Detach
  start,    \* step of the goroutine of attachServerAI
  transfer, \* step of each TransferTo
  ender,    \* step of the hangup tool's goroutine and of the timer's
  call,     \* whether the call goes on
  cleanup,  \* step of CleanupAgent for this call
  registered, \* the agent is in Scheduler.agents
  missed,   \* history: it was registered after CleanupAgent had run
  spoke,    \* clients with a transcript
  posted    \* what executePostCallActions has done

agentVars == <<agent, start, transfer, ender, call, cleanup, registered, missed,
               spoke, posted>>
vars == <<clientVars, agentVars>>

Detachers == {"hangup", "timer", "cleanup", "close", "stop"}
Enders == {"hangup", "timer"}

Agent == [gemini : Clients, detached : BOOLEAN, released : 0..1,
          inside : SUBSET Detachers, transferring : BOOLEAN,
          timer : {"none", "armed", "stopped"}]

TypeOK ==
  /\ ClientTypeOK
  /\ agent \in Agent
  /\ start \in {"new", "connecting", "wire", "arm", "register", "done", "failed"}
  /\ transfer \in [Targets -> {"none", "begin", "load", "close", "connecting", "over"}]
  /\ ender \in [Enders -> {"idle", "wait", "detach", "release", "terminate", "done"}]
  /\ call \in {"live", "over"}
  /\ cleanup \in {"none", "due", "detaching", "done"}
  /\ registered \in BOOLEAN /\ missed \in BOOLEAN
  /\ spoke \subseteq Clients
  /\ posted \subseteq {"transcript", "summary", "over"}

Init ==
  /\ ClientInit
  /\ agent = [gemini |-> First, detached |-> FALSE, released |-> 0, inside |-> {},
              transferring |-> FALSE, timer |-> "none"]
  /\ start = "new"
  /\ transfer = [t \in Targets |-> "none"]
  /\ ender = [e \in Enders |-> "idle"]
  /\ call = "live" /\ cleanup = "none" /\ registered = FALSE /\ missed = FALSE
  /\ spoke = {} /\ posted = {}

-------------------------------------------------------------------------------
\* Detach, first half: the flag under a.mu; only who sets it goes on.
Mark(by, a) == IF a.detached THEN a
               ELSE [a EXCEPT !.detached = TRUE, !.inside = @ \cup {by}]

\* Detach, second half, without the lock: the pacers' channels are closed, the
\* timer stopped and a.gemini closed, as it is by now.
Release(by) ==
  /\ by \in agent.inside
  /\ agent' = [agent EXCEPT !.released = @ + 1, !.inside = @ \ {by},
                            !.timer = IF @ = "armed" THEN "stopped" ELSE @]
  /\ Close(agent.gemini)
  /\ UNCHANGED <<mix, attempt, raised, stray, orphans, start, transfer, ender, call,
                 cleanup, registered, missed, spoke, posted>>

\* executePostCallActions, the goroutine Detach leaves behind: without a
\* transcript of the client it finds in a.gemini it does nothing; the summary
\* comes from a request that may fail.
PostCall ==
  /\ agent.released > 0 /\ posted = {}
  /\ LET kept == IF agent.gemini \in spoke THEN {"transcript"} ELSE {}
         extra == IF kept # {} /\ Summary THEN {{}, {"summary"}} ELSE {{}}
     IN  \E more \in extra : posted' = kept \cup more \cup {"over"}
  /\ UNCHANGED <<clientVars, agent, start, transfer, ender, call, cleanup,
                 registered, missed, spoke>>

\* onClose of a client calls Detach: Start's callback always, a persona's only
\* when no transfer is going on.
OnClose(g) ==
  /\ g \in raised
  /\ raised' = raised \ {g}
  /\ agent' = IF g \in Targets /\ agent.transferring THEN agent
              ELSE Mark("close", agent)
  /\ UNCHANGED <<mix, link, client, attempt, stray, orphans, start, transfer, ender,
                 call, cleanup, registered, missed, spoke, posted>>

-------------------------------------------------------------------------------
\* attachServerAI: the listener saw the call active and a goroutine builds the
\* agent and starts it.  Start blocks in Connect.
Attach ==
  /\ start = "new"
  /\ start' = "connecting"
  /\ attempt' = [attempt EXCEPT ![First].step = "dial"]
  /\ UNCHANGED <<mix, link, client, raised, stray, orphans, agent, transfer, ender,
                 call, cleanup, registered, missed, spoke, posted>>

\* Connect returned: an error ends Start, the agent is not detached.
Started ==
  /\ start = "connecting"
  /\ \/ attempt[First].step = "ok" /\ start' = "arm"
     \/ attempt[First].step = "failed" /\ start' = "failed"
  /\ UNCHANGED <<clientVars, agent, transfer, ender, call, cleanup, registered,
                 missed, spoke, posted>>

Limited == "limit" \in mix   \* MaxDurationMin > 0

\* The duration timer is set without the lock, also on a detached agent.
Arm ==
  /\ start = "arm"
  /\ start' = "register"
  /\ agent' = [agent EXCEPT !.timer = IF Limited THEN "armed" ELSE @]
  /\ UNCHANGED <<clientVars, transfer, ender, call, cleanup, registered, missed,
                 spoke, posted>>

\* RegisterAgent, under the scheduler's lock (which CleanupAgent keeps while it
\* detaches).
RegisterAgent ==
  /\ start = "register" /\ cleanup # "detaching"
  /\ start' = "done" /\ registered' = TRUE
  /\ missed' = (cleanup = "done")
  /\ UNCHANGED <<clientVars, agent, transfer, ender, call, cleanup, spoke, posted>>

-------------------------------------------------------------------------------
\* The call ends: by the peer or an operator, or by an ender below.  onEnded
\* reaches CleanupAgent once.
EndsCall ==
  /\ call' = "over"
  /\ cleanup' = IF call = "live" THEN "due" ELSE cleanup

CallEnds ==
  /\ "end" \in mix /\ call = "live" /\ EndsCall
  /\ UNCHANGED <<clientVars, agent, start, transfer, ender, registered, missed,
                 spoke, posted>>

\* Mutant of CleanupAgent: the entry is deleted, the agent not detached.
CleanupForgets ==
  /\ cleanup = "due"
  /\ cleanup' = "done" /\ registered' = FALSE
  /\ UNCHANGED <<clientVars, agent, start, transfer, ender, call, missed, spoke, posted>>

\* CleanupAgent detaches a registered agent, holding the scheduler's lock.
CleanupAgent ==
  /\ \/ /\ cleanup = "due"
        /\ cleanup' = IF registered THEN "detaching" ELSE "done"
        /\ agent' = IF registered THEN Mark("cleanup", agent) ELSE agent
        /\ UNCHANGED registered
     \/ /\ cleanup = "detaching" /\ "cleanup" \notin agent.inside
        /\ cleanup' = "done" /\ registered' = FALSE
        /\ UNCHANGED agent
  /\ UNCHANGED <<clientVars, start, transfer, ender, call, missed, spoke, posted>>

\* Scheduler.Stop at shutdown: it takes all agents and detaches them.
Stop ==
  /\ "stop" \in mix /\ registered /\ cleanup # "detaching"
  /\ registered' = FALSE /\ agent' = Mark("stop", agent)
  /\ UNCHANGED <<clientVars, start, transfer, ender, call, cleanup, missed,
                 spoke, posted>>

\* What the hangup tool and the timer share once they have waited: Detach, then
\* terminateCall, removeCall and endCall.
Finish(e) ==
  /\ \/ /\ ender[e] = "detach"
        /\ ender' = [ender EXCEPT ![e] = "release"]
        /\ agent' = Mark(e, agent)
        /\ UNCHANGED <<call, cleanup>>
     \/ /\ ender[e] = "release" /\ e \notin agent.inside
        /\ ender' = [ender EXCEPT ![e] = "done"]
        /\ EndsCall
        /\ UNCHANGED agent
  /\ UNCHANGED <<clientVars, start, transfer, registered, missed, spoke, posted>>

\* AfterFunc of the maximum duration.
TimerFires ==
  /\ agent.timer = "armed"
  /\ agent' = [agent EXCEPT !.timer = "stopped"]
  /\ ender' = [ender EXCEPT !["timer"] = "detach"]
  /\ UNCHANGED <<clientVars, start, transfer, call, cleanup, registered, missed,
                 spoke, posted>>

\* waitForAudioFinish returns when the queue is empty or after 15 seconds.
WaitForAudioFinish ==
  /\ ender["hangup"] = "wait"
  /\ ender' = [ender EXCEPT !["hangup"] = "detach"]
  /\ UNCHANGED <<clientVars, agent, start, transfer, call, cleanup, registered,
                 missed, spoke, posted>>

-------------------------------------------------------------------------------
\* The tools a client declares: transfer_to_agent is added for the first one
\* when the session has personas.
Declared(g) == Tools[g] \cup {t \in {"transfer_to_agent"} : g = First /\ Targets # {}}

\* handleToolCall for the tools that start something; the others answer.
ToolCall(c) ==
  /\ link[c].reader = "reading" /\ link[c].up
  /\ \/ /\ "hangup" \in mix \cap Declared(link[c].of) /\ ender["hangup"] = "idle"
        /\ ender' = [ender EXCEPT !["hangup"] = "wait"]
        /\ UNCHANGED transfer
     \/ /\ "transfer" \in mix /\ "transfer_to_agent" \in Declared(link[c].of)
        /\ \E t \in Targets : /\ transfer[t] = "none"
                              /\ transfer' = [transfer EXCEPT ![t] = "begin"]
        /\ UNCHANGED ender
  /\ UNCHANGED <<clientVars, agent, start, call, cleanup, registered, missed,
                 spoke, posted>>

\* A line of conversation: appendTranscript.
Transcribed(c) ==
  /\ "talk" \in mix
  /\ link[c].reader = "reading" /\ link[c].up
  /\ spoke' = spoke \cup {link[c].of}
  /\ UNCHANGED <<clientVars, agent, start, transfer, ender, call, cleanup,
                 registered, missed, posted>>

\* TransferTo: refused on a detached agent; the persona is loaded, or not.
BeginTransfer(t) ==
  /\ transfer[t] = "begin"
  /\ transfer' = [transfer EXCEPT ![t] = IF agent.detached THEN "over" ELSE "load"]
  /\ agent' = [agent EXCEPT !.transferring = @ \/ ~agent.detached]
  /\ UNCHANGED <<clientVars, start, ender, call, cleanup, registered, missed,
                 spoke, posted>>

LoadPersona(t) ==
  /\ transfer[t] = "load"
  /\ \/ /\ transfer' = [transfer EXCEPT ![t] = "close"]
        /\ UNCHANGED agent
     \/ /\ transfer' = [transfer EXCEPT ![t] = "over"]
        /\ agent' = [agent EXCEPT !.transferring = FALSE]
  /\ UNCHANGED <<clientVars, start, ender, call, cleanup, registered, missed,
                 spoke, posted>>

\* The old client is closed, the queue emptied and the new one connects.
SwitchPersona(t) ==
  /\ transfer[t] = "close"
  /\ transfer' = [transfer EXCEPT ![t] = "connecting"]
  /\ Close(agent.gemini)
  /\ attempt' = [attempt EXCEPT ![t].step = "dial"]
  /\ UNCHANGED <<mix, raised, stray, orphans, agent, start, ender, call, cleanup,
                 registered, missed, spoke, posted>>

\* Connect returned.  Nobody asks whether the agent is still attached.
Transferred(t) ==
  /\ transfer[t] = "connecting" /\ attempt[t].step \in {"ok", "failed"}
  /\ transfer' = [transfer EXCEPT ![t] = "over"]
  /\ agent' = [agent EXCEPT !.transferring = FALSE,
                 !.gemini = IF attempt[t].step = "ok" THEN t ELSE @]
  /\ orphans' = orphans \cup
       {g \in {agent.gemini} : attempt[t].step = "ok" /\ ~client[g].closed} \cup
       {g \in {t} : attempt[t].step = "ok" /\ agent.released > 0}
  /\ UNCHANGED <<mix, link, client, attempt, raised, stray, start, ender, call, cleanup,
                 registered, missed, spoke, posted>>

-------------------------------------------------------------------------------
ClientStep == ConnectionSteps /\ UNCHANGED agentVars

Internal ==
  \/ ClientStep
  \/ PostCall \/ Attach \/ Started \/ Arm \/ RegisterAgent
  \/ CleanupAgent \/ TimerFires \/ WaitForAudioFinish
  \/ \E e \in Enders : Finish(e)
  \/ \E d \in Detachers : Release(d)
  \/ \E g \in Clients : OnClose(g)
  \/ \E t \in Targets : BeginTransfer(t) \/ LoadPersona(t) \/ SwitchPersona(t)
                        \/ Transferred(t)

Environment ==
  \/ PeerSteps /\ UNCHANGED agentVars
  \/ CallEnds \/ Stop
  \/ \E c \in Conns : ToolCall(c) \/ Transcribed(c)

Next == Internal \/ Environment
Spec == Init /\ [][Next]_vars
FairSpec == Spec /\ WF_vars(Internal)

-------------------------------------------------------------------------------
\* When the agent is gone (detached and released, or never started because
\* Connect failed) nobody keeps a Gemini session open, except in the ways the
\* code leaves open: a connection dialled after Close or dialled over (stray),
\* and a client nobody closes (orphans): swapped in after the release, or
\* whose Connect timed out on a setup that had just succeeded.
Gone == agent.released > 0 \/ start = "failed"
NoStraySession ==
  Gone => \A c \in Conns : Up(c) =>
            \/ c \in stray \/ orphans \cap {link[c].of, First} # {}
            \/ link[c].of \in Targets /\ transfer[link[c].of] = "connecting"

\* The agent of a call that ended is detached and its post-call actions run,
\* whoever ended it; an agent registered after CleanupAgent had run has only
\* the duration limit to rely on.
EndedCallReleasesAgent ==
  (call = "over" /\ start = "done" /\ (Limited \/ ~missed))
    ~> "over" \in posted

\* A session that lost its connection is ready again or closed: reconnect
\* never leaves a client that neither works nor tells its agent.
LostSessionSettles ==
  \A g \in Clients :
    (attempt[g].step = "ok" /\ ~client[g].ready) ~> (client[g].ready \/ client[g].closed)
===============================================================================

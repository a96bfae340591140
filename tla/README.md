# A verification project for Kallia / AstraCalls

Kallia is a PABX for WhatsApp: a Go server holds one WhatsApp client per
session, places and receives VoIP calls over it, lets operators take part from
a browser over WebRTC, and can put a server-side AI agent on a call. This
directory holds TLA+ models of it, the TLC configurations that check them, and
TLAPS proofs about them. `PROJECT.json` lists every component, run, mutant,
mapped definition, hazard, finding and theorem.

    tlc -workers 2 -config MCManagerRaces.cfg MCCallManager.tla
    tlapm CallManagerProofs.tla

## Inventory

| Component | State | Operations | Hard parts | Modules |
|---|---|---|---|---|
| Call state machine (`internal/voip/call/callstate.go`) | state, accept/connect/end times, reason, duration, flags of one call | `ApplyTransition` | late transitions, duration across hold | `CallState`, `CallTimeline` |
| `CallManager` (`callmanager*.go`) | current call, codec, SRTP and RTP sessions, keepalive, peer SSRCs | `StartCall`, `AcceptCall`, `RejectCall`, `EndCall`, `HandleCall{Offer,Accept,Ack,Transport,Terminate}`, relay callbacks, keepalive, `cleanupMedia` | eight goroutines meet over `m.mu`; listeners run unlocked; native codec | `CallManager`, `CallLifecycle`, `AudioPath`, `ManagerMedia` |
| `SctpRelayManager` (`transport/sctprelay.go`) | map of relay connections, their channels and timers | `ConfigureRelays`, `failConnection`, `closeConnection`, `Cleanup` | two diallers, timeouts, teardown by id | `RelayTransport`, `RelayPool` |
| Media (`media/`) | SRTP rollover counters, RTP sequence, codec | protect/unprotect, encode/decode, resample | wraparound, reordering | `AudioPath` |
| Signalling (`signaling/`, `wanode/`, `wa/socket.go`) | none | build and parse stanzas | data only | - |
| `Session`, `callRegistry` (`cmd/server/session.go`) | calls by id, with manager, bridge and codec; auth state; AI configuration | `startOutgoing`, `onIncomingOffer`, `handleEvent`, `setBridge`, `removeCall`, `terminateCall`, `teardownAllCalls` | capacity, events of calls that went away, auto-answer after a delay | `SessionCalls` |
| `Broker` (`broker.go`) | active call records, history, SSE subscribers | `upsertCall`, `setOwner`, `ownerActiveCall`, `endCall`, `broadcast` | read-modify-write, full subscriber | `SessionCalls`, `CallRecords`, `EventFeed` |
| HTTP API (`httpapi.go`) | none of its own | start, accept, reject, end, webrtc, sessions, tickets | checks and acts in separate critical sections | the three above, `SessionManager` |
| `Bridge` (`bridge.go`) | a PeerConnection to a browser | `NewBridge`, `WriteOpus`, `Close` | ICE callback ends the call | `SessionCalls` |
| `SessionManager`, `sessionStore`, `db` | sessions in memory, a row each in Postgres, a database each for whatsmeow | `Create`, `Restore`, `Delete`, `Logout`, `Pair` | failure or crash between steps | `SessionManager` |
| `ServerAIAgent`, `GeminiLiveClient` | agent, its Gemini connection, audio queues | `Start`, `TransferTo`, `Detach`; connect, reconnect, `Close` | transfer while closing, reconnect after close | `GeminiLive`, `AIAgent` |
| `AIScheduler` | triggering set, agents by call, active count, stored schedules | `tick`, `RegisterAgent`, `CleanupAgent`, the schedule tool, the settings handler | lost configuration updates, leaked counts | `AIScheduler`, `AIAgent` |
| Call history, tickets, summaries, recordings, ratings | memory, three tables, files | insert, update, delete, hydrate | a goroutine per write, no order | `CallRecords` |
| NPS, follow-up, Chatwoot in | pending surveys, timers, contact, conversation | schedule, answer, cancel, push | replaced timer that fired; two pushes at once | `Conversations` |
| Agents API | the personas of a session | create, update, activate, delete | READ COMMITTED | `Personas` |
| Web client (`client/src`) | call store fed by SSE; media hooks | accept, subscribe, reconnect | stale and missed events | `EventFeed` |
| Recorder, webhook, proxies, auth, outgoing messages | files, HTTP | forwarding and conversion | data only | - |

How they interact. An HTTP handler, the whatsmeow event goroutine (one per
client, sequential) or a timer finds a call in its session's registry and calls
its `CallManager`. The manager moves the call under `m.mu` and, unlocked, runs
the session's listener (`emitState`), which updates the Broker's record or, for
an ended call, empties the registry entry and files the record; `onEnded` does
that once more and schedules the automations. The manager dials relays through
the relay manager, which calls back when a channel opens. An active call may get
an agent, which talks to Gemini and ends the call by itself. Browsers learn of
calls from the records the Broker broadcasts, and refer to them by id. The
scheduler places calls; the history, the surveys and the conversations outlive
them.

## Modules

A thread is a goroutine (or a browser's hook), and a step is one critical
section of the code, one statement of a database, or what lies between two of
them: a value read in one step and used in another is a variable.

| Module | Models |
|---|---|
| `CallState` | which transition is legal where, and its target |
| `CallTimeline` | one `CallInfo` and a clock |
| `CallManager` | one manager and its threads |
| `RelayPool` | what a manager sees of its relays; the abstract specification of `RelayTransport` |
| `RelayTransport` | the relay manager: map, diallers, timeout, callbacks, teardown |
| `CallLifecycle` | what a manager promises its session; the abstract specification of `CallManager` |
| `AudioPath` | the frames of a call and their counters |
| `ManagerMedia` | `CallManager` and `AudioPath` in one instance |
| `SessionCalls` | registry, records, handlers, event goroutine and bridges of one session |
| `GeminiLive`, `AIAgent` | the Gemini clients; the agent of a call, which extends them |
| `SessionManager`, `AIScheduler` | sessions on disk and in memory; their scheduled calls, which extend them |
| `CallRecords`, `Conversations` | what is stored of calls; what follows them with the customer, which extends it |
| `Personas` | the agents table and its transactions |
| `SessionData` | `Conversations` and `Personas` in one instance |
| `EventFeed` | records, broadcasts, streams, and the browsers' stores and hooks |
| `CallViews` | `CallTimeline` and `EventFeed` in one instance |
| `*Proofs` | theorems and proofs of the module they are named after and, in the four below, of its parts: `CallViewsProofs` (`CallTimeline`, `EventFeed`), `AISchedulerProofs` (`SessionManager`), `AIAgentProofs` (`GeminiLive`), `SessionDataProofs` (`CallRecords`, `Conversations`, `Personas`) |
| `MC...` | instances for TLC |

**CallTimeline.** `info` is `CallStateData`; a time of 0 is a nil pointer.
`Tick` is the wall clock; a tick is `1/TicksPerSecond` of a second so that the
truncation to whole seconds shows. Each transition of the `switch` is an action
and `Refused` is the error return.

**CallManager.** The threads are `start` (the request that places the
call), `ack` (the goroutine waiting for the offer's answer), `sig` (whatsmeow's
event goroutine), `accept`, `reject`, `hangup`, `ice`, `drain`, `keepalive`, and
the relay callbacks in `upcalls`. `hasConn`, the captured relay list `todo` and the
codec `held` by a cleanup are read under the lock and used later. The registry is
reduced to `inReg`; `SessionCalls` has it whole. The relays are an instance of
`RelayPool`, whose actions its relay steps use. Endpoints of a transport stanza
carry no raw token and are dropped by `buildRelayConfigs`: storing them is storing
no usable endpoint. The transition to hold has no caller and is not an action here.

**RelayTransport.** A `relayConnection` is an element of `Conns` with the fields of
the struct and the step of the goroutine that dials it. `m.mu` guards the map
only: `Insert` may overwrite an entry, the timeout reads `state` without the lock
(`TimerFires`) and fails the connection later (`TimerFails`), and a teardown is
three steps per caller. `failConnection` and `closeConnection` delete by id, so a
connection can lose its entry on behalf of another one (`stray`). `Panicked` is
the second `close(stopCh)`, where the process ends.

**AudioPath.** A frame is named by its full index, whose quotient by `W` is the
rollover counter and whose remainder is the sequence number on the wire. A context
keeps `(roc, last)` as `srtp.go` does and estimates the index of each packet; the
ring of seen numbers starts zeroed, is consulted before the SSRC, and fills with
foreign packets too. An ack or accept makes the sessions again, and `Decode` runs
without the lock on what was read under it.

**SessionCalls.** A thread's `job` is a call and a step, with the record it has
read (`seen`), the removals still ahead (`rounds`: the listener's, `onEnded`'s
and the handler's own) and what follows (`then`). Of a manager only the state is
kept. `late` and `lost` are history: records inserted after the end, and live
calls that a rejection or an early drain let go.

**GeminiLive and AIAgent.** A client has one current connection out of `Conns`;
`Connect` and the reconnect goroutine each dial, set up and hand over to a read
loop, and check `closed` in one critical section and act in the next. The agent's
`Detach` is a flag and, unlocked, a release. `TransferTo` closes the old client, whose
read loop runs the `onClose` that `Start` installed, and swaps the new one in when
its `Connect` returns.

**SessionManager and AIScheduler.** `row` and `db` are on disk, `live` and
`client` in memory; `Exit` drops the latter anywhere and `Start` restores.
`AIScheduler` adds the configuration in memory and in the row, copied and written
back by the ticker, the settings handler and the agent's tool, with `activeCount`
and the triggering marks kept beside it.

**CallRecords and Conversations.** `jobs` is the bag of goroutines that write to
the database: they run, or fail, in any order. Follow-ups, surveys and messages
each are a small life cycle per call or message, over one entry per phone.

**Personas.** A statement starts with the rows committed by then (`saw`), waits for
the locks on them, and keeps its own until the commit.

**EventFeed.** A writer changes a record under the lock and has a list of broadcasts
left; the list of calls is taken in a critical section of its own and sent later.
A subscriber's channel has `Capacity` places. `overtaken`, `missed`, `unheard`,
`lateRing` and `lateMic` are history, the exceptions of the properties. A status or
ended event carries the record as it was at its change, so events may overtake one another; a
browser has caught up when its channel is empty and no goroutine, and no browser's claim,
has anything left to tell.

Three modules put components into one instance that share no state, or meet only in actions
either of them may take at any time: a behaviour of `ManagerMedia`, `SessionData`
or `CallViews` moves one of its parts. They add nothing to the questions and hide
nothing from them: a step of one part leaves the other part's guards as they are.

## Runs

| Run | Instance | Shows |
|---|---|---|
| `call_views` | 6 ticks, 2 per second; 1 call, 1 browser, 2 writers, channel of 2, 2 changes | the duration is the talk time, ended records are frozen; a browser ends up at what the broker has and lets go of calls that are over |
| `manager_races` | 1 relay, hang-up, drain, accept and reject, 1 peer message | codec closed once, media stays released, end told once, live calls orphaned only in three ways |
| `manager_relays` | 2 relays, accept, 2 peer messages; 8 numbers, a ring of 2, 3 frames each way | active means keyed and supervised; both directions keep to the frame's index, a doubled frame is heard once, an ended call is silent |
| `manager_lives` | 1 relay, ICE end and reject, 1 peer message, fair | no lost activation, a call without relays ends, an ended call is released, `CallLifecycle` is implemented |
| `relays` | 1 relay, 2 connections, fair | the map holds live connections, who leaves it is torn down, failures stop a connection once, nothing stays connecting, peers are closed, `RelayPool` is implemented |
| `session_races` | 1 incoming call, 2 workers, 2 bridges | no bridge left, history holds calls that are over |
| `session_lives` | 3 calls, capacity 1, 1 worker, fair | ended calls give back entry, record and bridges |
| `agent` | 1 persona to transfer to, 3 connections, 8 mixes, fair | no Gemini session outlives its agent, an ended call's agent is released, a lost session settles |
| `sessions` | 2 sessions, 2 devices, 2 workers, 2 schedules, 6 mixes, fair | a database has a row, a pairing survives, a schedule is dialled once, and is dialled |
| `session_data` | 2 calls, 2 messages on 2 sessions, 2 personas, 2 editors, 16 mixes | deleted stays deleted, marks reach the table, follow-ups stop, one rating, one conversation, one active persona |
| `session_owner` | 1 incoming call, one operator | **violated**: an owner is lost |
| `session_cap` | 2 outgoing calls, capacity 1 | **violated**: capacity exceeded |

### Bounds

- A manager handles one call in its life, so the calls of `manager_*` are complete;
  the races are between two or three threads, and every pair of callers meets in one
  of the instances. Two peer messages (`MaxSignals`) are the least that let an accept be followed
  by a transport or a terminate.
- Connections to different relays share nothing but `Cleanup`, so one relay is
  enough, and two connections are what it takes to dial over each other; `Ways` says
  what may end each of them.
- `W` is 8 for 2^16 and `H` is 2 for a ring of 64: both streams start at the last
  number, so three frames wrap. `Reach` 2 bounds reordering, `MaxStrays` 1 the
  doubled and foreign packets, `MaxAccepts` 1 the late accepts, `MaxSent` and
  `MaxFrames` 3 the streams.
- Two workers are enough for a handler to overtake another one's check, and the event
  goroutine is a third thread; two bridges for a replacement. `Requests` restricts
  an instance to the requests its question is about; together they use all.
- `Mixes` does the same where a behaviour draws one set of events at its start: each
  mix puts two or more kinds of events against each other, and every event is in one.
  What needs three kinds from different mixes at once is not checked.
- `MaxTries` is 2 for the three back-offs of `reconnect`, `MaxHistory` 1 for 500
  entries: the first call filed is dropped by the second, and may then get a ticket or be
  deleted. `MaxHydrated`, 100 rows, is 1 as well: of two rows a restart reads one. `MaxEdits` 2 configurations are
  written, which two writers need to overlap. `Limit` is a plan for one connection.
- `Capacity` is 2 for 32, so that a channel fills. `MaxRevs` allows two changes of the
  records, the least in which one broadcast overtakes another; three changes, and two
  calls as far as the search went, showed nothing else. With one call the popup
  of a second one does not overwrite it.

Deadlock is not an error in these instances: a call that is over is at rest.

### Fairness

`WF` on what the Go runtime runs by itself: the internal steps of each thread of
`CallManager` and `SessionCalls`, and a relay callback that was raised; all goroutines together in
`RelayTransport` and `AIAgent`, where every run of internal steps is finite; the
ticker, each editor of the configuration, and the end of each call in
`AIScheduler`. Each step is a short critical section, a query with a timeout or a
timer. Nothing is assumed of operators, the peer, the network, Gemini or the
relays; a call is assumed to end only where a schedule waits for it. The records,
conversations, personas and the feed are checked for safety only.

## What the violations show

*Owner lost.* The listener reads the record (`getCall`), an operator's `setOwner`
claims the call, and the listener writes its older copy back. `broker.go:211`
introduces `updateCall` as the replacement of this very pattern, but nothing
calls it.

*Capacity exceeded.* `doStartCall` counts the registry and creates the call in two
critical sections. Incoming calls alone cannot do it: one goroutine handles them.

## What the models show besides

Most properties hold with named exceptions, things the code does and no document
denies. They are the first place to look when the code changes.

- *Relays.* Two teardowns of one connection that both find `stopCh` open close it
  twice, and the process panics; it takes a `Cleanup` or a closing channel that
  meets a failure. A connection dialled over, or torn down before its dialler has
  set `conn.pc`, is closed by nobody if it opens. Its late failure deletes
  the entry of the newer one.
- *Session.* A record inserted after its call ended (`late`) stays. A call
  rejected after it was answered, or drained before its `CallInfo` exists, lives on
  outside the registry (`lost`).
- *Audio.* A frame late across the whole wraparound moves the receiver's rollover
  counter for good, and a session renewed by an accept after our numbers wrapped
  restarts ours from zero while the peer's stays (`Slips`). Number 0 is refused until the
  zeroed ring has been overwritten, and foreign packets take places of the ring.
  Which decoder hears a frame is left to chance: the fallback is tried after
  five refusals (`callmanager_media.go:204`).
- *Agent.* `TransferTo` closes the old client before the new one connects, and the old
  read loop then runs the `onClose` of `Start`, which detaches the agent: a transfer always
  detaches it, though the comments at `ai_agent.go:934` and `:1019` expect it to go on.
  The new client is then one nobody closes (`orphans`), as is one whose `Connect` timed out
  on a setup that had just succeeded; a connection dialled after `Close`, or
  dialled over, is `stray`. An agent registered after `CleanupAgent` has run has only the
  duration limit to rely on. The new client's audio callback has no cap on its
  queue (`ai_agent.go:996`), and a persona can transfer further only if its
  own tools say so.
- *Sessions.* A failed drop, or an exit between the two clean-up steps of `Create`,
  leaves a database that no restart finds (`leaked`). A failed store, or a `Logout`
  whose last write comes after a new pairing, loses it (`excused`). A schedule
  whose call ended before it was bound is never dialled again (`Stuck`); one
  without a phone number blocks those behind it; overlapping writers leave
  `activeCount` wrong (`muddled`).
- *Records and conversations.* A writer still at work when a call is deleted
  (`busy`) writes after it; a mark is `lost` when its UPDATE comes before the row,
  when a listener replaced the record, or with the process. A ticket of a call the broker
  does not know, because the history was trimmed or a restart did not read it back, is
  persisted nowhere (`broker.go:344`), and yet `handleOpenTicket` answers "ticket saved"
  (`httpapi.go:722`) and the agent's tool success (`ai_agent.go:503`), under a comment
  that promises "atômico + persistido" (`:485`): also counted as `lost`. A fired follow-up erases the entry
  of its successor (`orphaned`), which a message can then no longer stop. Two sessions'
  handlers that both looked a survey up rate it twice (`doubled`), under the
  session the answer came in on. Two pushes that both search first make two
  contacts or conversations (`crossed`).
- *Personas.* An agent inserted while another request clears its direction stays active beside that
  request's (`crowded`).
- *Feed.* A list taken earlier and sent later shows a call that is over until
  the next event (`overtaken`), as does a full channel (`missed`). A popup whose call
  ended while the browser was disconnected stays (`unheard`), and so does one
  rung for after the end (`lateRing`), or after a 404 on accept. A microphone
  registered after the end stays open (`lateMic`).

## Proofs

`tlapm` checks the `*Proofs` modules to the last leaf.

*CallTimeline.* `Inv` (types, order of times, duration) is inductive; the proof has
one step per action. `RecordsFinal` follows from it.

*EventFeed.* For any calls, browsers, goroutines, number of changes and any capacity
above zero (`FeedAssumption`: the names are distinct). `ShownIsLive` speaks of a browser
that has caught up; the invariant says what holds on the way there. What a goroutine
knows is no newer than the record (`Counted`), and a change nobody has been told of
is some goroutine's to tell (`Told`). A browser's store, or the last event about
the call in its channel, has the status last told, or the call is excepted (`Current`).
A ring that is due, in a channel or shown is for a call that waits, or the event that
ends it comes after (`RingTrue`, `RingSeen`); the same of a microphone and of a
hook that is still answering (`MicHeld`, `HookHeld`). `HalvesOfViews` and
`ViewsAreTrue` carry the results over to the composed instance the run checks.

*CallManager.* For every set of relays, every set of callers, any number of peer
messages and with or without a codec, assuming only `ManagerAssumption` (the
callers are the known ones, the bound is a natural number). The safety
properties are not inductive by themselves. `IInv` adds: before the `CallInfo`
exists nobody but its creator has it (`Fresh`); it is built once (`Creation`);
from there to the first cleanup the codec is there, and an armed keepalive has a
running goroutine (`Supervision`); a codec on its way to `Close` was taken by a
cleanup (`Holding`); an outgoing call leaves ringing only through the handler
that keys it (`Keyed`); only the thread whose `EndCall` made the transition is on
its way to `onEnded` (`Ending`); and a hang-up removes only calls that are over
(`Dropping`). `Invariance` proves it step by step and the others follow.
`LifecycleSafety` proves the safety part of the refinement: initial states map
to initial states and each step to a step of `CallLifecycle` or a stutter.

*RelayTransport.* For every set of relays and connections, and whatever `Ways` allows.
`MapIsLive` needs to know that a connection which has not been inserted is as it
was made (`Unplaced`) and that timeout and callbacks belong to dialled connections
(`Underway`); `FailuresStopOnce` needs the order of a single failure's teardown
(`FailedOnce`) and that only `OnOpen` opens a connection (`OpensOnce`).
`PoolIsImplemented` is the whole refinement of `RelayPool`, which has no fairness.

*SessionCalls.* For any number of calls, bridges, operators and goroutines, any
capacity and any of the requests, assuming `SessionAssumption` (the names are
distinct). `NoBridgeLeak` needs to know that a bridge on its way to `setBridge` was
made for that call and is not new (`Attaching`). `HistoryIsOver` needs more: one
thread makes a call, which has no state until then (`Creation`); a call that is not
set up, or is out of the registry, is either over or known to nobody (`Unheard`);
removals are ahead only of threads whose call is over (`Rounds`); and a call that
`teardownAllCalls` has ended is over before it leaves the batch (`Draining`).

*SessionManager and AIScheduler.* For any sessions (at least one), devices, requests
at a time and schedules, under `SessionAssumption` and `SchedAssumption`. The
invariant is kept session by session, `Sound(s)`: who creates a session is the only
one who knows it (`Creation`); a restore visits a row once and drops only what was
never paired (`Restoring`); a row is on its way to deletion only when the database is
gone or left behind (`Forgetting`); what a registered session, its client and its
connection have on disk (`Backed`). With these `DatabaseHasRow` and `PairedSurvives`
are inductive. `DialledOnce` is an account, `Paid`: the sessions that would have a
schedule dialled, from memory or from their row, and the ticker about to dial it are
no more than the activations not yet used. It needs to know what the ticker holds at
each step (`Marking`) and that nobody holds a session still being created (`Loaded`).

*AudioPath.* For any width of the sequence numbers, any ring and any bounds
(`AudioAssumption`). `InStep` follows from `Follows`: a context that could follow its
stream adds up to the full index of the frame it met, which half the width suffices
to keep. `HeardOnce` needs `RingRemembers`, where the ring holds each number that the
history still counts on. `HalvesOfManager` shows that the composed instance the runs
check is a behaviour of this module and of the manager, so the results hold there.

*Records, conversations and personas*, together in `SessionData`, for any calls,
messages, agents, editors and any length of the history. An action is about one call;
that it leaves the others alone (`Untouched`) is a lemma of each. A mark a request was told is saved is in the
row, or somebody carries it there, or it is counted as lost (`Traced`), as is a ticket of
a call the broker does not know (`UnknownTicketKeeps`); a call deleted
in peace has no goroutine, job, row or log left (`Left`). `FollowupsStop` needs that the
phone's entry names the one timer that is armed (`FollowedUp`), `SurveyRatedOnce` that
a survey passes from its goroutine to the entry, to one message, to one rating
(`SurveyedOnce`), and `OneConversation` that one push at a time creates, and only what
is not there (`OneCreates`). At most one agent is active because a transaction that has
cleared a direction found every agent there is (`Informed`): one inserted since would
have crowded the direction.

*AIAgent with GeminiLive.* For any clients, connections, tools and mixes of events and any
number of delays above zero (`ClientAssumption`, `AgentAssumption`). The invariant has two halves.
`Linked` is about the clients: a goroutine reads a connection that was set up, and only
one that was read is reconnected (`LinkOK`); an attempt waits for a connection of its
own client (`AttemptOK`); `Close` reaches every connection that is up and not stray
(`Reached`); while `Connect` has not seen its client set up, that client has no other
connection (`Sole`). A step of the clients either brings no connection up (`Quieter`),
which keeps all of it (`QuietKeeps`), or is one of `Dial`, the end of a setup and the end of a
read loop. The agent's half: one goroutine at most is inside `Detach` (`DetachedOnce`);
every client is closed, an orphan, never set up, in a transfer, or the one that
`Detach` will close (`Kept`); a persona is not tried before its transfer
(`Untried`); and no tool is called before `Start`'s `Connect` has returned (`Starts`).
`NoSessionStrays` follows: an open connection that is not stray belongs to a client that is not
closed, so `Kept` names who will close it.

Every invariant and every action property of the passing runs is a theorem, and so is every
refinement but for the fairness of `CallLifecycle`. Only model-checked: the liveness
properties (`ActivationNotLost`, `LostCallEnds`, `EndedIsReleased`, `ConnectingEnds`,
`PeersClose`, `EndedLeaves`, `BridgesClose`, `EndedCallReleasesAgent`, `LostSessionSettles`,
`DueScheduleFires`) and the fairness in `ImplementsLifecycle`, which with ENABLED are
beyond this prover, as are induction over data and RECURSIVE operators. The two violations are
TLC's.

## Not modelled

- The webhook's dispatch and its retries, outgoing messages and attachments, the
  Chatwoot-to-WhatsApp handler, the context read for an agent, the Gemini and tool
  proxies: requests without state of their own.
- A poll's options, saved by one request and read by its votes (`messaging.go:300`); renaming
  and the settings of a session; users, projects and roles: single statements.
- The recorder's positions in its file, ciphers, codecs, resampling, STUN and
  stanzas: arithmetic and data. The agent's pacers, which cut sound into frames.
- Rate limiter, password hashing, JWT: data. Of tickets, `EventFeed` has the single use
  and the expiry.
- The browser's audio on the server (`session.go:194`): whether a codec
  survives a `Close` while it encodes is decided in the native library. A repeated offer for
  one call id (`session.go:119`) would need two managers for it.
- The rest of the web client: pages and components.

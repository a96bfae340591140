-------------------------- MODULE SessionCallsProofs --------------------------
(***************************************************************************)
(* The safety of SessionCalls for any number of calls, bridges, operators  *)
(* and goroutines: every bridge is closed with its call, and the history   *)
(* holds calls that are over.  IInv is inductive: one lemma per action,    *)
(* then the theorems.                                                      *)
(***************************************************************************)
EXTENDS SessionCalls, TLAPS

\* An idle thread holds no call.
LEMMA IdleIsJob ==
  /\ Idle \in Job
  /\ Idle.step = "idle" /\ Idle.call = NoCall /\ Idle.who = NoOne
  /\ Idle.rounds = 0 /\ Idle.then = "idle" /\ Idle.bridge = NoBridge
  /\ Idle.seen = NoRecord
BY DEF Idle, Job, Steps, Owners, Record

\* A thread takes up a call that is not quiet, to accept, end or remove it.
LEMMA TakeUp ==
  ASSUME IInv, NEW t \in Threads, NEW j \in Job,
         job[t].step = "idle", job' = [job EXCEPT ![t] = j],
         UNCHANGED <<callVars, recVars, bridgeVars, drainVars>>,
         j.call \in Calls, ~Quiet(j.call), j.then = "idle",
         \/ j.step = "own" /\ j.rounds = 0
         \/ j.step = "end" /\ j.rounds \in {1, 2}
         \/ j.step = "forget" /\ j.rounds = 1 /\ Over(j.call)
  PROVE  IInv'
<1> USE SessionAssumption DEF IInv, Threads, At, callVars, recVars, bridgeVars,
      drainVars, TypeOK
<1>1. TypeOK'
  BY SMTT(20) DEF Calls
<1>2. Unheard'
  BY SMTT(20) DEF Unheard, Quiet, Known, Over, Settled
<1>3. Creation'
  BY SMTT(20) DEF Creation, Over, Settled
<1>4. Rounds' /\ Draining'
  BY SMTT(20) DEF Rounds, Over, Settled, Draining
<1>5. Attaching' /\ NoBridgeLeak' /\ HistoryIsOver'
  BY SMTT(20) DEF Attaching, NoBridgeLeak, HistoryIsOver
<1> QED
  BY <1>1, <1>2, <1>3, <1>4, <1>5

\* The call taken up has no state, and nobody has heard of it.
LEMMA StartRequestInv ==
  ASSUME IInv, NEW t \in Workers, NEW o \in Operators, NEW c \in Calls,
         StartRequest(t, o, c)
  PROVE  IInv'
<1> USE SessionAssumption DEF IInv, StartRequest, Threads, At, callVars,
   recVars, bridgeVars, drainVars, TypeOK
<1> DEFINE f == [Idle EXCEPT !.who = o, !.then = "publish"]
           j == [f EXCEPT !.call = c, !.step = "create"]
<1>a. f \in Job /\ f.who = o /\ f.rounds = 0 /\ f.then = "publish" /\
     f.bridge = NoBridge /\ f.seen = NoRecord
  BY IdleIsJob DEF Job, Steps, Owners
<1>b. c \in Calls /\ "create" \in Steps
  BY DEF Calls, Steps
<1>c. job' = [job EXCEPT ![t] = j] /\ job[t].step = "idle"
  BY DEF Begin
<1> HIDE DEF f
<1>d. /\ j \in Job /\ j.call = c /\ j.step = "create" /\ j.who = f.who
     /\ j.seen = f.seen /\ j.rounds = f.rounds /\ j.then = f.then
     /\ j.bridge = f.bridge
  BY <1>a, <1>b DEF Job
<1> HIDE DEF j
<1>1. TypeOK'
  BY <1>a, <1>b, <1>c, <1>d, SMTT(20) DEF Calls
<1>2. Unheard'
  BY <1>a, <1>b, <1>c, <1>d, SMTT(20) DEF Unheard, Quiet, Known, Over, Settled
<1>3. Creation'
  BY <1>a, <1>b, <1>c, <1>d, SMTT(20) DEF Creation, Over, Settled
<1>4. Rounds' /\ Draining'
  BY <1>a, <1>b, <1>c, <1>d, SMTT(20) DEF Rounds, Over, Settled, Draining
<1>5. Attaching' /\ NoBridgeLeak' /\ HistoryIsOver'
  BY <1>a, <1>b, <1>c, <1>d, SMTT(20) DEF Attaching, NoBridgeLeak,
     HistoryIsOver
<1> QED
  BY <1>1, <1>2, <1>3, <1>4, <1>5

\* The call is in the registry from now on.
LEMMA CreateCallInv ==
  ASSUME IInv, NEW t \in Threads, CreateCall(t)
  PROVE  IInv'
<1> USE SessionAssumption DEF IInv, CreateCall, Threads, Goto, At, recVars,
   bridgeVars, drainVars, TypeOK
<1>1. TypeOK'
  BY SMTT(20) DEF Job, Steps
<1>2. Unheard'
  BY SMTT(20) DEF Unheard, Quiet, Known, Over, Settled
<1>3. Creation'
  BY SMTT(20) DEF Creation, Over, Settled
<1>4. Rounds' /\ Draining'
  BY SMTT(20) DEF Rounds, Over, Settled, Draining, Job
<1>5. Attaching' /\ NoBridgeLeak' /\ HistoryIsOver'
  BY SMTT(20) DEF Attaching, NoBridgeLeak, HistoryIsOver
<1> QED
  BY <1>1, <1>2, <1>3, <1>4, <1>5

\* From here on the call can be heard of; a failed offer leaves it initiating.
LEMMA StartCallInv == ASSUME IInv, NEW t \in Threads, StartCall(t) PROVE IInv'
<1> USE SessionAssumption DEF IInv, StartCall, Threads, Goto, At, recVars,
   bridgeVars, drainVars, TypeOK
<1>1. TypeOK'
  BY SMTT(20) DEF Job, Steps, After, CanApply, Target, LegalFrom, Transitions,
     CallStates, LiveStates
<1>2. Unheard'
  BY SMTT(20) DEF Unheard, Quiet, Known, Over, Settled, Creation, Rounds,
     Calls, Job, After, CanApply, Target, LegalFrom, Transitions, CallStates,
     LiveStates
<1>3. Creation'
  BY SMTT(20) DEF Unheard, Quiet, Known, Over, Settled, Creation, Calls, Job,
     After, CanApply, Target, LegalFrom, Transitions, CallStates, LiveStates
<1>4. Rounds' /\ Draining'
  BY SMTT(20) DEF Rounds, Unheard, Quiet, Over, Settled, Creation, NoRecord,
     Draining, Job, After, CanApply, Target, LegalFrom, Transitions,
     CallStates, LiveStates
<1>5. Attaching' /\ NoBridgeLeak' /\ HistoryIsOver'
  BY SMTT(20) DEF Attaching, Rounds, NoBridgeLeak, Steps, Calls, HistoryIsOver,
     Draining, Over, Settled, Creation, Job, After, CanApply, Target,
     LegalFrom, Transitions, CallStates, LiveStates
<1> QED
  BY <1>1, <1>2, <1>3, <1>4, <1>5

\* The record is inserted late when the call is over by now.
LEMMA PublishInv == ASSUME IInv, NEW t \in Threads, Publish(t) PROVE IInv'
<1> USE SessionAssumption DEF IInv, Publish, Threads, Finish, At, callVars,
   bridgeVars, drainVars, TypeOK, Upsert
<1>1. TypeOK'
  BY IdleIsJob, SMTT(20) DEF Job, Steps, Owners, Record, NoRecord, Statuses,
     Rounds
<1>2. Unheard'
  BY IdleIsJob, SMTT(20) DEF Unheard, Quiet, Known, Over, Settled
<1>3. Creation'
  BY IdleIsJob, SMTT(20) DEF Creation, Over, Settled
<1>4. Rounds' /\ Draining'
  BY IdleIsJob, SMTT(20) DEF Rounds, Over, Settled, Draining, Job
<1>5. Attaching' /\ NoBridgeLeak' /\ HistoryIsOver'
  BY IdleIsJob, SMTT(20) DEF Attaching, NoBridgeLeak, HistoryIsOver
<1> QED
  BY <1>1, <1>2, <1>3, <1>4, <1>5

\* An ended call puts its own removal ahead.
LEMMA EmitInv == ASSUME IInv, NEW t \in Threads, Emit(t) PROVE IInv'
<1> USE SessionAssumption DEF IInv, Emit, Threads, At, callVars, recVars,
   bridgeVars, drainVars, TypeOK, Onward, Finish
<1>1. TypeOK'
  BY IdleIsJob, SMTT(20) DEF Job, Steps
<1>2. Unheard'
  BY IdleIsJob, SMTT(20) DEF Unheard, Quiet, Known, Over, Settled, Creation,
     Rounds, Calls, Job
<1>3. Creation'
  BY IdleIsJob, SMTT(20) DEF Unheard, Quiet, Known, Over, Settled, Creation,
     Calls, Job
<1>4. Rounds' /\ Draining'
  BY IdleIsJob, SMTT(20) DEF Rounds, Over, Settled, Draining, Job
<1>5. Attaching' /\ NoBridgeLeak' /\ HistoryIsOver'
  BY IdleIsJob, SMTT(20) DEF Attaching, NoBridgeLeak, HistoryIsOver, Rounds,
     Over, Settled, Draining, Job
<1> QED
  BY <1>1, <1>2, <1>3, <1>4, <1>5

\* Only the copy of the record changes.
LEMMA ReadStateInv == ASSUME IInv, NEW t \in Threads, ReadState(t) PROVE IInv'
<1> USE SessionAssumption DEF IInv, ReadState, Threads, At, callVars, recVars,
   bridgeVars, drainVars, TypeOK
<1>1. TypeOK'
  BY SMTT(20) DEF Job, Steps
<1>2. Unheard'
  BY SMTT(20) DEF Unheard, Quiet, Known, Over, Settled
<1>3. Creation'
  BY SMTT(20) DEF Creation, Over, Settled
<1>4. Rounds' /\ Draining'
  BY SMTT(20) DEF Rounds, Over, Settled, Draining, Job
<1>5. Attaching' /\ NoBridgeLeak' /\ HistoryIsOver'
  BY SMTT(20) DEF Attaching, NoBridgeLeak, HistoryIsOver
<1> QED
  BY <1>1, <1>2, <1>3, <1>4, <1>5

\* The record is written whether or not the call is still there.
LEMMA PutInv == ASSUME IInv, NEW t \in Threads, Put(t) PROVE IInv'
<1> USE SessionAssumption DEF IInv, Put, Threads, At, callVars, bridgeVars,
   drainVars, TypeOK, Onward, Upsert, Finish
<1>1. TypeOK'
  BY IdleIsJob, SMTT(20) DEF Job, Steps
<1>2. Unheard'
  BY IdleIsJob, SMTT(20) DEF Unheard, Quiet, Known, Over, Settled, Creation,
     Rounds, Calls, Job
<1>3. Creation'
  BY IdleIsJob, SMTT(20) DEF Unheard, Quiet, Known, Over, Settled, Creation,
     Rounds, Draining, Calls, Job
<1>4. Rounds' /\ Draining'
  BY IdleIsJob, SMTT(20) DEF Rounds, Over, Settled, Draining, Job
<1>5. Attaching' /\ NoBridgeLeak' /\ HistoryIsOver'
  BY IdleIsJob, SMTT(20) DEF Attaching, NoBridgeLeak, HistoryIsOver, Rounds,
     Over, Settled, Draining, Job
<1> QED
  BY <1>1, <1>2, <1>3, <1>4, <1>5

\* A bridge that is closed here was attached to this call.
LEMMA ForgetInv == ASSUME IInv, NEW t \in Threads, Forget(t) PROVE IInv'
<1> USE SessionAssumption DEF IInv, Forget, Threads, Goto, At, recVars,
   drainVars, TypeOK, Remove, CloseBridge
<1>1. TypeOK'
  BY SMTT(20) DEF Job, Steps
<1>2. Unheard'
  BY SMTT(20) DEF Unheard, Quiet, Known, Over, Settled, Creation, Rounds,
     Calls, Job
<1>3. Creation'
  BY SMTT(20) DEF Unheard, Quiet, Known, Over, Settled, Creation, Calls, Job
<1>4. Rounds' /\ Draining'
  BY SMTT(20) DEF Rounds, Over, Settled, Draining, Job
<1>5. Attaching' /\ NoBridgeLeak' /\ HistoryIsOver'
  BY SMTT(20) DEF Attaching, NoBridgeLeak, HistoryIsOver
<1> QED
  BY <1>1, <1>2, <1>3, <1>4, <1>5

\* Rounds says that the call is over: its row is filed.
LEMMA EndRecordInv == ASSUME IInv, NEW t \in Threads, EndRecord(t) PROVE IInv'
<1> USE SessionAssumption DEF IInv, EndRecord, Threads, At, callVars,
   bridgeVars, drainVars, TypeOK, Onward, Finish
<1>1. TypeOK'
  BY IdleIsJob, SMTT(20) DEF Job, Steps
<1>2. Unheard'
  BY IdleIsJob, SMTT(20) DEF Unheard, Quiet, Known, Over, Settled, Creation,
     Rounds, Calls, Job
<1>3. Creation'
  BY IdleIsJob, SMTT(20) DEF Unheard, Quiet, Known, Over, Settled, Creation,
     Calls, Job
<1>4. Rounds' /\ Draining'
  BY IdleIsJob, SMTT(20) DEF Rounds, Over, Settled, Draining, Job
<1>5. Attaching' /\ NoBridgeLeak' /\ HistoryIsOver'
  BY IdleIsJob, SMTT(20) DEF Attaching, NoBridgeLeak, HistoryIsOver, Rounds,
     Over, Settled, Draining, Job
<1> QED
  BY <1>1, <1>2, <1>3, <1>4, <1>5

\* A call that failed to start is quiet, so it leaves nothing behind.
LEMMA AbandonInv == ASSUME IInv, NEW t \in Threads, Abandon(t) PROVE IInv'
<1> USE SessionAssumption DEF IInv, Abandon, Threads, Finish, At, recVars,
   drainVars, TypeOK, Remove, CloseBridge
<1>1. TypeOK'
  BY IdleIsJob, SMTT(20) DEF Job, Steps
<1>2. Unheard'
  BY IdleIsJob, SMTT(20) DEF Unheard, Quiet, Known, Over, Settled, Creation,
     Rounds, Calls, Job
<1>3. Creation'
  BY IdleIsJob, SMTT(20) DEF Creation, Over, Settled
<1>4. Rounds' /\ Draining'
  BY IdleIsJob, SMTT(20) DEF Rounds, Over, Settled, Draining, Job
<1>5. Attaching' /\ NoBridgeLeak' /\ HistoryIsOver'
  BY IdleIsJob, SMTT(20) DEF Attaching, NoBridgeLeak, HistoryIsOver
<1> QED
  BY <1>1, <1>2, <1>3, <1>4, <1>5

\* The event goroutine takes up a call nobody has heard of.
LEMMA OfferArrivesInv ==
  ASSUME IInv, NEW c \in Calls, OfferArrives(c)
  PROVE  IInv'
<1> USE SessionAssumption DEF IInv, OfferArrives, Threads, At, callVars,
   recVars, bridgeVars, drainVars, TypeOK
<1> DEFINE f == [Idle EXCEPT !.then = "auto"]
           j == [f EXCEPT !.call = c, !.step = "create"]
<1>a. f \in Job /\ f.who = NoOne /\ f.rounds = 0 /\ f.then = "auto" /\
     f.bridge = NoBridge /\ f.seen = NoRecord
  BY IdleIsJob DEF Job, Steps, Owners
<1>b. c \in Calls /\ "create" \in Steps
  BY DEF Calls, Steps
<1>c. job' = [job EXCEPT ![Sig] = j] /\ job[Sig].step = "idle"
  BY DEF Begin
<1> HIDE DEF f
<1>d. /\ j \in Job /\ j.call = c /\ j.step = "create" /\ j.who = f.who
     /\ j.seen = f.seen /\ j.rounds = f.rounds /\ j.then = f.then
     /\ j.bridge = f.bridge
  BY <1>a, <1>b DEF Job
<1> HIDE DEF j
<1>1. TypeOK'
  BY <1>a, <1>b, <1>c, <1>d, SMTT(20) DEF Calls
<1>2. Unheard'
  BY <1>a, <1>b, <1>c, <1>d, SMTT(20) DEF Unheard, Quiet, Known, Over, Settled
<1>3. Creation'
  BY <1>a, <1>b, <1>c, <1>d, SMTT(20) DEF Creation, Over, Settled
<1>4. Rounds' /\ Draining'
  BY <1>a, <1>b, <1>c, <1>d, SMTT(20) DEF Rounds, Over, Settled, Draining
<1>5. Attaching' /\ NoBridgeLeak' /\ HistoryIsOver'
  BY <1>a, <1>b, <1>c, <1>d, SMTT(20) DEF Attaching, NoBridgeLeak,
     HistoryIsOver
<1> QED
  BY <1>1, <1>2, <1>3, <1>4, <1>5

\* From here on the call can be heard of.
LEMMA HandleCallOfferInv ==
  ASSUME IInv, NEW t \in Threads, HandleCallOffer(t)
  PROVE  IInv'
<1> USE SessionAssumption DEF IInv, HandleCallOffer, Threads, Goto, At,
   recVars, bridgeVars, drainVars, TypeOK
<1>1. TypeOK'
  BY SMTT(20) DEF Job, Steps, After, CanApply, Target, LegalFrom, Transitions,
     CallStates, LiveStates
<1>2. Unheard'
  BY SMTT(20) DEF Unheard, Quiet, Known, Over, Settled, Creation, Rounds,
     Calls, Job, After, CanApply, Target, LegalFrom, Transitions, CallStates,
     LiveStates
<1>3. Creation'
  BY SMTT(20) DEF Creation, Over, Settled, After, CanApply, Target, LegalFrom,
     Transitions, CallStates, LiveStates
<1>4. Rounds' /\ Draining'
  BY SMTT(20) DEF Rounds, Unheard, Quiet, Over, Settled, Creation, NoRecord,
     Draining, Job, After, CanApply, Target, LegalFrom, Transitions,
     CallStates, LiveStates
<1>5. Attaching' /\ NoBridgeLeak' /\ HistoryIsOver'
  BY SMTT(20) DEF Attaching, Rounds, NoBridgeLeak, Steps, Calls, HistoryIsOver,
     Draining, Over, Settled, Creation, Job, After, CanApply, Target,
     LegalFrom, Transitions, CallStates, LiveStates
<1> QED
  BY <1>1, <1>2, <1>3, <1>4, <1>5

\* The record of a call that is in the registry, or over.
LEMMA OnIncomingInv ==
  ASSUME IInv, NEW t \in Threads, OnIncoming(t)
  PROVE  IInv'
<1> USE SessionAssumption DEF IInv, OnIncoming, Threads, Goto, At, callVars,
   bridgeVars, drainVars, TypeOK, Upsert
<1>1. TypeOK'
  BY SMTT(20) DEF Job, Steps, Owners, Record, NoRecord, Statuses, Rounds
<1>2. Unheard'
  BY SMTT(20) DEF Unheard, Quiet, Known, Over, Settled
<1>3. Creation'
  BY SMTT(20) DEF Creation, Over, Settled
<1>4. Rounds' /\ Draining'
  BY SMTT(20) DEF Rounds, Over, Settled, Draining, Job
<1>5. Attaching' /\ NoBridgeLeak' /\ HistoryIsOver'
  BY SMTT(20) DEF Attaching, NoBridgeLeak, HistoryIsOver
<1> QED
  BY <1>1, <1>2, <1>3, <1>4, <1>5

\* autoDue holds calls that were received.
LEMMA OfferHandledInv ==
  ASSUME IInv, NEW t \in Threads, OfferHandled(t)
  PROVE  IInv'
<1> USE SessionAssumption DEF IInv, OfferHandled, Threads, Finish, At,
   callVars, recVars, bridgeVars, TypeOK
<1>1. TypeOK'
  BY IdleIsJob, SMTT(20) DEF Job, Steps, Owners, Record, NoRecord, Statuses,
     Rounds, mapStatus, Attaching, Creation, Calls
<1>2. Unheard'
  BY IdleIsJob, SMTT(20) DEF Unheard, Quiet, Known, Over, Settled
<1>3. Creation'
  BY IdleIsJob, SMTT(20) DEF Creation, Over, Settled
<1>4. Rounds' /\ Draining'
  BY IdleIsJob, SMTT(20) DEF Rounds, Over, Settled, Draining, Job
<1>5. Attaching' /\ NoBridgeLeak' /\ HistoryIsOver'
  BY IdleIsJob, SMTT(20) DEF Attaching, NoBridgeLeak, HistoryIsOver
<1> QED
  BY <1>1, <1>2, <1>3, <1>4, <1>5

\* The call is in the registry and has a state.
LEMMA PeerAcceptsInv ==
  ASSUME IInv, NEW c \in Calls, PeerAccepts(c)
  PROVE  IInv'
<1> USE SessionAssumption DEF IInv, PeerAccepts, Threads, At, recVars,
   bridgeVars, drainVars, TypeOK
<1> DEFINE f == Idle
           j == [f EXCEPT !.call = c, !.step = "emit"]
<1>a. f \in Job /\ f.who = NoOne /\ f.rounds = 0 /\ f.then = "idle" /\
     f.bridge = NoBridge /\ f.seen = NoRecord
  BY IdleIsJob DEF Job, Steps, Owners
<1>b. c \in Calls /\ "emit" \in Steps
  BY DEF Calls, Steps
<1>c. job' = [job EXCEPT ![Sig] = j] /\ job[Sig].step = "idle"
  BY DEF Begin
<1> HIDE DEF f
<1>d. /\ j \in Job /\ j.call = c /\ j.step = "emit" /\ j.who = f.who
     /\ j.seen = f.seen /\ j.rounds = f.rounds /\ j.then = f.then
     /\ j.bridge = f.bridge
  BY <1>a, <1>b DEF Job
<1> HIDE DEF j
<1>1. TypeOK'
  BY <1>a, <1>b, <1>c, <1>d, SMTT(20) DEF Calls, After, CanApply, Target,
     LegalFrom, Transitions, CallStates, LiveStates
<1>2. Unheard'
  BY <1>a, <1>b, <1>c, <1>d, SMTT(20) DEF Unheard, Quiet, Known, Over, Settled,
     After, CanApply, Target, LegalFrom, Transitions, CallStates, LiveStates
<1>3. Creation'
  BY <1>a, <1>b, <1>c, <1>d, SMTT(20) DEF Creation, Over, Settled, After,
     CanApply, Target, LegalFrom, Transitions, CallStates, LiveStates
<1>4. Rounds' /\ Draining'
  BY <1>a, <1>b, <1>c, <1>d, SMTT(20) DEF Rounds, Over, Settled, Draining,
     After, CanApply, Target, LegalFrom, Transitions, CallStates, LiveStates
<1>5. Attaching' /\ NoBridgeLeak' /\ HistoryIsOver'
  BY <1>a, <1>b, <1>c, <1>d, SMTT(20) DEF Attaching, NoBridgeLeak,
     HistoryIsOver, Rounds, Over, Settled, Draining, After, CanApply, Target,
     LegalFrom, Transitions, CallStates, LiveStates
<1> QED
  BY <1>1, <1>2, <1>3, <1>4, <1>5

\* The call ends with this step, so its removal may be ahead.
LEMMA PeerTerminatesInv ==
  ASSUME IInv, NEW c \in Calls, PeerTerminates(c)
  PROVE  IInv'
<1> USE SessionAssumption DEF IInv, PeerTerminates, Threads, At, recVars,
   bridgeVars, drainVars, TypeOK
<1> DEFINE f == [Idle EXCEPT !.rounds = 1]
           j == [f EXCEPT !.call = c, !.step = "emit"]
<1>a. f \in Job /\ f.who = NoOne /\ f.rounds = 1 /\ f.then = "idle" /\
     f.bridge = NoBridge /\ f.seen = NoRecord
  BY IdleIsJob DEF Job, Steps, Owners
<1>b. c \in Calls /\ "emit" \in Steps
  BY DEF Calls, Steps
<1>c. job' = [job EXCEPT ![Sig] = j] /\ job[Sig].step = "idle"
  BY DEF Begin
<1> HIDE DEF f
<1>d. /\ j \in Job /\ j.call = c /\ j.step = "emit" /\ j.who = f.who
     /\ j.seen = f.seen /\ j.rounds = f.rounds /\ j.then = f.then
     /\ j.bridge = f.bridge
  BY <1>a, <1>b DEF Job
<1> HIDE DEF j
<1>1. TypeOK'
  BY <1>a, <1>b, <1>c, <1>d, SMTT(20) DEF Calls, After, CanApply, Target,
     LegalFrom, Transitions, CallStates, LiveStates
<1>2. Unheard'
  BY <1>a, <1>b, <1>c, <1>d, SMTT(20) DEF Unheard, Quiet, Known, Over, Settled,
     After, CanApply, Target, LegalFrom, Transitions, CallStates, LiveStates
<1>3. Creation'
  BY <1>a, <1>b, <1>c, <1>d, SMTT(20) DEF Creation, Over, Settled, After,
     CanApply, Target, LegalFrom, Transitions, CallStates, LiveStates
<1>4. Rounds' /\ Draining'
  BY <1>a, <1>b, <1>c, <1>d, SMTT(20) DEF Rounds, Over, Settled, Draining,
     After, CanApply, Target, LegalFrom, Transitions, CallStates, LiveStates
<1>5. Attaching' /\ NoBridgeLeak' /\ HistoryIsOver'
  BY <1>a, <1>b, <1>c, <1>d, SMTT(20) DEF Attaching, NoBridgeLeak,
     HistoryIsOver, Rounds, Over, Settled, Draining, After, CanApply, Target,
     LegalFrom, Transitions, CallStates, LiveStates
<1> QED
  BY <1>1, <1>2, <1>3, <1>4, <1>5

\* A call with a record is in the registry or over.
LEMMA AcceptRequestInv ==
  ASSUME IInv, NEW t \in Workers, NEW o \in Operators, NEW c \in Calls,
         AcceptRequest(t, o, c)
  PROVE  IInv'
<1> DEFINE f == [Idle EXCEPT !.who = o]
           j == [f EXCEPT !.call = c, !.step = "own"]
<1>a. f \in Job /\ f.rounds = 0 /\ f.then = "idle"
  BY IdleIsJob DEF Job, Steps, Owners
<1>b. c \in Calls /\ "own" \in Steps
  BY DEF IInv, TypeOK, Calls, Steps
<1>c. /\ job' = [job EXCEPT ![t] = j] /\ job[t].step = "idle"
     /\ UNCHANGED <<callVars, recVars, bridgeVars, drainVars>>
  BY DEF AcceptRequest, Begin, At
<1> HIDE DEF f
<1>d. /\ j \in Job /\ j.call = c /\ j.step = "own"
     /\ j.rounds = f.rounds /\ j.then = f.then
  BY <1>a, <1>b DEF Job
<1>e. t \in Threads /\ ~Quiet(c)
  BY DEF AcceptRequest, IInv, Unheard, Quiet, Known, TypeOK, Threads
<1> HIDE DEF j
<1> QED
  BY <1>a, <1>b, <1>c, <1>d, <1>e, TakeUp

\* Awake, it either goes back to sleep for good or takes the call up.
LEMMA AutoAnswerWakesInv ==
  ASSUME IInv, NEW t \in Workers, NEW c \in Calls, NEW delayed \in BOOLEAN,
         AutoAnswerWakes(t, c, delayed)
  PROVE  IInv'
<1> USE SessionAssumption DEF IInv, AutoAnswerWakes, Threads, At, callVars,
   recVars, bridgeVars, TypeOK
<1>1. CASE UNCHANGED job
  <2>1. TypeOK'
    BY <1>1, SMTT(20) DEF Job, Steps
  <2>2. Unheard'
    BY <1>1, SMTT(20) DEF Unheard, Quiet, Known, Over, Settled
  <2>3. Creation'
    BY <1>1, SMTT(20) DEF Creation, Over, Settled
  <2>4. Rounds' /\ Draining'
    BY <1>1, SMTT(20) DEF Rounds, Over, Settled, Draining
  <2>5. Attaching' /\ NoBridgeLeak' /\ HistoryIsOver'
    BY <1>1, SMTT(20) DEF Attaching, NoBridgeLeak, HistoryIsOver
  <2> QED
    BY <2>1, <2>2, <2>3, <2>4, <2>5
<1>2. CASE Begin(t, c, "own", [Idle EXCEPT !.who = Server])
  <2> DEFINE f == [Idle EXCEPT !.who = Server]
             j == [f EXCEPT !.call = c, !.step = "own"]
  <2>a. f \in Job /\ f.who = Server /\ f.rounds = 0 /\ f.then = "idle" /\
       f.bridge = NoBridge /\ f.seen = NoRecord
    BY IdleIsJob DEF Job, Steps, Owners
  <2>b. c \in Calls /\ "own" \in Steps
    BY DEF Calls, Steps
  <2>c. job' = [job EXCEPT ![t] = j] /\ job[t].step = "idle"
    BY <1>2 DEF Begin
  <2> HIDE DEF f
  <2>d. /\ j \in Job /\ j.call = c /\ j.step = "own" /\ j.who = f.who
       /\ j.seen = f.seen /\ j.rounds = f.rounds /\ j.then = f.then
       /\ j.bridge = f.bridge
    BY <2>a, <2>b DEF Job
  <2> HIDE DEF j
  <2>1. TypeOK'
    BY <1>2, <2>a, <2>b, <2>c, <2>d, SMTT(20) DEF Calls
  <2>2. Unheard'
    BY <1>2, <2>a, <2>b, <2>c, <2>d, SMTT(20) DEF Unheard, Quiet, Known, Over,
       Settled
  <2>3. Creation'
    BY <1>2, <2>a, <2>b, <2>c, <2>d, SMTT(20) DEF Creation, Over, Settled
  <2>4. Rounds' /\ Draining'
    BY <1>2, <2>a, <2>b, <2>c, <2>d, SMTT(20) DEF Rounds, Over, Settled,
       Draining
  <2>5. Attaching' /\ NoBridgeLeak' /\ HistoryIsOver'
    BY <1>2, <2>a, <2>b, <2>c, <2>d, SMTT(20) DEF Attaching, NoBridgeLeak,
       HistoryIsOver
  <2> QED
    BY <2>1, <2>2, <2>3, <2>4, <2>5
<1> QED
  BY <1>1, <1>2

\* A record that is there changes its owner.
LEMMA SetOwnerInv == ASSUME IInv, NEW t \in Threads, SetOwner(t) PROVE IInv'
<1> USE SessionAssumption DEF IInv, SetOwner, Threads, Goto, Finish, At,
   callVars, bridgeVars, drainVars, TypeOK
<1>1. TypeOK'
  BY IdleIsJob, SMTT(20) DEF Job, Steps, Owners, Record, NoRecord, Statuses,
     Rounds
<1>2. Unheard'
  BY IdleIsJob, SMTT(20) DEF Unheard, Quiet, Known, Over, Settled, Creation,
     Rounds, Calls, Job
<1>3. Creation'
  BY IdleIsJob, SMTT(20) DEF Unheard, Quiet, Known, Over, Settled, Creation,
     Calls, Job
<1>4. Rounds' /\ Draining'
  BY IdleIsJob, SMTT(20) DEF Rounds, Over, Settled, Draining, Job
<1>5. Attaching' /\ NoBridgeLeak' /\ HistoryIsOver'
  BY IdleIsJob, SMTT(20) DEF Attaching, NoBridgeLeak, HistoryIsOver, Rounds,
     Over, Settled, Draining, Job
<1> QED
  BY <1>1, <1>2, <1>3, <1>4, <1>5

\* A refused accept leaves the call as it was.
LEMMA AcceptCallInv ==
  ASSUME IInv, NEW t \in Threads, AcceptCall(t)
  PROVE  IInv'
<1> USE SessionAssumption DEF IInv, AcceptCall, Threads, Finish, At, recVars,
   bridgeVars, drainVars, TypeOK
<1>1. TypeOK'
  BY IdleIsJob, SMTT(20) DEF Job, Steps, After, CanApply, Target, LegalFrom,
     Transitions, CallStates, LiveStates
<1>2. Unheard'
  BY IdleIsJob, SMTT(20) DEF Unheard, Quiet, Known, Over, Settled, Creation,
     Rounds, Calls, Job, After, CanApply, Target, LegalFrom, Transitions,
     CallStates, LiveStates
<1>3. Creation'
  BY IdleIsJob, SMTT(20) DEF Unheard, Quiet, Known, Over, Settled, Creation,
     Calls, Job, After, CanApply, Target, LegalFrom, Transitions, CallStates,
     LiveStates
<1>4. Rounds' /\ Draining'
  BY IdleIsJob, SMTT(20) DEF Rounds, Over, Settled, Draining, Job, After,
     CanApply, Target, LegalFrom, Transitions, CallStates, LiveStates
<1>5. Attaching' /\ NoBridgeLeak' /\ HistoryIsOver'
  BY IdleIsJob, SMTT(20) DEF Attaching, NoBridgeLeak, HistoryIsOver, Rounds,
     Over, Settled, Draining, Job, After, CanApply, Target, LegalFrom,
     Transitions, CallStates, LiveStates
<1> QED
  BY <1>1, <1>2, <1>3, <1>4, <1>5

\* A connecting call has a state, so it is not quiet.
LEMMA RelayConnectsInv ==
  ASSUME IInv, NEW t \in Workers, NEW c \in Calls, RelayConnects(t, c)
  PROVE  IInv'
<1> USE SessionAssumption DEF IInv, RelayConnects, Threads, At, recVars,
   bridgeVars, drainVars, TypeOK
<1> DEFINE f == Idle
           j == [f EXCEPT !.call = c, !.step = "emit"]
<1>a. f \in Job /\ f.who = NoOne /\ f.rounds = 0 /\ f.then = "idle" /\
     f.bridge = NoBridge /\ f.seen = NoRecord
  BY IdleIsJob DEF Job, Steps, Owners
<1>b. c \in Calls /\ "emit" \in Steps
  BY DEF Calls, Steps
<1>c. job' = [job EXCEPT ![t] = j] /\ job[t].step = "idle"
  BY DEF Begin
<1> HIDE DEF f
<1>d. /\ j \in Job /\ j.call = c /\ j.step = "emit" /\ j.who = f.who
     /\ j.seen = f.seen /\ j.rounds = f.rounds /\ j.then = f.then
     /\ j.bridge = f.bridge
  BY <1>a, <1>b DEF Job
<1> HIDE DEF j
<1>1. TypeOK'
  BY <1>a, <1>b, <1>c, <1>d, SMTT(20) DEF Calls, After, CanApply, Target,
     LegalFrom, Transitions, CallStates, LiveStates
<1>2. Unheard'
  BY <1>a, <1>b, <1>c, <1>d, SMTT(20) DEF Unheard, Quiet, Known, Over, Settled,
     After, CanApply, Target, LegalFrom, Transitions, CallStates, LiveStates
<1>3. Creation'
  BY <1>a, <1>b, <1>c, <1>d, SMTT(20) DEF Creation, Over, Settled, After,
     CanApply, Target, LegalFrom, Transitions, CallStates, LiveStates
<1>4. Rounds' /\ Draining'
  BY <1>a, <1>b, <1>c, <1>d, SMTT(20) DEF Rounds, Over, Settled, Draining,
     After, CanApply, Target, LegalFrom, Transitions, CallStates, LiveStates
<1>5. Attaching' /\ NoBridgeLeak' /\ HistoryIsOver'
  BY <1>a, <1>b, <1>c, <1>d, SMTT(20) DEF Attaching, NoBridgeLeak,
     HistoryIsOver
<1> QED
  BY <1>1, <1>2, <1>3, <1>4, <1>5

\* A known call is in the registry, to be ended, or over.
LEMMA EndRequestInv ==
  ASSUME IInv, NEW t \in Workers, NEW c \in Calls, EndRequest(t, c)
  PROVE  IInv'
<1>a. t \in Threads /\ ~Quiet(c)
  BY DEF EndRequest, IInv, Unheard, Quiet, Known, TypeOK, Threads
<1>1. CASE c \in reg
  <2> DEFINE f == [Idle EXCEPT !.rounds = 2]
             j == [f EXCEPT !.call = c, !.step = "end"]
  <2>a. f \in Job /\ f.rounds = 2 /\ f.then = "idle"
    BY IdleIsJob DEF Job, Steps, Owners
  <2>b. c \in Calls /\ "end" \in Steps
    BY DEF IInv, TypeOK, Calls, Steps
  <2>c. /\ job' = [job EXCEPT ![t] = j] /\ job[t].step = "idle"
       /\ UNCHANGED <<callVars, recVars, bridgeVars, drainVars>>
    BY <1>1 DEF EndRequest, Begin, At
  <2> HIDE DEF f
  <2>d. /\ j \in Job /\ j.call = c /\ j.step = "end"
       /\ j.rounds = f.rounds /\ j.then = f.then
    BY <2>a, <2>b DEF Job
  <2> HIDE DEF j
  <2> QED
    BY <1>a, <2>a, <2>b, <2>c, <2>d, TakeUp
<1>2. CASE c \notin reg
  <2> DEFINE f == [Idle EXCEPT !.rounds = 1]
             j == [f EXCEPT !.call = c, !.step = "forget"]
  <2>a. f \in Job /\ f.rounds = 1 /\ f.then = "idle"
    BY IdleIsJob DEF Job, Steps, Owners
  <2>b. c \in Calls /\ "forget" \in Steps
    BY DEF IInv, TypeOK, Calls, Steps
  <2>c. /\ job' = [job EXCEPT ![t] = j] /\ job[t].step = "idle"
       /\ UNCHANGED <<callVars, recVars, bridgeVars, drainVars>>
    BY <1>2 DEF EndRequest, Begin, At
  <2> HIDE DEF f
  <2>d. /\ j \in Job /\ j.call = c /\ j.step = "forget"
       /\ j.rounds = f.rounds /\ j.then = f.then
    BY <2>a, <2>b DEF Job
  <2>e. Over(c)
    BY <1>a, <1>2 DEF IInv, Unheard
  <2> HIDE DEF j
  <2> QED
    BY <1>a, <2>a, <2>b, <2>c, <2>d, <2>e, TakeUp
<1> QED
  BY <1>1, <1>2

\* The rejection ends the call or lets it go.
LEMMA RejectRequestInv ==
  ASSUME IInv, NEW t \in Workers, NEW c \in Calls, RejectRequest(t, c)
  PROVE  IInv'
<1> USE SessionAssumption DEF IInv, RejectRequest, Threads, At, recVars,
   bridgeVars, TypeOK
<1>1. CASE c \in reg
  <2> DEFINE f == [Idle EXCEPT !.rounds = 1]
             j == [f EXCEPT !.call = c, !.step = "emit"]
  <2>a. f \in Job /\ f.who = NoOne /\ f.rounds = 1 /\ f.then = "idle" /\
       f.bridge = NoBridge /\ f.seen = NoRecord
    BY IdleIsJob DEF Job, Steps, Owners
  <2>b. c \in Calls /\ "emit" \in Steps
    BY DEF Calls, Steps
  <2>c. job' = [job EXCEPT ![t] = j] /\ job[t].step = "idle"
    BY <1>1 DEF Begin
  <2> HIDE DEF f
  <2>d. /\ j \in Job /\ j.call = c /\ j.step = "emit" /\ j.who = f.who
       /\ j.seen = f.seen /\ j.rounds = f.rounds /\ j.then = f.then
       /\ j.bridge = f.bridge
    BY <2>a, <2>b DEF Job
  <2> HIDE DEF j
  <2>1. TypeOK'
    BY <1>1, <2>a, <2>b, <2>c, <2>d, SMTT(20) DEF Calls, After, CanApply,
       Target, LegalFrom, Transitions, CallStates, LiveStates
  <2>2. Unheard'
    BY <1>1, <2>a, <2>b, <2>c, <2>d, SMTT(20) DEF Unheard, Quiet, Known, Over,
       Settled, After, CanApply, Target, LegalFrom, Transitions, CallStates,
       LiveStates
  <2>3. Creation'
    BY <1>1, <2>a, <2>b, <2>c, <2>d, SMTT(20) DEF Creation, Over, Settled,
       After, CanApply, Target, LegalFrom, Transitions, CallStates, LiveStates
  <2>4. Rounds' /\ Draining'
    BY <1>1, <2>a, <2>b, <2>c, <2>d, SMTT(20) DEF Rounds, Over, Settled,
       Draining, After, CanApply, Target, LegalFrom, Transitions, CallStates,
       LiveStates
  <2>5. Attaching' /\ NoBridgeLeak' /\ HistoryIsOver'
    BY <1>1, <2>a, <2>b, <2>c, <2>d, SMTT(20) DEF Attaching, NoBridgeLeak,
       HistoryIsOver
  <2> QED
    BY <2>1, <2>2, <2>3, <2>4, <2>5
<1>2. CASE c \notin reg
  <2> DEFINE f == [Idle EXCEPT !.rounds = 1]
             j == [f EXCEPT !.call = c, !.step = "forget"]
  <2>a. f \in Job /\ f.who = NoOne /\ f.rounds = 1 /\ f.then = "idle" /\
       f.bridge = NoBridge /\ f.seen = NoRecord
    BY IdleIsJob DEF Job, Steps, Owners
  <2>b. c \in Calls /\ "forget" \in Steps
    BY DEF Calls, Steps
  <2>c. job' = [job EXCEPT ![t] = j] /\ job[t].step = "idle"
    BY <1>2 DEF Begin
  <2> HIDE DEF f
  <2>d. /\ j \in Job /\ j.call = c /\ j.step = "forget" /\ j.who = f.who
       /\ j.seen = f.seen /\ j.rounds = f.rounds /\ j.then = f.then
       /\ j.bridge = f.bridge
    BY <2>a, <2>b DEF Job
  <2> HIDE DEF j
  <2>1. TypeOK'
    BY <1>2, <2>a, <2>b, <2>c, <2>d, SMTT(20) DEF Calls, After, CanApply,
       Target, LegalFrom, Transitions, CallStates, LiveStates
  <2>2. Unheard'
    BY <1>2, <2>a, <2>b, <2>c, <2>d, SMTT(20) DEF Unheard, Quiet, Known, Over,
       Settled, After, CanApply, Target, LegalFrom, Transitions, CallStates,
       LiveStates
  <2>3. Creation'
    BY <1>2, <2>a, <2>b, <2>c, <2>d, SMTT(20) DEF Creation, Over, Settled,
       After, CanApply, Target, LegalFrom, Transitions, CallStates, LiveStates
  <2>4. Rounds' /\ Draining'
    BY <1>2, <2>a, <2>b, <2>c, <2>d, SMTT(20) DEF Rounds, Unheard, Quiet, Over,
       Settled, Creation, NoRecord, Draining, After, CanApply, Target,
       LegalFrom, Transitions, CallStates, LiveStates
  <2>5. Attaching' /\ NoBridgeLeak' /\ HistoryIsOver'
    BY <1>2, <2>a, <2>b, <2>c, <2>d, SMTT(20) DEF Attaching, NoBridgeLeak,
       HistoryIsOver
  <2> QED
    BY <2>1, <2>2, <2>3, <2>4, <2>5
<1> QED
  BY <1>1, <1>2

\* The bridge was made for a call that can be heard of.
LEMMA OnTerminalICEInv ==
  ASSUME IInv, NEW t \in Workers, NEW b \in Bridges, OnTerminalICE(t, b)
  PROVE  IInv'
<1> DEFINE f == [Idle EXCEPT !.rounds = 1]
           j == [f EXCEPT !.call = of[b], !.step = "end"]
<1>a. f \in Job /\ f.rounds = 1 /\ f.then = "idle"
  BY IdleIsJob DEF Job, Steps, Owners
<1>b. of[b] \in Calls /\ "end" \in Steps
  BY DEF IInv, TypeOK, OnTerminalICE, Calls, Steps
<1>c. /\ job' = [job EXCEPT ![t] = j] /\ job[t].step = "idle"
     /\ UNCHANGED <<callVars, recVars, bridgeVars, drainVars>>
  BY DEF OnTerminalICE, Begin, At
<1> HIDE DEF f
<1>d. /\ j \in Job /\ j.call = of[b] /\ j.step = "end"
     /\ j.rounds = f.rounds /\ j.then = f.then
  BY <1>a, <1>b DEF Job
<1>e. t \in Threads /\ ~Quiet(of[b])
  BY DEF OnTerminalICE, IInv, Unheard, Quiet, Known, TypeOK, Threads
<1> HIDE DEF j
<1> QED
  BY <1>a, <1>b, <1>c, <1>d, <1>e, TakeUp

\* An active call has a state, so it is not quiet.
LEMMA KeepaliveExpiresInv ==
  ASSUME IInv, NEW t \in Workers, NEW c \in Calls, KeepaliveExpires(t, c)
  PROVE  IInv'
<1> DEFINE f == [Idle EXCEPT !.rounds = 1]
           j == [f EXCEPT !.call = c, !.step = "end"]
<1>a. f \in Job /\ f.rounds = 1 /\ f.then = "idle"
  BY IdleIsJob DEF Job, Steps, Owners
<1>b. c \in Calls /\ "end" \in Steps
  BY DEF IInv, TypeOK, Calls, Steps
<1>c. /\ job' = [job EXCEPT ![t] = j] /\ job[t].step = "idle"
     /\ UNCHANGED <<callVars, recVars, bridgeVars, drainVars>>
  BY DEF KeepaliveExpires, Begin, At
<1> HIDE DEF f
<1>d. /\ j \in Job /\ j.call = c /\ j.step = "end"
     /\ j.rounds = f.rounds /\ j.then = f.then
  BY <1>a, <1>b DEF Job
<1>e. t \in Threads /\ ~Quiet(c)
  BY DEF KeepaliveExpires, IInv, Unheard, Quiet, Known, TypeOK, Threads
<1> HIDE DEF j
<1> QED
  BY <1>a, <1>b, <1>c, <1>d, <1>e, TakeUp

\* The call ends, unless it has already, or has no state yet.
LEMMA EndCallInv == ASSUME IInv, NEW t \in Threads, EndCall(t) PROVE IInv'
<1> USE SessionAssumption DEF IInv, EndCall, Threads, Goto, At, recVars,
   bridgeVars, TypeOK, Onward, Finish
<1>1. CASE CanApply(st[job[t].call], "terminated")
  <2>1. TypeOK'
    BY <1>1, SMTT(20) DEF Job, Steps, After, CanApply, Target, LegalFrom,
       Transitions, CallStates, LiveStates
  <2>2. Unheard'
    BY <1>1, SMTT(20) DEF Unheard, Quiet, Known, Over, Settled, Creation,
       Rounds, Calls, Job, After, CanApply, Target, LegalFrom, Transitions,
       CallStates, LiveStates
  <2>3. Creation'
    BY <1>1, SMTT(20) DEF Unheard, Quiet, Known, Over, Settled, Creation,
       Calls, Job, After, CanApply, Target, LegalFrom, Transitions, CallStates,
       LiveStates
  <2>4. Rounds' /\ Draining'
    BY <1>1, SMTT(20) DEF Rounds, Over, Settled, Draining, Job, After,
       CanApply, Target, LegalFrom, Transitions, CallStates, LiveStates
  <2>5. Attaching' /\ NoBridgeLeak' /\ HistoryIsOver'
    BY <1>1, SMTT(20) DEF Attaching, NoBridgeLeak, HistoryIsOver, Rounds, Over,
       Settled, Draining, Job, After, CanApply, Target, LegalFrom, Transitions,
       CallStates, LiveStates
  <2> QED
    BY <2>1, <2>2, <2>3, <2>4, <2>5
<1>2. CASE ~CanApply(st[job[t].call], "terminated") /\ job[t].rounds > 1
  <2>1. TypeOK'
    BY <1>2, SMTT(20) DEF Job, Steps, After, CanApply, Target, LegalFrom,
       Transitions, CallStates, LiveStates
  <2>2. Unheard'
    BY <1>2, SMTT(20) DEF Unheard, Quiet, Known, Over, Settled, Creation,
       Rounds, Calls, Job, After, CanApply, Target, LegalFrom, Transitions,
       CallStates, LiveStates
  <2>3. Creation'
    BY <1>2, SMTT(20) DEF Unheard, Quiet, Known, Over, Settled, Creation,
       Calls, Job, After, CanApply, Target, LegalFrom, Transitions, CallStates,
       LiveStates
  <2>4. Rounds' /\ Draining'
    BY <1>2, SMTT(20) DEF Rounds, Over, Settled, Draining, Job, After,
       CanApply, Target, LegalFrom, Transitions, CallStates, LiveStates
  <2>5. Attaching' /\ NoBridgeLeak' /\ HistoryIsOver'
    BY <1>2, SMTT(20) DEF Attaching, NoBridgeLeak, HistoryIsOver, Rounds, Over,
       Settled, Draining, Job, After, CanApply, Target, LegalFrom, Transitions,
       CallStates, LiveStates
  <2> QED
    BY <2>1, <2>2, <2>3, <2>4, <2>5
<1>3. CASE ~CanApply(st[job[t].call], "terminated") /\ ~(job[t].rounds > 1)
  <2>1. TypeOK'
    BY <1>3, IdleIsJob, SMTT(20) DEF Job, Steps, After, CanApply, Target,
       LegalFrom, Transitions, CallStates, LiveStates
  <2>2. Unheard'
    BY <1>3, IdleIsJob, SMTT(20) DEF Unheard, Quiet, Known, Over, Settled,
       Creation, Rounds, Calls, Job, After, CanApply, Target, LegalFrom,
       Transitions, CallStates, LiveStates
  <2>3. Creation'
    BY <1>3, IdleIsJob, SMTT(20) DEF Unheard, Quiet, Known, Over, Settled,
       Creation, Calls, Job, After, CanApply, Target, LegalFrom, Transitions,
       CallStates, LiveStates
  <2>4. Rounds' /\ Draining'
    BY <1>3, IdleIsJob, SMTT(20) DEF Rounds, Over, Settled, Draining, Job,
       After, CanApply, Target, LegalFrom, Transitions, CallStates, LiveStates
  <2>5. Attaching' /\ NoBridgeLeak' /\ HistoryIsOver'
    BY <1>3, IdleIsJob, SMTT(20) DEF Attaching, NoBridgeLeak, HistoryIsOver,
       Rounds, Over, Settled, Draining, Job, After, CanApply, Target,
       LegalFrom, Transitions, CallStates, LiveStates
  <2> QED
    BY <2>1, <2>2, <2>3, <2>4, <2>5
<1> QED
  BY <1>1, <1>2, <1>3

\* What leaves the registry is in the batch.
LEMMA DrainInv == ASSUME IInv, NEW t \in Workers, Drain(t) PROVE IInv'
<1> USE SessionAssumption DEF IInv, Drain, Threads, Goto, At, recVars,
   bridgeVars, TypeOK
<1>1. TypeOK'
  BY SMTT(20) DEF Job, Steps
<1>2. Unheard'
  BY SMTT(20) DEF Unheard, Quiet, Known, Over, Settled
<1>3. Creation'
  BY SMTT(20) DEF Creation, Over, Settled
<1>4. Rounds' /\ Draining'
  BY SMTT(20) DEF Rounds, Over, Settled, Draining, Job
<1>5. Attaching' /\ NoBridgeLeak' /\ HistoryIsOver'
  BY SMTT(20) DEF Attaching, NoBridgeLeak, HistoryIsOver
<1> QED
  BY <1>1, <1>2, <1>3, <1>4, <1>5

\* A call of the batch is taken up, or the batch is empty.
LEMMA DrainNextInv == ASSUME IInv, NEW t \in Threads, DrainNext(t) PROVE IInv'
<1> USE SessionAssumption DEF IInv, Threads, Finish, At, callVars, recVars,
   bridgeVars, drainVars, TypeOK
<1> DEFINE J(c) == [Idle EXCEPT !.step = "end", !.call = c, !.rounds = 1,
                                !.then = "drained"]
<1> HIDE DEF TypeOK, IInv, Threads
<1>a. ASSUME NEW c \in Calls
      PROVE  /\ J(c) \in Job /\ J(c).call = c /\ J(c).step = "end"
             /\ J(c).rounds = 1 /\ J(c).then = "drained"
             /\ J(c).bridge = NoBridge
  <2> DEFINE f == [Idle EXCEPT !.step = "end", !.call = c]
             g == [f EXCEPT !.rounds = 1]
             j == [g EXCEPT !.then = "drained"]
  <2>1. f \in Job /\ f.call = c /\ f.step = "end" /\ f.bridge = NoBridge
    BY IdleIsJob DEF Job, Steps
  <2> HIDE DEF f
  <2>2. /\ g \in Job /\ g.call = c /\ g.step = "end" /\ g.bridge = NoBridge
        /\ g.rounds = 1
    BY <2>1 DEF Job
  <2> HIDE DEF g
  <2>3. /\ j \in Job /\ j.call = c /\ j.step = "end" /\ j.bridge = NoBridge
        /\ j.rounds = 1 /\ j.then = "drained"
    BY <2>2 DEF Job, Steps
  <2>4. J(c) = j
    BY DEF f, g
  <2> QED
    BY <2>3, <2>4
<1>b. \/ batch = {} /\ Finish(t)
      \/ \E c \in batch : job' = [job EXCEPT ![t] = J(c)]
  BY DEF DrainNext
<1>c. /\ job[t].step = "drain"
      /\ UNCHANGED <<callVars, recVars, bridgeVars, drainVars>>
  BY DEF DrainNext
<1> HIDE DEF J
<1> USE <1>c DEF TypeOK, IInv, Threads, callVars, recVars, bridgeVars, drainVars
<1>1. CASE batch = {} /\ Finish(t)
  <2>1. TypeOK'
    BY <1>1, IdleIsJob, SMTT(20) DEF Job, Steps, Finish
  <2>2. Unheard'
    BY <1>1, IdleIsJob, SMTT(20) DEF Unheard, Quiet, Known, Over, Settled,
       Finish
  <2>3. Creation'
    BY <1>1, IdleIsJob, SMTT(20) DEF Creation, Over, Settled, Finish
  <2>4. Rounds' /\ Draining'
    BY <1>1, IdleIsJob, SMTT(20) DEF Rounds, Over, Settled, Draining, Finish
  <2>5. Attaching' /\ NoBridgeLeak' /\ HistoryIsOver'
    BY <1>1, IdleIsJob, SMTT(20) DEF Attaching, NoBridgeLeak, HistoryIsOver,
       Finish
  <2> QED
    BY <2>1, <2>2, <2>3, <2>4, <2>5
<1>2. ASSUME NEW c \in batch, job' = [job EXCEPT ![t] = J(c)]
      PROVE  IInv'
  <2> DEFINE j == J(c)
  <2>a. /\ j \in Job /\ c \in Calls /\ j.call = c /\ j.step = "end"
        /\ j.rounds = 1 /\ j.then = "drained" /\ j.bridge = NoBridge
    BY <1>a
  <2>b. job' = [job EXCEPT ![t] = j]
    BY <1>2
  <2> HIDE DEF j
  <2>1. TypeOK'
    BY <2>a, <2>b, SMTT(20) DEF Calls
  <2>2. Unheard'
    BY <2>a, <2>b, SMTT(20) DEF Unheard, Quiet, Known, Over, Settled
  <2>3. Creation'
    BY <2>a, <2>b, SMTT(20) DEF Creation, Over, Settled
  <2>4. Rounds' /\ Draining'
    BY <2>a, <2>b, SMTT(20) DEF Rounds, Over, Settled, Draining
  <2>5. Attaching' /\ NoBridgeLeak' /\ HistoryIsOver'
    BY <2>a, <2>b, SMTT(20) DEF Attaching, NoBridgeLeak, HistoryIsOver
  <2> QED
    BY <2>1, <2>2, <2>3, <2>4, <2>5
<1> QED
  BY <1>b, <1>1, <1>2

\* Draining says that the call is settled without the batch.
LEMMA DrainedInv == ASSUME IInv, NEW t \in Threads, Drained(t) PROVE IInv'
<1> USE SessionAssumption DEF IInv, Drained, Threads, At, callVars, recVars,
   TypeOK, CloseBridge
<1>1. TypeOK'
  BY IdleIsJob, SMTT(20) DEF Job, Steps
<1>2. Unheard'
  BY IdleIsJob, SMTT(20) DEF Unheard, Quiet, Known, Over, Settled, Creation,
     Rounds, Draining, NoRecord, Calls, Job
<1>3. Creation'
  BY IdleIsJob, SMTT(20) DEF Unheard, Quiet, Known, Over, Settled, Creation,
     Rounds, Draining, Calls, Job
<1>4. Rounds' /\ Draining'
  BY IdleIsJob, SMTT(20) DEF Rounds, Over, Settled, Draining, Job
<1>5. Attaching' /\ NoBridgeLeak' /\ HistoryIsOver'
  BY IdleIsJob, SMTT(20) DEF Attaching, NoBridgeLeak, HistoryIsOver, Rounds,
     Over, Settled, Draining, Job
<1> QED
  BY <1>1, <1>2, <1>3, <1>4, <1>5

\* The bridge is new, so no thread holds it.
LEMMA WebRTCRequestInv ==
  ASSUME IInv, NEW t \in Workers, NEW c \in Calls, NEW b \in Bridges,
         WebRTCRequest(t, c, b)
  PROVE  IInv'
<1> USE SessionAssumption DEF IInv, WebRTCRequest, Threads, At, callVars,
   recVars, drainVars, TypeOK
<1> DEFINE f == [Idle EXCEPT !.bridge = b]
           j == [f EXCEPT !.call = c, !.step = "attach"]
<1>a. f \in Job /\ f.who = NoOne /\ f.rounds = 0 /\ f.then = "idle" /\
     f.bridge = b /\ f.seen = NoRecord
  BY IdleIsJob DEF Job, Steps, Owners
<1>b. c \in Calls /\ "attach" \in Steps
  BY DEF Calls, Steps
<1>c. job' = [job EXCEPT ![t] = j] /\ job[t].step = "idle"
  BY DEF Begin
<1> HIDE DEF f
<1>d. /\ j \in Job /\ j.call = c /\ j.step = "attach" /\ j.who = f.who
     /\ j.seen = f.seen /\ j.rounds = f.rounds /\ j.then = f.then
     /\ j.bridge = f.bridge
  BY <1>a, <1>b DEF Job
<1> HIDE DEF j
<1>1. TypeOK'
  BY <1>a, <1>b, <1>c, <1>d, SMTT(20) DEF Calls
<1>2. Unheard'
  BY <1>a, <1>b, <1>c, <1>d, SMTT(20) DEF Unheard, Quiet, Known, Over, Settled
<1>3. Creation'
  BY <1>a, <1>b, <1>c, <1>d, SMTT(20) DEF Creation, Over, Settled
<1>4. Rounds' /\ Draining'
  BY <1>a, <1>b, <1>c, <1>d, SMTT(20) DEF Rounds, Over, Settled, Draining
<1>5. Attaching' /\ NoBridgeLeak' /\ HistoryIsOver'
  BY <1>a, <1>b, <1>c, <1>d, SMTT(20) DEF Attaching, NoBridgeLeak,
     HistoryIsOver
<1> QED
  BY <1>1, <1>2, <1>3, <1>4, <1>5

\* The bridge is this call's, and the one it replaces is closed.
LEMMA SetBridgeInv == ASSUME IInv, NEW t \in Threads, SetBridge(t) PROVE IInv'
<1> USE SessionAssumption DEF IInv, SetBridge, Threads, Finish, At, recVars,
   drainVars, TypeOK, CloseBridge
<1>1. CASE job[t].call \in reg
  <2> DEFINE b == job[t].bridge
             old == entry[job[t].call]
             n == [x \in Bridges |-> IF x = old THEN "closed" ELSE bridge[x]]
  <2>a. /\ b \in Bridges /\ of[b] = job[t].call /\ bridge[b] # "new"
        /\ job[t].call \in Calls
    BY DEF Attaching
  <2>b. /\ bridge' = [n EXCEPT ![b] = "attached"]
        /\ entry' = [entry EXCEPT ![job[t].call] = b]
    BY <1>1
  <2>c. /\ n \in [Bridges -> {"new", "made", "attached", "closed"}]
        /\ \A x \in Bridges : n[x] = IF x = old THEN "closed" ELSE bridge[x]
    OBVIOUS
  <2> HIDE DEF n
  <2>1. TypeOK'
    BY <1>1, <2>a, <2>b, <2>c, IdleIsJob, SMTT(20) DEF Job, Steps
  <2>2. Unheard'
    BY <1>1, <2>a, <2>b, <2>c, IdleIsJob, SMTT(20) DEF Unheard, Quiet, Known,
       Over, Settled
  <2>3. Creation'
    BY <1>1, <2>a, <2>b, <2>c, IdleIsJob, SMTT(20) DEF Creation, Over, Settled
  <2>4. Rounds' /\ Draining'
    BY <1>1, <2>a, <2>b, <2>c, IdleIsJob, SMTT(20) DEF Rounds, Over, Settled,
       Draining, Job
  <2>5. Attaching' /\ NoBridgeLeak' /\ HistoryIsOver'
    BY <1>1, <2>a, <2>b, <2>c, IdleIsJob, SMTT(20) DEF Attaching, NoBridgeLeak,
       HistoryIsOver
  <2> QED
    BY <2>1, <2>2, <2>3, <2>4, <2>5
<1>2. CASE job[t].call \notin reg
  <2>1. TypeOK'
    BY <1>2, IdleIsJob, SMTT(20) DEF Job, Steps
  <2>2. Unheard'
    BY <1>2, IdleIsJob, SMTT(20) DEF Unheard, Quiet, Known, Over, Settled
  <2>3. Creation'
    BY <1>2, IdleIsJob, SMTT(20) DEF Creation, Over, Settled
  <2>4. Rounds' /\ Draining'
    BY <1>2, IdleIsJob, SMTT(20) DEF Rounds, Over, Settled, Draining, Job
  <2>5. Attaching' /\ NoBridgeLeak' /\ HistoryIsOver'
    BY <1>2, IdleIsJob, SMTT(20) DEF Attaching, NoBridgeLeak, HistoryIsOver
  <2> QED
    BY <2>1, <2>2, <2>3, <2>4, <2>5
<1> QED
  BY <1>1, <1>2

-----------------------------------------------------------------------------
\* Nothing has happened yet.
LEMMA InitInv == ASSUME Init PROVE IInv
<1> USE SessionAssumption, IdleIsJob DEF Init
<1>1. TypeOK
  BY DEF TypeOK, Record, NoRecord
<1>2. Unheard /\ Creation /\ Rounds /\ Draining /\ Attaching
  BY DEF Unheard, Quiet, Known, Creation, Rounds, Draining, Attaching, At, Calls
<1>3. NoBridgeLeak /\ HistoryIsOver
  BY DEF NoBridgeLeak, HistoryIsOver
<1> QED
  BY <1>1, <1>2, <1>3 DEF IInv

\* A step of a goroutine that has taken up a call.
LEMMA InternalInv == ASSUME IInv, NEW t \in Threads, Internal(t) PROVE IInv'
BY CreateCallInv, StartCallInv, PublishInv, AbandonInv, EmitInv, ReadStateInv,
   PutInv, ForgetInv, EndRecordInv, HandleCallOfferInv, OnIncomingInv,
   OfferHandledInv, SetOwnerInv, AcceptCallInv, EndCallInv, DrainNextInv,
   DrainedInv, SetBridgeInv, Zenon DEF Internal

\* A request, a stanza or a callback that reaches the session.
LEMMA EnvironmentInv == ASSUME IInv, Environment PROVE IInv'
<1>1. ASSUME NEW c \in Calls,
             OfferArrives(c) \/ PeerAccepts(c) \/ PeerTerminates(c)
      PROVE  IInv'
  BY <1>1, OfferArrivesInv, PeerAcceptsInv, PeerTerminatesInv, Zenon
<1>2. ASSUME NEW t \in Workers, NEW c \in Calls, NEW o \in Operators,
             StartRequest(t, o, c) \/ AcceptRequest(t, o, c)
      PROVE  IInv'
  BY <1>2, StartRequestInv, AcceptRequestInv, Zenon
<1>3. ASSUME NEW t \in Workers, NEW c \in Calls,
             \/ \E delayed \in BOOLEAN : AutoAnswerWakes(t, c, delayed)
             \/ RelayConnects(t, c) \/ EndRequest(t, c) \/ RejectRequest(t, c)
             \/ KeepaliveExpires(t, c)
      PROVE  IInv'
  BY <1>3, AutoAnswerWakesInv, RelayConnectsInv, EndRequestInv,
     RejectRequestInv, KeepaliveExpiresInv, Zenon
<1>4. ASSUME NEW t \in Workers, NEW c \in Calls, NEW b \in Bridges,
             WebRTCRequest(t, c, b)
      PROVE  IInv'
  BY <1>4, WebRTCRequestInv, Zenon
<1>5. ASSUME NEW t \in Workers, NEW b \in Bridges, OnTerminalICE(t, b)
      PROVE  IInv'
  BY <1>5, OnTerminalICEInv, Zenon
<1>6. ASSUME NEW t \in Workers, Drain(t)
      PROVE  IInv'
  BY <1>6, DrainInv, Zenon
<1> QED
  BY <1>1, <1>2, <1>3, <1>4, <1>5, <1>6, Zenon DEF Environment

\* Nobody moves.
LEMMA StutterInv == ASSUME IInv, UNCHANGED vars PROVE IInv'
<1> USE DEF vars, callVars, recVars, bridgeVars, drainVars
<1>1. TypeOK' /\ NoBridgeLeak' /\ HistoryIsOver'
  BY DEF IInv, TypeOK, NoBridgeLeak, HistoryIsOver
<1>2. Unheard' /\ Creation'
  BY DEF IInv, Unheard, Creation, Quiet, Known, Over, Settled, At
<1>3. Rounds' /\ Draining' /\ Attaching'
  BY DEF IInv, Rounds, Draining, Attaching, Over, Settled, At
<1> QED
  BY <1>1, <1>2, <1>3 DEF IInv

\* The invariant holds whatever requests, stanzas and callbacks come.
THEOREM Invariance == Spec => []IInv
<1>1. IInv /\ [Next]_vars => IInv'
  BY InternalInv, EnvironmentInv, StutterInv, Zenon DEF Next
<1> QED
  BY InitInv, <1>1, PTL DEF Spec

\* The types of the session's state.
THEOREM SessionTypes == Spec => []TypeOK
<1>1. IInv => TypeOK
  BY DEF IInv
<1> QED
  BY <1>1, Invariance, PTL

\* setBridge, removeCall and teardownAllCalls between them close every bridge
\* that was attached: none outlives its call.
THEOREM NoBridgeLeaks == Spec => []NoBridgeLeak
<1>1. IInv => NoBridgeLeak
  BY DEF IInv
<1> QED
  BY <1>1, Invariance, PTL

\* Broker.endCall files a call only when it is over, but for calls that a late
\* rejection or an early drain let go.
THEOREM FiledCallsAreOver == Spec => []HistoryIsOver
<1>1. IInv => HistoryIsOver
  BY DEF IInv
<1> QED
  BY <1>1, Invariance, PTL
=============================================================================

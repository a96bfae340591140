--------------------------- MODULE SessionDataProofs ---------------------------
(***************************************************************************)
(* What a session's data promises, for any calls, messages, sessions,      *)
(* agents and requests and any length of the history.                      *)
(*                                                                         *)
(* The records: where a mark is that a request was told is saved, and that *)
(* a call deleted in peace has nobody left to write about it.  The         *)
(* conversations: the one follow-up that is armed is the one the phone's   *)
(* entry names, one holder of a survey, one push that creates.  The        *)
(* personas: what a transaction that has cleared a direction knows.        *)
(***************************************************************************)
EXTENDS SessionData, FiniteSetTheorems, SequenceTheorems, TLAPS

-------------------------------------------------------------------------------
(* Bags of goroutines.                                                     *)

\* One goroutine more.
LEMMA BagAddSet ==
  ASSUME NEW B, IsABag(B), NEW x
  PROVE  /\ IsABag(B (+) SetToBag({x}))
         /\ BagToSet(B (+) SetToBag({x})) = BagToSet(B) \cup {x}
BY DEF BagToSet, (+), SetToBag, IsABag

\* One goroutine less, of which there may be others alike.
LEMMA BagRemoveSet ==
  ASSUME NEW B, IsABag(B), NEW x
  PROVE  /\ IsABag(B (-) SetToBag({x}))
         /\ BagToSet(B (-) SetToBag({x})) \subseteq BagToSet(B)
         /\ BagToSet(B) \ {x} \subseteq BagToSet(B (-) SetToBag({x}))
BY DEF BagToSet, (-), SetToBag, IsABag

\* None.
LEMMA EmptyBagSet == IsABag(EmptyBag) /\ BagToSet(EmptyBag) = {}
BY DEF BagToSet, EmptyBag, SetToBag, IsABag

-------------------------------------------------------------------------------
(* The history.                                                            *)

LogRecord == [call : Calls, marks : SUBSET (Marks \cup {"recording"})]

\* A row more at the end, and the oldest gone when there are too many.
LEMMA TrimmedAppend ==
  ASSUME NEW h \in Seq(LogRecord), Len(h) <= MaxHistory, NEW r \in LogRecord
  PROVE  LET t == Trimmed(Append(h, r))
         IN  /\ t \in Seq(LogRecord) /\ Len(t) <= MaxHistory
             /\ \A i \in DOMAIN t : t[i] = r \/ \E j \in DOMAIN h : t[i] = h[j]
<1> DEFINE a == Append(h, r)
<1>1. MaxHistory \in Nat \ {0} /\ Len(h) \in Nat
  BY RecordAssumption, LenProperties
<1>2. /\ a \in Seq(LogRecord) /\ a # <<>> /\ Len(a) = Len(h) + 1
      /\ \A i \in 1..Len(h) : a[i] = h[i]
      /\ a[Len(h) + 1] = r
  BY AppendProperties
<1>3. DOMAIN a = 1..Len(a) /\ DOMAIN h = 1..Len(h)
  BY <1>2, LenProperties
<1>4. \A i \in DOMAIN a : a[i] = r \/ \E j \in DOMAIN h : a[i] = h[j]
  BY <1>1, <1>2, <1>3
<1> HIDE DEF a
<1>5. CASE Len(a) > MaxHistory
  <2>1. Trimmed(a) = Tail(a)
    BY <1>5 DEF Trimmed
  <2>2. /\ Tail(a) \in Seq(LogRecord) /\ Len(Tail(a)) = Len(a) - 1
        /\ \A i \in 1..Len(Tail(a)) : Tail(a)[i] = a[i + 1]
    BY <1>2, HeadTailProperties
  <2>3. DOMAIN Tail(a) = 1..Len(Tail(a)) /\ Len(Tail(a)) <= MaxHistory
    BY <1>1, <1>2, <2>2, LenProperties
  <2>4. \A i \in DOMAIN Tail(a) : i + 1 \in DOMAIN a /\ Tail(a)[i] = a[i + 1]
    BY <1>1, <1>2, <1>3, <2>2, <2>3
  <2> QED BY <1>4, <2>1, <2>2, <2>3, <2>4 DEF a
<1>6. CASE ~(Len(a) > MaxHistory)
  <2>1. Trimmed(a) = a
    BY <1>6 DEF Trimmed
  <2> QED BY <1>1, <1>2, <1>4, <1>6, <2>1 DEF a
<1> QED BY <1>5, <1>6

\* An order of some positions of a sequence is no longer than the sequence.
LEMMA RowsKept ==
  ASSUME NEW h \in Seq(LogRecord), NEW K \in SUBSET DOMAIN h, NEW rows \in SetToSeqs(K)
  PROVE  \E n \in Nat : n <= Len(h) /\ rows \in [1..n -> K]
<1>1. Len(h) \in Nat /\ DOMAIN h = 1..Len(h)
  BY LenProperties
<1>2. IsFiniteSet(K) /\ Cardinality(K) \in Nat /\ Cardinality(K) <= Len(h)
  <2>1. IsFiniteSet(1..Len(h)) /\ Cardinality(1..Len(h)) = Len(h)
    <3>1. 1 \in Int /\ Len(h) \in Int
      BY <1>1
    <3>2. /\ IsFiniteSet(1..Len(h))
          /\ Cardinality(1..Len(h)) = IF 1 > Len(h) THEN 0 ELSE (Len(h) - 1) + 1
      BY <3>1, FS_Interval
    <3> QED BY <1>1, <3>2
  <2> QED BY <1>1, <2>1, FS_Subset, FS_CardinalityType
<1>3. rows \in [1..Cardinality(K) -> K]
  <2>1. rows \in {f \in [1..Cardinality(K) -> K] :
                    \A i, j \in 1..Cardinality(K) : i # j => f[i] # f[j]}
    BY Zenon DEF SetToSeqs
  <2> QED BY <2>1, Zenon
<1> QED BY <1>2, <1>3

-------------------------------------------------------------------------------
(* The records: what holds of each call.                                   *)

\* The UPDATE that is on its way to the database.
Update(c, m) == [kind |-> "update", call |-> c, marks |-> {m}]

\* A mark a request was told is saved is in the row, or somebody still carries
\* it there, or it is counted as lost.
Traced(c) ==
  deleter[c] \notin {"memory", "done"} =>
    \A m \in accepted[c] \ lost[c] :
      m \in row[c] \/ Carried(c, m) \/ Update(c, m) \in BagToSet(jobs)

\* A file whose deletion has begun is gone, but for a failure.
Filed(c) ==
  deleter[c] # "none" => phase[c] # "new" /\ (wav[c] = "file" => "fail" \in mix)

\* onEnded comes after the end.
Ordered(c) == ender[c] # "none" => phase[c] = "ended"

\* The rows of a call deleted in peace stay away, for nobody is left to write
\* them, and so do the broker's copies.
Peace(c) == c \notin busy /\ deleter[c] \in {"memory", "done"}
Left(c) ==
  Peace(c) =>
    /\ ~Unfinished(c) /\ row[c] = Absent /\ script[c] # "saved" /\ ratings[Home][c] = 0
    /\ deleter[c] = "done" => LogsOf(c) = {}

\* Only calls that were made have rows, finitely many.
Stored == IsFiniteSet({c \in Calls : row[c] # Absent})

RecordInv ==
  /\ RecordTypeOK /\ Stored
  /\ \A c \in Calls : Traced(c) /\ Filed(c) /\ Ordered(c) /\ Left(c)

\* What an action leaves of the calls it is not about.
JobOf(c, j) == j.call = c /\ j \in BagToSet(jobs)
Untouched(d) ==
  /\ phase'[d] = phase[d] /\ inserter'[d] = inserter[d] /\ ender'[d] = ender[d]
  /\ live'[d] = live[d] /\ row'[d] = row[d] /\ wav'[d] = wav[d] /\ script'[d] = script[d]
  /\ \A s \in Sessions : ratings'[s][d] = ratings[s][d]
  /\ deleter'[d] = deleter[d] /\ accepted'[d] = accepted[d] /\ lost'[d] = lost[d]
  /\ d \in busy' <=> d \in busy
  /\ \A j : JobOf(d, j)' <=> JobOf(d, j)
  /\ LogsOf(d) = {} => LogsOf(d)' = {}
OthersUntouched(c) == mix' = mix /\ \A d \in Calls \ {c} : Untouched(d)

\* The types, one by one.
LEMMA RecordTypes ==
  ASSUME RecordTypeOK
  PROVE  /\ mix \in Mixes
         /\ phase \in [Calls -> {"new", "ringing", "active", "ended"}]
         /\ inserter \in [Calls -> {"idle", "due", "done"}]
         /\ ender \in [Calls -> {"none", "recording", "again", "automate", "done"}]
         /\ live \in [Calls -> (SUBSET Marks) \cup {Absent}]
         /\ history \in Seq(LogRecord) /\ Len(history) <= MaxHistory
         /\ IsABag(jobs) /\ BagToSet(jobs) \subseteq Jobs
         /\ row \in [Calls -> (SUBSET (Marks \cup {"recording"})) \cup {Absent}]
         /\ wav \in [Calls -> {"none", "file", "removed"}]
         /\ script \in [Calls -> {"none", "due", "saved", "over"}]
         /\ ratings \in [Sessions -> [Calls -> Nat]]
         /\ deleter \in [Calls -> {"none", "rows", "memory", "done", "failed"}]
         /\ accepted \in [Calls -> SUBSET Marks] /\ lost \in [Calls -> SUBSET Marks]
         /\ busy \subseteq Calls
BY DEF RecordTypeOK, LogRecord

\* A call that is left alone keeps what holds of it.
LEMMA UntouchedKeeps ==
  ASSUME NEW d \in Calls, mix' = mix, Home \in Sessions, Untouched(d),
         Traced(d), Filed(d), Ordered(d), Left(d)
  PROVE  Traced(d)' /\ Filed(d)' /\ Ordered(d)' /\ Left(d)'
<1>1. \A j : (j.call = d /\ j \in BagToSet(jobs)') <=> (j.call = d /\ j \in BagToSet(jobs))
  BY DEF Untouched, JobOf
<1>2. \A m : Carried(d, m)' <=> Carried(d, m)
  BY <1>1 DEF Carried, Untouched
<1>3. \A m : Update(d, m) \in BagToSet(jobs)' <=> Update(d, m) \in BagToSet(jobs)
  BY <1>1 DEF Update
<1>4. Unfinished(d)' <=> Unfinished(d)
  BY <1>1 DEF Unfinished, Untouched
<1>5. Traced(d)'
  BY <1>2, <1>3 DEF Traced, Untouched, Update
<1>6. Filed(d)' /\ Ordered(d)'
  BY DEF Filed, Ordered, Untouched
<1>7. Left(d)'
  BY <1>4 DEF Left, Peace, Untouched
<1> QED BY <1>5, <1>6, <1>7

\* So an action that touches one call has to answer for that call only.
LEMMA OneCall ==
  ASSUME RecordInv, NEW c \in Calls, OthersUntouched(c),
         RecordTypeOK', Stored', Traced(c)', Filed(c)', Ordered(c)', Left(c)'
  PROVE  RecordInv'
<1>1. ASSUME NEW d \in Calls PROVE Traced(d)' /\ Filed(d)' /\ Ordered(d)' /\ Left(d)'
  <2>1. CASE d = c
    BY <2>1
  <2>2. CASE d # c
    BY <2>2, UntouchedKeeps, RecordAssumption DEF RecordInv, OthersUntouched
  <2> QED BY <2>1, <2>2
<1> QED BY <1>1 DEF RecordInv

\* No call has a row more when the calls with rows are the same or fewer.
LEMMA StoredShrinks ==
  ASSUME Stored, \A d \in Calls : row[d] = Absent => row'[d] = Absent
  PROVE  Stored'
<1>1. {d \in Calls : row'[d] # Absent} \in SUBSET {d \in Calls : row[d] # Absent}
  OBVIOUS
<1> QED BY <1>1, FS_Subset DEF Stored

\* One call more is still finitely many.
LEMMA StoredGrows ==
  ASSUME Stored, NEW c \in Calls, \A d \in Calls \ {c} : row[d] = Absent => row'[d] = Absent
  PROVE  Stored'
<1>1. IsFiniteSet({d \in Calls : row[d] # Absent} \cup {c})
  BY FS_AddElement DEF Stored
<1>2. {d \in Calls : row'[d] # Absent} \in SUBSET ({d \in Calls : row[d] # Absent} \cup {c})
  OBVIOUS
<1> QED BY <1>1, <1>2, FS_Subset DEF Stored

-------------------------------------------------------------------------------
(* The records: every action keeps it.                                     *)

\* While somebody is to write about a call, its deletion was not in peace.
LEMMA NotInPeace ==
  ASSUME NEW c \in Calls, Left(c), Unfinished(c), busy' = busy, deleter'[c] = deleter[c]
  PROVE  Left(c)'
BY DEF Left, Peace

\* A record on its way into the history.
SaveJob(c, marks) == [kind |-> "call", call |-> c, marks |-> marks]

\* Both kinds of goroutine are ones the broker starts.
LEMMA Kinds ==
  /\ \A c \in Calls, marks \in SUBSET Marks : SaveJob(c, marks) \in Jobs
  /\ \A c \in Calls, m \in Marks : Update(c, m) \in Jobs
BY DEF SaveJob, Update, Jobs

\* endCall: the record moves to the history, and a goroutine takes it to the row.
LEMMA EndCallFacts ==
  ASSUME RecordTypeOK, NEW c \in Calls, EndCall(c)
  PROVE  /\ history' \in Seq(LogRecord) /\ Len(history') <= MaxHistory
         /\ IsABag(jobs') /\ BagToSet(jobs') \subseteq Jobs
         /\ BagToSet(jobs) \subseteq BagToSet(jobs')
         /\ live' \in [Calls -> (SUBSET Marks) \cup {Absent}]
         /\ live'[c] = Absent
         /\ live[c] # Absent => SaveJob(c, live[c]) \in BagToSet(jobs')
         /\ \A d \in Calls \ {c} :
              /\ live'[d] = live[d]
              /\ \A j : JobOf(d, j)' <=> JobOf(d, j)
              /\ LogsOf(d) = {} => LogsOf(d)' = {}
<1>1. /\ history \in Seq(LogRecord) /\ Len(history) <= MaxHistory
      /\ IsABag(jobs) /\ BagToSet(jobs) \subseteq Jobs
      /\ live \in [Calls -> (SUBSET Marks) \cup {Absent}]
  BY RecordTypes
<1>2. CASE live[c] = Absent
  <2>1. UNCHANGED <<live, history, jobs>>
    BY <1>2 DEF EndCall
  <2> QED BY <1>1, <1>2, <2>1 DEF JobOf, LogsOf
<1>3. CASE live[c] # Absent
  <2> DEFINE r == [call |-> c, marks |-> live[c]]
  <2>1. /\ live' = [live EXCEPT ![c] = Absent]
        /\ history' = Trimmed(Append(history, r))
        /\ jobs' = jobs (+) SetToBag({SaveJob(c, live[c])})
    BY <1>3 DEF EndCall, SaveJob
  <2>2. live[c] \in SUBSET Marks /\ r \in LogRecord
    BY <1>1, <1>3 DEF LogRecord
  <2>3. IsABag(jobs') /\ BagToSet(jobs') = BagToSet(jobs) \cup {SaveJob(c, live[c])}
    BY <1>1, <2>1, BagAddSet
  <2>4. SaveJob(c, live[c]) \in Jobs /\ SaveJob(c, live[c]).call = c
    BY <2>2, Kinds DEF SaveJob
  <2>5. /\ history' \in Seq(LogRecord) /\ Len(history') <= MaxHistory
        /\ \A i \in DOMAIN history' :
             history'[i] = r \/ \E k \in DOMAIN history : history'[i] = history[k]
    BY <1>1, <2>1, <2>2, TrimmedAppend
  <2>6. live' \in [Calls -> (SUBSET Marks) \cup {Absent}] /\ live'[c] = Absent
        /\ \A d \in Calls \ {c} : live'[d] = live[d]
    BY <1>1, <2>1
  <2>7. ASSUME NEW d \in Calls \ {c} PROVE \A j : JobOf(d, j)' <=> JobOf(d, j)
    BY <2>3, <2>4 DEF JobOf
  <2>8. ASSUME NEW d \in Calls \ {c}, LogsOf(d) = {} PROVE LogsOf(d)' = {}
    <3>1. r.call # d /\ \A k \in DOMAIN history : history[k].call # d
      BY <2>8 DEF LogsOf
    <3> QED BY <2>5, <3>1 DEF LogsOf
  <2> QED BY <1>1, <2>3, <2>4, <2>5, <2>6, <2>7, <2>8
<1> QED BY <1>2, <1>3

\* Nothing a mark depends on is lost with it.
LEMMA EndCallTraced ==
  ASSUME RecordTypeOK, NEW c \in Calls, EndCall(c), Traced(c),
         row'[c] = row[c], deleter'[c] = deleter[c], accepted'[c] = accepted[c],
         lost'[c] = lost[c]
  PROVE  Traced(c)'
<1>1. /\ BagToSet(jobs) \subseteq BagToSet(jobs')
      /\ live[c] # Absent => SaveJob(c, live[c]) \in BagToSet(jobs')
  BY EndCallFacts
<1>2. SUFFICES ASSUME deleter[c] \notin {"memory", "done"}, NEW m \in accepted[c] \ lost[c]
               PROVE  m \in row[c] \/ Carried(c, m)' \/ Update(c, m) \in BagToSet(jobs')
  BY DEF Traced, Update
<1>3. m \in Marks /\ m \notin Absent
  BY RecordTypes DEF Marks, Absent
<1>4. CASE m \in live[c]
  <2>1. SaveJob(c, live[c]) \in BagToSet(jobs')
    BY <1>1, <1>3, <1>4
  <2>2. /\ SaveJob(c, live[c]).kind = "call" /\ SaveJob(c, live[c]).call = c
        /\ SaveJob(c, live[c]).marks = live[c]
    BY DEF SaveJob
  <2> QED BY <1>4, <2>1, <2>2 DEF Carried
<1>5. CASE m \notin live[c]
  BY <1>1, <1>2, <1>5 DEF Traced, Carried
<1> QED BY <1>4, <1>5

\* The rest of the state of a call that ends, again or not.
LEMMA EndCallUntouched ==
  ASSUME RecordTypeOK, NEW c \in Calls, EndCall(c), mix' = mix, busy' = busy,
         UNCHANGED <<inserter, row, wav, ratings, deleter, accepted, lost>>,
         \A d \in Calls \ {c} : /\ phase'[d] = phase[d] /\ ender'[d] = ender[d]
                                /\ script'[d] = script[d]
  PROVE  OthersUntouched(c)
BY EndCallFacts DEF OthersUntouched, Untouched

\* upsertCall with a new record: what the old one had not passed on is lost.
LEMMA UpsertFacts ==
  ASSUME RecordTypeOK, NEW c \in Calls, Upsert(c)
  PROVE  /\ live' \in [Calls -> (SUBSET Marks) \cup {Absent}] /\ live'[c] = {}
         /\ lost' \in [Calls -> SUBSET Marks] /\ lost'[c] = lost[c] \cup (live[c] \ Absent)
         /\ \A d \in Calls \ {c} : live'[d] = live[d] /\ lost'[d] = lost[d]
BY RecordTypes DEF Upsert

\* What the replaced record carried is counted as lost, and the rest is where it was.
LEMMA UpsertTraced ==
  ASSUME RecordTypeOK, NEW c \in Calls, Upsert(c), Traced(c), jobs' = jobs,
         row'[c] = row[c], deleter'[c] = deleter[c], accepted'[c] = accepted[c]
  PROVE  Traced(c)'
<1>1. lost'[c] = lost[c] \cup (live[c] \ Absent)
  BY UpsertFacts
<1>2. \A m \in accepted[c] : m \notin Absent
  BY RecordTypes DEF Marks, Absent
<1>3. \A m \in accepted[c] \ lost'[c] : Carried(c, m)' <=> Carried(c, m)
  <2> SUFFICES ASSUME NEW m \in accepted[c] \ lost'[c] PROVE Carried(c, m)' <=> Carried(c, m)
    OBVIOUS
  <2>1. m \notin live[c]
    BY <1>1, <1>2
  <2>2. m \notin live'[c]
    BY UpsertFacts
  <2> QED BY <2>1, <2>2 DEF Carried
<1> QED BY <1>1, <1>3 DEF Traced, Update

\* wireCall's recorder and the first record.
LEMMA RingKeeps ==
  ASSUME RecordInv, NEW c \in Calls, Ring(c) PROVE RecordInv' /\ OthersUntouched(c)
<1>1. RecordTypeOK /\ Stored /\ Traced(c) /\ Filed(c) /\ Ordered(c) /\ Left(c)
  BY DEF RecordInv
<1>2. /\ phase[c] = "new" /\ phase' = [phase EXCEPT ![c] = "ringing"] /\ Upsert(c)
      /\ UNCHANGED <<mix, ender, history, jobs, row, script, ratings, deleter, accepted, busy>>
      /\ wav' = [wav EXCEPT ![c] = "file"] \/ wav' = wav
  BY DEF Ring
<1>3. PICK i \in {"idle", "due"} : inserter' = [inserter EXCEPT ![c] = i]
  BY DEF Ring
<1>4. RecordTypeOK'
  BY <1>1, <1>2, <1>3, RecordTypes, UpsertFacts DEF RecordTypeOK, LogRecord
<1>5. OthersUntouched(c)
  BY <1>1, <1>2, <1>3, RecordTypes, UpsertFacts DEF OthersUntouched, Untouched, JobOf, LogsOf
<1>6. Stored'
  BY <1>1, <1>2, StoredShrinks
<1>7. Traced(c)'
  BY <1>1, <1>2, UpsertTraced
<1>8. deleter[c] = "none" /\ ender[c] = "none"
  BY <1>1, <1>2, RecordTypes DEF Filed, Ordered
<1>9. Filed(c)' /\ Ordered(c)' /\ Left(c)'
  BY <1>2, <1>8 DEF Filed, Ordered, Left, Peace
<1> QED BY <1>4, <1>5, <1>6, <1>7, <1>9, OneCall

\* A listener replaces the record of a call that goes on.
LEMMA ConnectKeeps ==
  ASSUME RecordInv, NEW c \in Calls, Connect(c) PROVE RecordInv' /\ OthersUntouched(c)
<1>1. RecordTypeOK /\ Stored /\ Traced(c) /\ Filed(c) /\ Ordered(c) /\ Left(c)
  BY DEF RecordInv
<1>2. /\ phase[c] = "ringing" /\ phase' = [phase EXCEPT ![c] = "active"] /\ Upsert(c)
      /\ UNCHANGED <<mix, inserter, ender, history, jobs, row, wav, script, ratings, deleter,
                     accepted, busy>>
  BY DEF Connect, tables
<1>4. RecordTypeOK'
  BY <1>1, <1>2, RecordTypes, UpsertFacts DEF RecordTypeOK, LogRecord
<1>5. OthersUntouched(c)
  BY <1>1, <1>2, RecordTypes, UpsertFacts DEF OthersUntouched, Untouched, JobOf, LogsOf
<1>6. Stored'
  BY <1>1, <1>2, StoredShrinks
<1>7. Traced(c)'
  BY <1>1, <1>2, UpsertTraced
<1>8. phase'[c] = "active" /\ ender[c] = "none"
  BY <1>1, <1>2, RecordTypes DEF Ordered
<1>9. Filed(c)' /\ Ordered(c)'
  BY <1>1, <1>2, <1>8 DEF Filed, Ordered
<1>10. Left(c)'
  BY <1>1, <1>2, NotInPeace DEF Unfinished
<1> QED BY <1>4, <1>5, <1>6, <1>7, <1>9, <1>10, OneCall

\* The start handler replaces the record, or makes one late.
LEMMA StartInsertsKeeps ==
  ASSUME RecordInv, NEW c \in Calls, StartInserts(c) PROVE RecordInv' /\ OthersUntouched(c)
<1>1. RecordTypeOK /\ Stored /\ Traced(c) /\ Filed(c) /\ Ordered(c) /\ Left(c)
  BY DEF RecordInv
<1>2. /\ inserter[c] = "due" /\ inserter' = [inserter EXCEPT ![c] = "done"] /\ Upsert(c)
      /\ UNCHANGED <<mix, phase, ender, history, jobs, row, wav, script, ratings, deleter,
                     accepted, busy>>
  BY DEF StartInserts, tables
<1>4. RecordTypeOK'
  BY <1>1, <1>2, RecordTypes, UpsertFacts DEF RecordTypeOK, LogRecord
<1>5. OthersUntouched(c)
  BY <1>1, <1>2, RecordTypes, UpsertFacts DEF OthersUntouched, Untouched, JobOf, LogsOf
<1>6. Stored'
  BY <1>1, <1>2, StoredShrinks
<1>7. Traced(c)'
  BY <1>1, <1>2, UpsertTraced
<1>9. Filed(c)' /\ Ordered(c)'
  BY <1>1, <1>2 DEF Filed, Ordered
<1>10. Left(c)'
  BY <1>1, <1>2, NotInPeace DEF Unfinished
<1> QED BY <1>4, <1>5, <1>6, <1>7, <1>9, <1>10, OneCall

\* The end: the record goes, and onEnded begins.
LEMMA EndKeeps ==
  ASSUME RecordInv, NEW c \in Calls, End(c) PROVE RecordInv' /\ OthersUntouched(c)
<1>1. RecordTypeOK /\ Stored /\ Traced(c) /\ Filed(c) /\ Ordered(c) /\ Left(c)
  BY DEF RecordInv
<1>2. /\ phase[c] \in {"ringing", "active"} /\ phase' = [phase EXCEPT ![c] = "ended"]
      /\ EndCall(c)
      /\ UNCHANGED <<mix, inserter, row, wav, ratings, deleter, accepted, lost, busy>>
      /\ script' = [script EXCEPT ![c] = "due"] \/ script' = script
  BY DEF End
<1>3. PICK next \in {"recording", "done"} : ender' = [ender EXCEPT ![c] = next]
  BY DEF End
<1>4. RecordTypeOK'
  BY <1>1, <1>2, <1>3, RecordTypes, EndCallFacts DEF RecordTypeOK, LogRecord
<1>5. OthersUntouched(c)
  BY <1>1, <1>2, <1>3, RecordTypes, EndCallUntouched
<1>6. Stored'
  BY <1>1, <1>2, StoredShrinks
<1>7. Traced(c)'
  BY <1>1, <1>2, EndCallTraced
<1>8. phase'[c] = "ended"
  BY <1>1, <1>2, RecordTypes
<1>9. Filed(c)' /\ Ordered(c)'
  BY <1>1, <1>2, <1>8 DEF Filed, Ordered
<1>10. Left(c)'
  BY <1>1, <1>2, NotInPeace DEF Unfinished
<1> QED BY <1>4, <1>5, <1>6, <1>7, <1>9, <1>10, OneCall

\* onEnded ends the record once more.
LEMMA EndAgainKeeps ==
  ASSUME RecordInv, NEW c \in Calls, EndAgain(c) PROVE RecordInv' /\ OthersUntouched(c)
<1>1. RecordTypeOK /\ Stored /\ Traced(c) /\ Filed(c) /\ Ordered(c) /\ Left(c)
  BY DEF RecordInv
<1>2. /\ ender[c] = "again" /\ ender' = [ender EXCEPT ![c] = "automate"] /\ EndCall(c)
      /\ UNCHANGED <<mix, phase, inserter, row, wav, script, ratings, deleter, accepted, lost,
                     busy>>
  BY DEF EndAgain, tables
<1>4. RecordTypeOK'
  BY <1>1, <1>2, RecordTypes, EndCallFacts DEF RecordTypeOK, LogRecord
<1>5. OthersUntouched(c)
  BY <1>1, <1>2, RecordTypes, EndCallUntouched
<1>6. Stored'
  BY <1>1, <1>2, StoredShrinks
<1>7. Traced(c)'
  BY <1>1, <1>2, EndCallTraced
<1>9. Filed(c)' /\ Ordered(c)'
  BY <1>1, <1>2 DEF Filed, Ordered
<1>10. Left(c)'
  BY <1>1, <1>2, NotInPeace DEF Unfinished
<1> QED BY <1>4, <1>5, <1>6, <1>7, <1>9, <1>10, OneCall

\* So does a hang-up of a call that is over.
LEMMA HangUpAgainKeeps ==
  ASSUME RecordInv, NEW c \in Calls, HangUpAgain(c) PROVE RecordInv' /\ OthersUntouched(c)
<1>1. RecordTypeOK /\ Stored /\ Traced(c) /\ Filed(c) /\ Ordered(c) /\ Left(c)
  BY DEF RecordInv
<1>2. /\ live[c] # Absent /\ EndCall(c)
      /\ UNCHANGED <<mix, phase, inserter, ender, row, wav, script, ratings, deleter, accepted,
                     lost, busy>>
  BY DEF HangUpAgain, tables
<1>4. RecordTypeOK'
  BY <1>1, <1>2, RecordTypes, EndCallFacts DEF RecordTypeOK, LogRecord
<1>5. OthersUntouched(c)
  BY <1>1, <1>2, RecordTypes, EndCallUntouched
<1>6. Stored'
  BY <1>1, <1>2, StoredShrinks
<1>7. Traced(c)'
  BY <1>1, <1>2, EndCallTraced
<1>9. Filed(c)' /\ Ordered(c)'
  BY <1>1, <1>2 DEF Filed, Ordered
<1>10. Left(c)'
  BY <1>1, <1>2, NotInPeace DEF Unfinished
<1> QED BY <1>4, <1>5, <1>6, <1>7, <1>9, <1>10, OneCall

\* onEnded's UPDATE finds a row or does nothing.
LEMMA StoreRecordingKeeps ==
  ASSUME RecordInv, NEW c \in Calls, StoreRecording(c) PROVE RecordInv' /\ OthersUntouched(c)
<1>1. RecordTypeOK /\ Stored /\ Traced(c) /\ Filed(c) /\ Ordered(c) /\ Left(c)
  BY DEF RecordInv
<1>2. /\ ender[c] = "recording" /\ ender' = [ender EXCEPT ![c] = "again"]
      /\ UNCHANGED <<mix, phase, inserter, live, history, jobs, wav, script, ratings, deleter,
                     accepted, lost, busy>>
      /\ \/ row' = row
         \/ row[c] # Absent /\ row' = [row EXCEPT ![c] = row[c] \cup {"recording"}]
  BY DEF StoreRecording
<1>3. /\ row' \in [Calls -> (SUBSET (Marks \cup {"recording"})) \cup {Absent}]
      /\ \A d \in Calls \ {c} : row'[d] = row[d]
      /\ row[c] \subseteq row'[c] /\ (row[c] = Absent => row'[c] = Absent)
  <2>1. row \in [Calls -> (SUBSET (Marks \cup {"recording"})) \cup {Absent}]
    BY <1>1, RecordTypes
  <2>2. CASE row' = row
    BY <2>1, <2>2
  <2>3. CASE row[c] # Absent /\ row' = [row EXCEPT ![c] = row[c] \cup {"recording"}]
    <3>1. row[c] \cup {"recording"} \in SUBSET (Marks \cup {"recording"})
      BY <2>1, <2>3
    <3> QED BY <2>1, <2>3, <3>1
  <2> QED BY <1>2, <2>2, <2>3
<1>4. RecordTypeOK'
  BY <1>1, <1>2, <1>3, RecordTypes DEF RecordTypeOK
<1>5. OthersUntouched(c)
  BY <1>1, <1>2, <1>3, RecordTypes DEF OthersUntouched, Untouched, JobOf, LogsOf
<1>6. Stored'
  BY <1>1, <1>3, StoredShrinks
<1>7. Traced(c)'
  BY <1>1, <1>2, <1>3 DEF Traced, Carried, Update
<1>9. Filed(c)' /\ Ordered(c)'
  BY <1>1, <1>2 DEF Filed, Ordered
<1>10. Left(c)'
  BY <1>1, <1>2, NotInPeace DEF Unfinished
<1> QED BY <1>4, <1>5, <1>6, <1>7, <1>9, <1>10, OneCall

\* A mark in the active record and in a row of the history, and its UPDATE.
LEMMA MarkKeeps ==
  ASSUME RecordInv, NEW c \in Calls, NEW m \in Marks, NEW rows, Marked(c, rows, m),
         UpdateJob(c, m), Accepted(c, m), phase[c] # "new",
         UNCHANGED <<mix, phase, inserter, ender, deleter, row, wav, script, ratings, lost, busy>>
  PROVE  RecordInv' /\ OthersUntouched(c)
<1>1. RecordTypeOK /\ Stored /\ Traced(c) /\ Filed(c) /\ Ordered(c) /\ Left(c)
  BY DEF RecordInv
<1>2. /\ jobs' = jobs (+) SetToBag({Update(c, m)})
      /\ accepted' = [accepted EXCEPT ![c] = accepted[c] \cup {m}]
  BY DEF UpdateJob, Accepted, Update
<1>3. /\ IsABag(jobs') /\ BagToSet(jobs') = BagToSet(jobs) \cup {Update(c, m)}
      /\ BagToSet(jobs') \subseteq Jobs
      /\ Update(c, m).call = c /\ Update(c, m).kind = "update"
  <2>1. IsABag(jobs) /\ BagToSet(jobs) \subseteq Jobs
    BY <1>1, RecordTypes
  <2>2. Update(c, m) \in Jobs
    BY Kinds
  <2>3. IsABag(jobs') /\ BagToSet(jobs') = BagToSet(jobs) \cup {Update(c, m)}
    BY <1>2, <2>1, BagAddSet
  <2> QED BY <2>1, <2>2, <2>3 DEF Update
<1>4. /\ live' \in [Calls -> (SUBSET Marks) \cup {Absent}]
      /\ \A d \in Calls \ {c} : live'[d] = live[d]
      /\ live[c] = Absent <=> live'[c] = Absent
      /\ live[c] # Absent => live'[c] = live[c] \cup {m}
  <2>1. live \in [Calls -> (SUBSET Marks) \cup {Absent}] /\ "absent" \notin Marks
    BY <1>1, RecordTypes DEF Marks
  <2>2. CASE live[c] = Absent
    BY <2>1, <2>2 DEF Marked
  <2>3. CASE live[c] # Absent
    <3>1. live' = [live EXCEPT ![c] = live[c] \cup {m}]
      BY <2>3 DEF Marked
    <3>2. live[c] \cup {m} \in SUBSET Marks /\ live[c] \cup {m} # Absent
      BY <2>1, <2>3 DEF Absent
    <3> QED BY <2>1, <2>3, <3>1, <3>2
  <2> QED BY <2>2, <2>3
<1>5. /\ history' \in Seq(LogRecord) /\ Len(history') <= MaxHistory
      /\ \A d \in Calls : LogsOf(d)' = LogsOf(d)
  <2>1. history \in Seq(LogRecord) /\ Len(history) <= MaxHistory
        /\ DOMAIN history = 1..Len(history) /\ Len(history) \in Nat
    BY <1>1, RecordTypes, LenProperties
  <2>2. history' = [i \in 1..Len(history) |->
                      IF i \in rows THEN [history[i] EXCEPT !.marks = history[i].marks \cup {m}]
                      ELSE history[i]]
    BY <2>1 DEF Marked
  <2>3. \A i \in 1..Len(history) : history'[i] \in LogRecord /\ history'[i].call = history[i].call
    <3> SUFFICES ASSUME NEW i \in 1..Len(history)
                 PROVE  history'[i] \in LogRecord /\ history'[i].call = history[i].call
      OBVIOUS
    <3>1. history[i] \in LogRecord
      BY <2>1, ElementOfSeq
    <3>2. [history[i] EXCEPT !.marks = history[i].marks \cup {m}] \in LogRecord
          /\ [history[i] EXCEPT !.marks = history[i].marks \cup {m}].call = history[i].call
      BY <3>1 DEF LogRecord
    <3> QED BY <2>2, <3>1, <3>2
  <2>4. history' \in [1..Len(history) -> LogRecord]
    BY <2>2, <2>3
  <2>5. history' \in Seq(LogRecord) /\ Len(history') = Len(history)
        /\ DOMAIN history' = 1..Len(history)
    BY <2>1, <2>4, SeqDef, LenProperties
  <2> QED BY <2>1, <2>3, <2>5 DEF LogsOf
<1>6. /\ accepted' \in [Calls -> SUBSET Marks] /\ accepted'[c] = accepted[c] \cup {m}
      /\ \A d \in Calls \ {c} : accepted'[d] = accepted[d]
  BY <1>1, <1>2, RecordTypes
<1>7. RecordTypeOK'
  BY <1>1, <1>3, <1>4, <1>5, <1>6, RecordTypes DEF RecordTypeOK, LogRecord
<1>8. OthersUntouched(c)
  BY <1>3, <1>4, <1>5, <1>6 DEF OthersUntouched, Untouched, JobOf
<1>9. Stored'
  BY <1>1, StoredShrinks
<1>10. Traced(c)'
  <2> SUFFICES ASSUME deleter[c] \notin {"memory", "done"}, NEW x \in accepted'[c] \ lost[c]
               PROVE  x \in row[c] \/ Carried(c, x)' \/ Update(c, x) \in BagToSet(jobs')
    BY DEF Traced, Update
  <2>1. CASE x = m
    BY <1>3, <2>1
  <2>2. CASE x # m
    <3>1. x \in row[c] \/ Carried(c, x) \/ Update(c, x) \in BagToSet(jobs)
      BY <1>1, <1>6, <2>2 DEF Traced
    <3>2. Carried(c, x) => Carried(c, x)'
      BY <1>3, <1>4 DEF Carried
    <3> QED BY <1>3, <3>1, <3>2
  <2> QED BY <2>1, <2>2
<1>11. Filed(c)' /\ Ordered(c)'
  BY <1>1 DEF Filed, Ordered
<1>12. Left(c)'
  <2>1. Unfinished(c)' <=> Unfinished(c)
    BY <1>3, <1>4 DEF Unfinished
  <2> QED BY <1>1, <1>5, <2>1 DEF Left, Peace
<1> QED BY <1>7, <1>8, <1>9, <1>10, <1>11, <1>12, OneCall

\* A ticket of a call the broker does not know changes nothing but what was answered.
LEMMA UnknownTicketKeeps ==
  ASSUME RecordInv, NEW c \in Calls, ~InBroker(c), HandleOpenTicket(c)
  PROVE  RecordInv' /\ OthersUntouched(c)
<1>1. RecordTypeOK /\ Stored /\ Traced(c) /\ Filed(c) /\ Ordered(c) /\ Left(c)
  BY DEF RecordInv
<1>2. /\ phase[c] # "new" /\ LogsOf(c) = {} /\ live[c] = Absent
      /\ accepted' = [accepted EXCEPT ![c] = accepted[c] \cup {"ticket"}]
      /\ lost' = [lost EXCEPT ![c] = lost[c] \cup {"ticket"}]
      /\ UNCHANGED <<mix, phase, inserter, ender, deleter, row, wav, script, ratings, busy>>
  BY DEF HandleOpenTicket, Accepted, InBroker, tables
<1>3. live' = live /\ jobs' = jobs
      /\ history' = [i \in DOMAIN history |-> history[i]]
  BY <1>2 DEF HandleOpenTicket, OpenTicket, Marked
<1>4. history' = history
  <2>1. history \in Seq(LogRecord)
    BY <1>1, RecordTypes
  <2> QED BY <1>3, <2>1, SeqDef
<1>5. /\ accepted' \in [Calls -> SUBSET Marks] /\ accepted'[c] = accepted[c] \cup {"ticket"}
      /\ \A d \in Calls \ {c} : accepted'[d] = accepted[d]
  BY <1>1, <1>2, RecordTypes DEF Marks
<1>6. /\ lost' \in [Calls -> SUBSET Marks] /\ lost'[c] = lost[c] \cup {"ticket"}
      /\ \A d \in Calls \ {c} : lost'[d] = lost[d]
  BY <1>1, <1>2, RecordTypes DEF Marks
<1>7. RecordTypeOK'
  BY <1>1, <1>2, <1>3, <1>4, <1>5, <1>6, RecordTypes DEF RecordTypeOK, LogRecord
<1>8. OthersUntouched(c)
  BY <1>2, <1>3, <1>4, <1>5, <1>6 DEF OthersUntouched, Untouched, JobOf, LogsOf
<1>9. Stored'
  BY <1>1, <1>2, StoredShrinks
<1>10. Traced(c)'
  BY <1>1, <1>2, <1>3, <1>5, <1>6 DEF Traced, Carried, Update
<1>11. Filed(c)' /\ Ordered(c)'
  BY <1>1, <1>2, <1>3 DEF Filed, Ordered
<1>12. Left(c)'
  BY <1>1, <1>2, <1>3, <1>4 DEF Left, Peace, Unfinished, LogsOf
<1> QED BY <1>7, <1>8, <1>9, <1>10, <1>11, <1>12, OneCall

\* The newest row of the history is marked, if the broker knows the call.
LEMMA OpenTicketKeeps ==
  ASSUME RecordInv, NEW c \in Calls, HandleOpenTicket(c)
  PROVE  RecordInv' /\ OthersUntouched(c)
<1>1. CASE InBroker(c)
  <2>1. PICK rows : Marked(c, rows, "ticket")
    BY DEF HandleOpenTicket, OpenTicket
  <2>2. /\ UpdateJob(c, "ticket") /\ Accepted(c, "ticket")
        /\ phase[c] # "new" /\ "ticket" \in Marks
        /\ UNCHANGED <<mix, phase, inserter, ender, deleter, row, wav, script, ratings, lost, busy>>
    BY <1>1 DEF HandleOpenTicket, OpenTicket, tables, Marks
  <2> QED BY <2>1, <2>2, MarkKeeps
<1>2. CASE ~InBroker(c)
  BY <1>2, UnknownTicketKeeps
<1> QED BY <1>1, <1>2

\* The oldest row of the history is marked.
LEMMA SaveSummaryKeeps ==
  ASSUME RecordInv, NEW c \in Calls, SaveSummary(c) PROVE RecordInv' /\ OthersUntouched(c)
<1>1. PICK rows : Marked(c, rows, "summary")
  BY DEF SaveSummary
<1>2. /\ UpdateJob(c, "summary") /\ Accepted(c, "summary")
      /\ phase[c] # "new" /\ "summary" \in Marks
      /\ UNCHANGED <<mix, phase, inserter, ender, deleter, row, wav, script, ratings, lost, busy>>
  BY DEF SaveSummary, tables, Marks
<1> QED BY <1>1, <1>2, MarkKeeps

\* A transcript is due only while the deletion was not in peace.
LEMMA SaveTranscriptKeeps ==
  ASSUME RecordInv, NEW c \in Calls, SaveTranscript(c) PROVE RecordInv' /\ OthersUntouched(c)
<1>1. RecordTypeOK /\ Stored /\ Traced(c) /\ Filed(c) /\ Ordered(c) /\ Left(c)
  BY DEF RecordInv
<1>2. /\ script[c] = "due"
      /\ UNCHANGED <<mix, phase, inserter, ender, live, history, jobs, deleter, row, wav,
                     ratings, accepted, lost, busy>>
  BY DEF SaveTranscript, memoryVars
<1>3. PICK next \in {"saved", "over"} : script' = [script EXCEPT ![c] = next]
  BY DEF SaveTranscript
<1>4. RecordTypeOK'
  BY <1>1, <1>2, <1>3, RecordTypes DEF RecordTypeOK
<1>5. OthersUntouched(c)
  BY <1>1, <1>2, <1>3, RecordTypes DEF OthersUntouched, Untouched, JobOf, LogsOf
<1>6. Stored'
  BY <1>1, <1>2, StoredShrinks
<1>7. Traced(c)'
  BY <1>1, <1>2 DEF Traced, Carried, Update
<1>9. Filed(c)' /\ Ordered(c)'
  BY <1>1, <1>2 DEF Filed, Ordered
<1>10. Left(c)'
  BY <1>1, <1>2, NotInPeace DEF Unfinished
<1> QED BY <1>4, <1>5, <1>6, <1>7, <1>9, <1>10, OneCall

\* The deletion begins, and the file goes unless that fails.
LEMMA DeleteFileKeeps ==
  ASSUME RecordInv, NEW c \in Calls, DeleteFile(c) PROVE RecordInv' /\ OthersUntouched(c)
<1>1. RecordTypeOK /\ Stored /\ Traced(c) /\ Filed(c) /\ Ordered(c) /\ Left(c)
  BY DEF RecordInv
<1>2. /\ phase[c] # "new" /\ deleter[c] = "none" /\ deleter' = [deleter EXCEPT ![c] = "rows"]
      /\ UNCHANGED <<mix, phase, inserter, ender, live, history, jobs, row, script, ratings,
                     accepted, lost, busy>>
  BY DEF DeleteFile
<1>3. /\ wav' \in [Calls -> {"none", "file", "removed"}]
      /\ \A d \in Calls \ {c} : wav'[d] = wav[d]
      /\ wav'[c] = "file" => "fail" \in mix
  <2>1. wav \in [Calls -> {"none", "file", "removed"}]
    BY <1>1, RecordTypes
  <2>2. PICK o \in Outcome :
          wav' = IF wav[c] = "file" /\ o = "ok" THEN [wav EXCEPT ![c] = "removed"] ELSE wav
    BY DEF DeleteFile
  <2>3. CASE wav[c] = "file" /\ o = "ok"
    BY <2>1, <2>2, <2>3
  <2>4. CASE ~(wav[c] = "file" /\ o = "ok")
    <3>1. wav' = wav
      BY <2>2, <2>4
    <3>2. wav[c] = "file" => "fail" \in mix
      BY <2>4 DEF Outcome
    <3> QED BY <2>1, <3>1, <3>2
  <2> QED BY <2>3, <2>4
<1>4. RecordTypeOK'
  BY <1>1, <1>2, <1>3, RecordTypes DEF RecordTypeOK
<1>5. OthersUntouched(c)
  BY <1>1, <1>2, <1>3, RecordTypes DEF OthersUntouched, Untouched, JobOf, LogsOf
<1>6. Stored'
  BY <1>1, <1>2, StoredShrinks
<1>7. deleter'[c] = "rows"
  BY <1>1, <1>2, RecordTypes
<1>8. Traced(c)'
  BY <1>1, <1>2, <1>7 DEF Traced, Carried, Update
<1>9. Filed(c)' /\ Ordered(c)' /\ Left(c)'
  BY <1>1, <1>2, <1>3, <1>7 DEF Filed, Ordered, Left, Peace
<1> QED BY <1>4, <1>5, <1>6, <1>8, <1>9, OneCall

\* The rows go; from then on nobody may be left to write one.
LEMMA DeleteRowsKeeps ==
  ASSUME RecordInv, NEW c \in Calls, NEW writing, DeleteRows(c, writing)
  PROVE  RecordInv' /\ OthersUntouched(c)
<1>1. RecordTypeOK /\ Stored /\ Traced(c) /\ Filed(c) /\ Ordered(c) /\ Left(c)
  BY DEF RecordInv
<1>2. /\ deleter[c] = "rows"
      /\ UNCHANGED <<mix, phase, inserter, ender, live, history, jobs, wav, accepted, lost>>
  BY DEF DeleteRows
<1>3. CASE /\ deleter' = [deleter EXCEPT ![c] = "memory"]
           /\ row' = [row EXCEPT ![c] = Absent]
           /\ script' = IF script[c] = "saved" THEN [script EXCEPT ![c] = "none"] ELSE script
           /\ ratings' = [ratings EXCEPT ![Home][c] = 0]
           /\ busy' = IF Unfinished(c) \/ writing THEN busy \cup {c} ELSE busy
  <2>1. /\ deleter' \in [Calls -> {"none", "rows", "memory", "done", "failed"}]
        /\ deleter'[c] = "memory" /\ \A d \in Calls \ {c} : deleter'[d] = deleter[d]
    BY <1>1, <1>3, RecordTypes
  <2>2. /\ row' \in [Calls -> (SUBSET (Marks \cup {"recording"})) \cup {Absent}]
        /\ row'[c] = Absent /\ \A d \in Calls \ {c} : row'[d] = row[d]
    BY <1>1, <1>3, RecordTypes
  <2>3. /\ script' \in [Calls -> {"none", "due", "saved", "over"}]
        /\ script'[c] # "saved" /\ (script'[c] = "due" => script[c] = "due")
        /\ \A d \in Calls \ {c} : script'[d] = script[d]
    BY <1>1, <1>3, RecordTypes
  <2>4. /\ ratings' \in [Sessions -> [Calls -> Nat]] /\ ratings'[Home][c] = 0
        /\ \A d \in Calls \ {c}, s \in Sessions : ratings'[s][d] = ratings[s][d]
    BY <1>1, <1>3, RecordTypes, RecordAssumption
  <2>5. /\ busy' \subseteq Calls /\ \A d \in Calls \ {c} : d \in busy' <=> d \in busy
        /\ c \notin busy' => ~Unfinished(c)
    BY <1>1, <1>3, RecordTypes
  <2>6. RecordTypeOK'
    BY <1>1, <1>2, <2>1, <2>2, <2>3, <2>4, <2>5, RecordTypes DEF RecordTypeOK
  <2>7. OthersUntouched(c)
    BY <1>2, <2>1, <2>2, <2>3, <2>4, <2>5 DEF OthersUntouched, Untouched, JobOf, LogsOf
  <2>8. Stored'
    BY <1>1, <2>2, StoredShrinks
  <2>9. Traced(c)'
    BY <2>1 DEF Traced
  <2>10. Filed(c)' /\ Ordered(c)'
    BY <1>1, <1>2 DEF Filed, Ordered
  <2>11. Left(c)'
    BY <1>2, <2>1, <2>2, <2>3, <2>4, <2>5 DEF Left, Peace, Unfinished
  <2> QED BY <2>6, <2>7, <2>8, <2>9, <2>10, <2>11, OneCall
<1>4. CASE /\ deleter' = [deleter EXCEPT ![c] = "failed"]
           /\ UNCHANGED <<row, script, ratings, busy>>
  <2>1. /\ deleter' \in [Calls -> {"none", "rows", "memory", "done", "failed"}]
        /\ deleter'[c] = "failed" /\ \A d \in Calls \ {c} : deleter'[d] = deleter[d]
    BY <1>1, <1>4, RecordTypes
  <2>2. RecordTypeOK'
    BY <1>1, <1>2, <1>4, <2>1, RecordTypes DEF RecordTypeOK
  <2>3. OthersUntouched(c)
    BY <1>2, <1>4, <2>1 DEF OthersUntouched, Untouched, JobOf, LogsOf
  <2>4. Stored'
    BY <1>1, <1>4, StoredShrinks
  <2>5. Traced(c)'
    BY <1>1, <1>2, <1>4 DEF Traced, Carried, Update
  <2>6. Filed(c)' /\ Ordered(c)' /\ Left(c)'
    BY <1>1, <1>2, <1>4, <2>1 DEF Filed, Ordered, Left, Peace
  <2> QED BY <2>2, <2>3, <2>4, <2>5, <2>6, OneCall
<1> QED BY <1>3, <1>4 DEF DeleteRows

\* removeCall: no copy in memory, and the others as they were.
LEMMA RemoveCallKeeps ==
  ASSUME RecordInv, NEW c \in Calls, RemoveCall(c) PROVE RecordInv' /\ OthersUntouched(c)
<1>1. RecordTypeOK /\ Stored /\ Traced(c) /\ Filed(c) /\ Ordered(c) /\ Left(c)
  BY DEF RecordInv
<1>2. /\ deleter[c] = "memory" /\ deleter' = [deleter EXCEPT ![c] = "done"]
      /\ live' = [live EXCEPT ![c] = Absent]
      /\ UNCHANGED <<mix, phase, inserter, ender, jobs, row, wav, script, ratings, accepted,
                     lost, busy>>
  BY DEF RemoveCall, tables
<1>3. PICK rows \in SetToSeqs(DOMAIN history \ LogsOf(c)) :
        history' = [i \in DOMAIN rows |-> history[rows[i]]]
  BY DEF RemoveCall
<1>4. /\ history' \in Seq(LogRecord) /\ Len(history') <= MaxHistory
      /\ \A i \in DOMAIN history' : \E j \in DOMAIN history \ LogsOf(c) : history'[i] = history[j]
  <2>1. history \in Seq(LogRecord) /\ Len(history) <= MaxHistory /\ MaxHistory \in Nat
        /\ Len(history) \in Nat
    BY <1>1, RecordTypes, RecordAssumption, LenProperties
  <2>2. PICK K \in SUBSET DOMAIN history : K = DOMAIN history \ LogsOf(c)
    OBVIOUS
  <2>3. PICK n \in Nat : n <= Len(history) /\ rows \in [1..n -> K]
    BY <2>1, <2>2, RowsKept
  <2>4. DOMAIN history' = 1..n /\ \A i \in 1..n : rows[i] \in K /\ history'[i] = history[rows[i]]
    BY <1>3, <2>3
  <2>5. \A i \in 1..n : history'[i] \in LogRecord
    BY <2>1, <2>4, LenProperties, ElementOfSeq
  <2>6. history' \in [1..n -> LogRecord]
    BY <1>3, <2>3, <2>4, <2>5
  <2>7. history' \in Seq(LogRecord) /\ Len(history') = n
    BY <2>3, <2>6, SeqDef, LenProperties
  <2> QED BY <2>1, <2>2, <2>3, <2>4, <2>7
<1>5. LogsOf(c)' = {} /\ \A d \in Calls : LogsOf(d) = {} => LogsOf(d)' = {}
  BY <1>4 DEF LogsOf
<1>6. /\ live' \in [Calls -> (SUBSET Marks) \cup {Absent}] /\ live'[c] = Absent
      /\ \A d \in Calls \ {c} : live'[d] = live[d]
      /\ deleter' \in [Calls -> {"none", "rows", "memory", "done", "failed"}]
      /\ deleter'[c] = "done" /\ \A d \in Calls \ {c} : deleter'[d] = deleter[d]
  BY <1>1, <1>2, RecordTypes
<1>7. RecordTypeOK'
  BY <1>1, <1>2, <1>4, <1>6, RecordTypes DEF RecordTypeOK, LogRecord
<1>8. OthersUntouched(c)
  BY <1>2, <1>5, <1>6 DEF OthersUntouched, Untouched, JobOf
<1>9. Stored'
  BY <1>1, <1>2, StoredShrinks
<1>10. Traced(c)' /\ Filed(c)' /\ Ordered(c)'
  BY <1>1, <1>2, <1>6 DEF Traced, Filed, Ordered
<1>11. Left(c)'
  BY <1>1, <1>2, <1>5, <1>6 DEF Left, Peace, Unfinished
<1> QED BY <1>7, <1>8, <1>9, <1>10, <1>11, OneCall

\* One goroutine less.
LEMMA JobGone ==
  ASSUME RecordTypeOK, NEW j \in BagToSet(jobs), jobs' = jobs (-) SetToBag({j})
  PROVE  /\ j \in Jobs /\ j.call \in Calls /\ j.marks \in SUBSET Marks
         /\ j.kind \in {"call", "update"} /\ (j.kind = "update" => j = [kind |-> "update",
              call |-> j.call, marks |-> j.marks] /\ \E m \in Marks : j.marks = {m})
         /\ IsABag(jobs') /\ BagToSet(jobs') \subseteq Jobs
         /\ BagToSet(jobs') \subseteq BagToSet(jobs)
         /\ BagToSet(jobs) \ {j} \subseteq BagToSet(jobs')
         /\ \A d \in Calls \ {j.call} : \A x : JobOf(d, x)' <=> JobOf(d, x)
<1>1. IsABag(jobs) /\ BagToSet(jobs) \subseteq Jobs
  BY RecordTypes
<1>2. /\ IsABag(jobs') /\ BagToSet(jobs') \subseteq BagToSet(jobs)
      /\ BagToSet(jobs) \ {j} \subseteq BagToSet(jobs')
  BY <1>1, BagRemoveSet
<1>3. j \in Jobs
  BY <1>1
<1>4. \/ j \in [kind : {"call"}, call : Calls, marks : SUBSET Marks]
      \/ j \in [kind : {"update"}, call : Calls, marks : {{m} : m \in Marks}]
  BY <1>3 DEF Jobs
<1>5. \A d \in Calls \ {j.call} : \A x : JobOf(d, x)' <=> JobOf(d, x)
  BY <1>2 DEF JobOf
<1> QED BY <1>1, <1>2, <1>3, <1>4, <1>5

\* The statement of a goroutine adds to a row and never takes from it.
LEMMA JobRunsKeeps ==
  ASSUME RecordInv, NEW j \in BagToSet(jobs), JobRuns(j)
  PROVE  j.call \in Calls /\ RecordInv' /\ OthersUntouched(j.call)
<1> DEFINE c == j.call
<1>1. RecordTypeOK /\ Stored
  BY DEF RecordInv
<1>2. /\ jobs' = jobs (-) SetToBag({j})
      /\ row' = [row EXCEPT ![c] = IF j.kind = "call" THEN Saved(row[c], j.marks)
                                   ELSE IF row[c] = Absent THEN row[c] ELSE row[c] \cup j.marks]
      /\ lost' = IF j.kind = "update" /\ row[c] = Absent
                 THEN [lost EXCEPT ![c] = lost[c] \cup {m \in j.marks : ~Carried(c, m)}] ELSE lost
      /\ UNCHANGED <<mix, phase, inserter, ender, live, history, deleter, wav, script, ratings,
                     accepted, busy>>
  BY DEF JobRuns
<1>3. /\ j \in Jobs /\ c \in Calls /\ j.marks \in SUBSET Marks
      /\ j.kind \in {"call", "update"}
      /\ IsABag(jobs') /\ BagToSet(jobs') \subseteq Jobs
      /\ BagToSet(jobs') \subseteq BagToSet(jobs)
      /\ BagToSet(jobs) \ {j} \subseteq BagToSet(jobs')
      /\ \A d \in Calls \ {c} : \A x : JobOf(d, x)' <=> JobOf(d, x)
  BY <1>1, <1>2, JobGone
<1> HIDE DEF c
<1>4. Traced(c) /\ Filed(c) /\ Ordered(c) /\ Left(c)
  BY <1>3 DEF RecordInv
<1>5. row \in [Calls -> (SUBSET (Marks \cup {"recording"})) \cup {Absent}]
      /\ lost \in [Calls -> SUBSET Marks] /\ Marks \subseteq Marks \cup {"recording"}
  BY <1>1, RecordTypes
<1>6. /\ row' \in [Calls -> (SUBSET (Marks \cup {"recording"})) \cup {Absent}]
      /\ \A d \in Calls \ {c} : row'[d] = row[d]
      /\ row[c] # Absent => row[c] \subseteq row'[c]
      /\ j.kind = "call" \/ row[c] # Absent => j.marks \subseteq row'[c]
      /\ row[c] = Absent /\ j.kind # "call" => row'[c] = Absent
  <2>1. CASE j.kind = "call"
    <3>1. row' = [row EXCEPT ![c] = Saved(row[c], j.marks)]
      BY <1>2, <2>1
    <3>2. CASE row[c] = Absent
      <4>1. Saved(row[c], j.marks) = j.marks
        BY <3>2 DEF Saved
      <4> QED BY <1>3, <1>5, <2>1, <3>1, <3>2, <4>1
    <3>3. CASE row[c] # Absent
      <4>1. Saved(row[c], j.marks) = row[c] \cup j.marks
        BY <3>3 DEF Saved
      <4>2. row[c] \cup j.marks \in SUBSET (Marks \cup {"recording"})
        BY <1>3, <1>5, <3>3
      <4> QED BY <1>3, <1>5, <2>1, <3>1, <3>3, <4>1, <4>2
    <3> QED BY <3>2, <3>3
  <2>2. CASE j.kind # "call" /\ row[c] = Absent
    <3>1. row' = [row EXCEPT ![c] = row[c]]
      BY <1>2, <2>2
    <3> QED BY <1>3, <1>5, <2>2, <3>1
  <2>3. CASE j.kind # "call" /\ row[c] # Absent
    <3>1. row' = [row EXCEPT ![c] = row[c] \cup j.marks]
      BY <1>2, <2>3
    <3>2. row[c] \cup j.marks \in SUBSET (Marks \cup {"recording"})
      BY <1>3, <1>5, <2>3
    <3> QED BY <1>3, <1>5, <2>3, <3>1, <3>2
  <2> QED BY <2>1, <2>2, <2>3
<1>7. /\ lost' \in [Calls -> SUBSET Marks] /\ lost[c] \subseteq lost'[c]
      /\ \A d \in Calls \ {c} : lost'[d] = lost[d]
      /\ j.kind = "update" /\ row[c] = Absent =>
           \A m \in j.marks : Carried(c, m) \/ m \in lost'[c]
  BY <1>2, <1>3, <1>5
<1>8. RecordTypeOK'
  BY <1>1, <1>2, <1>3, <1>6, <1>7, RecordTypes DEF RecordTypeOK
<1>9. OthersUntouched(c)
  BY <1>2, <1>3, <1>6, <1>7 DEF OthersUntouched, Untouched, LogsOf
<1>10. Stored'
  BY <1>1, <1>3, <1>6, StoredGrows
<1>11. Traced(c)'
  <2> SUFFICES ASSUME deleter[c] \notin {"memory", "done"}, NEW m \in accepted[c] \ lost'[c]
               PROVE  m \in row'[c] \/ Carried(c, m)' \/ Update(c, m) \in BagToSet(jobs')
    BY <1>2 DEF Traced, Update
  <2>1. m \notin Absent
    BY <1>1, <1>3, RecordTypes DEF Marks, Absent
  <2>2. m \in row[c] \/ Carried(c, m) \/ Update(c, m) \in BagToSet(jobs)
    BY <1>2, <1>4, <1>7 DEF Traced
  <2>3. CASE m \in row[c]
    BY <1>6, <2>1, <2>3
  <2>4. CASE Carried(c, m)
    <3>1. CASE m \in live[c]
      BY <1>2, <3>1 DEF Carried
    <3>2. CASE m \notin live[c]
      <4>1. PICK x \in BagToSet(jobs) : x.kind = "call" /\ x.call = c /\ m \in x.marks
        BY <2>4, <3>2 DEF Carried
      <4>2. CASE x = j
        BY <1>6, <4>1, <4>2
      <4>3. CASE x # j
        BY <1>3, <4>1, <4>3 DEF Carried
      <4> QED BY <4>2, <4>3
    <3> QED BY <3>1, <3>2
  <2>5. CASE Update(c, m) \in BagToSet(jobs)
    <3>1. CASE Update(c, m) = j
      <4>1. j.kind = "update" /\ j.marks = {m}
        BY <3>1 DEF Update
      <4>2. CASE row[c] # Absent
        BY <1>6, <4>1, <4>2
      <4>3. CASE row[c] = Absent
        <5>1. Carried(c, m)
          BY <1>7, <4>1, <4>3
        <5> QED BY <2>4, <5>1
      <4> QED BY <4>2, <4>3
    <3>2. CASE Update(c, m) # j
      BY <1>3, <2>5, <3>2
    <3> QED BY <3>1, <3>2
  <2> QED BY <2>2, <2>3, <2>4, <2>5
<1>12. Filed(c)' /\ Ordered(c)'
  BY <1>2, <1>4 DEF Filed, Ordered
<1>13. Left(c)'
  <2> SUFFICES ASSUME Peace(c)
               PROVE  /\ ~Unfinished(c)' /\ row'[c] = Absent /\ script[c] # "saved"
                      /\ ratings[Home][c] = 0
                      /\ deleter[c] = "done" => LogsOf(c)' = {}
    BY <1>2 DEF Left, Peace
  <2>1. ~Unfinished(c) /\ row[c] = Absent /\ script[c] # "saved" /\ ratings[Home][c] = 0
        /\ (deleter[c] = "done" => LogsOf(c) = {})
    BY <1>4 DEF Left
  <2>2. j.kind # "call"
    BY <2>1 DEF Unfinished, c
  <2>3. ~Unfinished(c)'
    BY <1>2, <1>3, <2>1 DEF Unfinished
  <2> QED BY <1>2, <1>6, <2>1, <2>2, <2>3 DEF LogsOf
<1> QED BY <1>3, <1>8, <1>9, <1>10, <1>11, <1>12, <1>13, OneCall DEF c

\* The error of a goroutine costs the marks it carried.
LEMMA JobFailsKeeps ==
  ASSUME RecordInv, NEW j \in BagToSet(jobs), JobFails(j)
  PROVE  j.call \in Calls /\ RecordInv' /\ OthersUntouched(j.call)
<1> DEFINE c == j.call
<1>1. RecordTypeOK /\ Stored
  BY DEF RecordInv
<1>2. /\ jobs' = jobs (-) SetToBag({j})
      /\ lost' = [lost EXCEPT ![c] = lost[c] \cup j.marks]
      /\ UNCHANGED <<mix, phase, inserter, ender, live, history, deleter, row, wav, script, ratings,
                     accepted, busy>>
  BY DEF JobFails, tables
<1>3. /\ j \in Jobs /\ c \in Calls /\ j.marks \in SUBSET Marks
      /\ IsABag(jobs') /\ BagToSet(jobs') \subseteq Jobs
      /\ BagToSet(jobs') \subseteq BagToSet(jobs)
      /\ BagToSet(jobs) \ {j} \subseteq BagToSet(jobs')
      /\ \A d \in Calls \ {c} : \A x : JobOf(d, x)' <=> JobOf(d, x)
  BY <1>1, <1>2, JobGone
<1> HIDE DEF c
<1>4. Traced(c) /\ Filed(c) /\ Ordered(c) /\ Left(c)
  BY <1>3 DEF RecordInv
<1>5. /\ lost' \in [Calls -> SUBSET Marks] /\ lost'[c] = lost[c] \cup j.marks
      /\ \A d \in Calls \ {c} : lost'[d] = lost[d]
  BY <1>1, <1>2, <1>3, RecordTypes
<1>6. RecordTypeOK'
  BY <1>1, <1>2, <1>3, <1>5, RecordTypes DEF RecordTypeOK
<1>7. OthersUntouched(c)
  BY <1>2, <1>3, <1>5 DEF OthersUntouched, Untouched, LogsOf
<1>8. Stored'
  BY <1>1, <1>2, StoredShrinks
<1>9. Traced(c)'
  <2> SUFFICES ASSUME deleter[c] \notin {"memory", "done"}, NEW m \in accepted[c] \ lost'[c]
               PROVE  m \in row[c] \/ Carried(c, m)' \/ Update(c, m) \in BagToSet(jobs')
    BY <1>2 DEF Traced, Update
  <2>1. m \in row[c] \/ Carried(c, m) \/ Update(c, m) \in BagToSet(jobs)
    BY <1>4, <1>5 DEF Traced
  <2>2. m \notin j.marks
    BY <1>5
  <2>3. CASE m \in row[c]
    BY <2>3
  <2>4. CASE Carried(c, m)
    BY <1>2, <1>3, <2>2, <2>4 DEF Carried
  <2>5. CASE Update(c, m) \in BagToSet(jobs)
    <3>1. Update(c, m) # j
      BY <2>2 DEF Update
    <3> QED BY <1>3, <2>5, <3>1
  <2> QED BY <2>1, <2>3, <2>4, <2>5
<1>10. Filed(c)' /\ Ordered(c)'
  BY <1>2, <1>4 DEF Filed, Ordered
<1>11. Left(c)'
  <2>1. Unfinished(c)' => Unfinished(c)
    BY <1>2, <1>3 DEF Unfinished
  <2> QED BY <1>2, <1>4, <2>1 DEF Left, Peace, LogsOf
<1> QED BY <1>3, <1>6, <1>7, <1>8, <1>9, <1>10, <1>11, OneCall DEF c

\* The newest rows, which are rows.
LEMMA NewestRows ==
  ASSUME NEW h \in Seq(LogRecord)
  PROVE  /\ Newest(h) \in Seq(LogRecord) /\ Len(Newest(h)) <= MaxHydrated
         /\ \A i \in DOMAIN Newest(h) : \E j \in DOMAIN h : Newest(h)[i] = h[j]
<1>1. MaxHydrated \in Nat \ {0} /\ Len(h) \in Nat /\ DOMAIN h = 1..Len(h)
      /\ \A i \in 1..Len(h) : h[i] \in LogRecord
  BY RecordAssumption, LenProperties, ElementOfSeq
<1>2. CASE Len(h) > MaxHydrated
  <2> DEFINE m == Len(h) - MaxHydrated + 1
             s == SubSeq(h, m, Len(h))
  <2>1. m \in Int /\ Len(h) \in Int /\ m \in 1..Len(h) /\ Len(h) - m + 1 = MaxHydrated
    BY <1>1, <1>2
  <2>2. \A i \in m..Len(h) : h[i] \in LogRecord
    BY <1>1, <2>1
  <2> HIDE DEF m
  <2>3. /\ s \in Seq(LogRecord) /\ Len(s) = MaxHydrated
        /\ \A i \in 1..MaxHydrated : s[i] = h[m + i - 1]
    BY <1>1, <2>1, <2>2, SubSeqProperties
  <2>4. DOMAIN s = 1..MaxHydrated
    BY <2>3, LenProperties
  <2>5. \A i \in 1..MaxHydrated : m + i - 1 \in 1..Len(h)
    BY <1>1, <2>1
  <2>6. Newest(h) = s
    BY <1>2 DEF Newest, m
  <2> HIDE DEF s
  <2> QED BY <1>1, <2>3, <2>4, <2>5, <2>6
<1>3. CASE ~(Len(h) > MaxHydrated)
  <2>1. Newest(h) = h
    BY <1>3 DEF Newest
  <2> QED BY <1>1, <1>3, <2>1
<1> QED BY <1>2, <1>3

\* What hydrateHistory reads is a history of the calls that have rows.
LEMMA Hydrated ==
  ASSUME RecordTypeOK, Stored, NEW order \in SetToSeqs({c \in Calls : row[c] # Absent}),
         NEW h, h = Newest([i \in DOMAIN order |-> [call |-> order[i], marks |-> row[order[i]]]])
  PROVE  /\ h \in Seq(LogRecord) /\ Len(h) <= MaxHistory
         /\ \A i \in DOMAIN h : h[i].call \in Calls /\ row[h[i].call] # Absent
<1>1. PICK K : K = {c \in Calls : row[c] # Absent}
  OBVIOUS
<1>2. IsFiniteSet(K) /\ Cardinality(K) \in Nat
  BY <1>1, FS_CardinalityType DEF Stored
<1>3. PICK n \in Nat : order \in [1..n -> K]
  <2>1. order \in {f \in [1..Cardinality(K) -> K] :
                     \A i, j \in 1..Cardinality(K) : i # j => f[i] # f[j]}
    BY <1>1, Zenon DEF SetToSeqs
  <2> QED BY <1>2, <2>1
<1>4. row \in [Calls -> (SUBSET (Marks \cup {"recording"})) \cup {Absent}]
  BY RecordTypes
<1> DEFINE g == [i \in DOMAIN order |-> [call |-> order[i], marks |-> row[order[i]]]]
<1>5. DOMAIN g = 1..n /\ \A i \in 1..n : g[i] = [call |-> order[i], marks |-> row[order[i]]]
  BY <1>3
<1>6. \A i \in 1..n : order[i] \in Calls /\ row[order[i]] # Absent
                      /\ row[order[i]] \in SUBSET (Marks \cup {"recording"})
  BY <1>1, <1>3, <1>4
<1>7. \A i \in 1..n : g[i] \in LogRecord /\ g[i].call \in Calls /\ row[g[i].call] # Absent
  BY <1>5, <1>6 DEF LogRecord
<1>8. g \in [1..n -> LogRecord]
  BY <1>3, <1>7
<1>9. g \in Seq(LogRecord)
  BY <1>3, <1>8, SeqDef
<1>10. h = Newest(g)
  OBVIOUS
<1> HIDE DEF g
<1>11. /\ Newest(g) \in Seq(LogRecord) /\ Len(Newest(g)) <= MaxHistory
       /\ \A i \in DOMAIN Newest(g) : \E j \in DOMAIN g : Newest(g)[i] = g[j]
  <2>1. /\ Newest(g) \in Seq(LogRecord) /\ Len(Newest(g)) <= MaxHydrated
        /\ \A i \in DOMAIN Newest(g) : \E j \in DOMAIN g : Newest(g)[i] = g[j]
    BY <1>9, NewestRows
  <2>2. Len(Newest(g)) \in Nat /\ MaxHydrated \in 1..MaxHistory /\ MaxHistory \in Nat
    BY <2>1, RecordAssumption, LenProperties
  <2> QED BY <2>1, <2>2
<1>12. \A j \in DOMAIN g : g[j].call \in Calls /\ row[g[j].call] # Absent
  BY <1>5, <1>7
<1>13. ASSUME NEW i \in DOMAIN h PROVE h[i].call \in Calls /\ row[h[i].call] # Absent
  <2>1. PICK j \in DOMAIN g : h[i] = g[j]
    BY <1>10, <1>11
  <2> QED BY <1>12, <2>1
<1> QED BY <1>10, <1>11, <1>13

\* The process dies: what was in memory is gone, and what it had not handed on is lost.
LEMMA RestartKeeps ==
  ASSUME RecordInv, Restart
  PROVE  RecordInv'
<1>1. RecordTypeOK /\ Stored
  BY DEF RecordInv
<1>2. /\ phase' = [c \in Calls |-> IF phase[c] = "new" THEN "new" ELSE "ended"]
      /\ inserter' = [c \in Calls |-> "idle"] /\ ender' = [c \in Calls |-> "none"]
      /\ live' = [c \in Calls |-> Absent] /\ jobs' = EmptyBag
      /\ script' = [c \in Calls |-> IF script[c] = "due" THEN "over" ELSE script[c]]
      /\ deleter' = [c \in Calls |-> IF deleter[c] = "rows" THEN "failed"
                                     ELSE IF deleter[c] = "memory" THEN "done" ELSE deleter[c]]
      /\ lost' = [c \in Calls |-> lost[c] \cup (accepted[c] \ row[c])]
      /\ UNCHANGED <<mix, row, wav, ratings, accepted, busy>>
  BY DEF Restart
<1>3. /\ history' \in Seq(LogRecord) /\ Len(history') <= MaxHistory
      /\ \A i \in DOMAIN history' : row[history'[i].call] # Absent
  <2>1. PICK o \in Outcome, order \in SetToSeqs({c \in Calls : row[c] # Absent}) :
          history' = IF o = "error" THEN <<>>
                     ELSE Newest([i \in DOMAIN order |-> [call |-> order[i], marks |-> row[order[i]]]])
    BY DEF Restart
  <2>2. CASE o = "error"
    <3>1. history' = <<>>
      BY <2>1, <2>2
    <3>2. <<>> \in Seq(LogRecord) /\ Len(<<>>) = 0 /\ DOMAIN <<>> = {}
      OBVIOUS
    <3> QED BY <3>1, <3>2, RecordAssumption
  <2>3. CASE o # "error"
    <3>1. history' = Newest([i \in DOMAIN order |-> [call |-> order[i], marks |-> row[order[i]]]])
      BY <2>1, <2>3
    <3>2. PICK h : h = history'
      OBVIOUS
    <3>3. h = Newest([i \in DOMAIN order |-> [call |-> order[i], marks |-> row[order[i]]]])
      BY <3>1, <3>2
    <3>4. /\ h \in Seq(LogRecord) /\ Len(h) <= MaxHistory
          /\ \A i \in DOMAIN h : h[i].call \in Calls /\ row[h[i].call] # Absent
      BY <1>1, <3>3, Hydrated
    <3> QED BY <3>2, <3>4
  <2> QED BY <2>2, <2>3
<1>4. IsABag(jobs') /\ BagToSet(jobs') = {}
  BY <1>2, EmptyBagSet
<1>5. RecordTypeOK'
  <2>1. /\ phase' \in [Calls -> {"new", "ringing", "active", "ended"}]
        /\ inserter' \in [Calls -> {"idle", "due", "done"}]
        /\ ender' \in [Calls -> {"none", "recording", "again", "automate", "done"}]
        /\ live' \in [Calls -> (SUBSET Marks) \cup {Absent}]
        /\ script' \in [Calls -> {"none", "due", "saved", "over"}]
        /\ deleter' \in [Calls -> {"none", "rows", "memory", "done", "failed"}]
    BY <1>1, <1>2, RecordTypes
  <2>2. lost' \in [Calls -> SUBSET Marks]
    BY <1>1, <1>2, RecordTypes
  <2> QED BY <1>1, <1>2, <1>3, <1>4, <2>1, <2>2, RecordTypes DEF RecordTypeOK, LogRecord
<1>6. Stored'
  BY <1>1, <1>2, StoredShrinks
<1>7. ASSUME NEW c \in Calls PROVE Traced(c)' /\ Filed(c)' /\ Ordered(c)' /\ Left(c)'
  <2>1. Filed(c) /\ Left(c)
    BY DEF RecordInv
  <2>2. Traced(c)'
    BY <1>2 DEF Traced
  <2>3. Filed(c)' /\ Ordered(c)'
    <3>1. (deleter'[c] # "none" => deleter[c] # "none")
          /\ (phase[c] # "new" => phase'[c] # "new") /\ ender'[c] = "none"
      BY <1>2
    <3> QED BY <1>2, <2>1, <3>1 DEF Filed, Ordered
  <2>4. Left(c)'
    <3> SUFFICES ASSUME Peace(c)'
                 PROVE  /\ ~Unfinished(c)' /\ row[c] = Absent /\ script'[c] # "saved"
                        /\ ratings[Home][c] = 0 /\ LogsOf(c)' = {}
      BY <1>2 DEF Left
    <3>1. Peace(c)
      BY <1>1, <1>2, RecordTypes DEF Peace
    <3>2. ~Unfinished(c) /\ row[c] = Absent /\ script[c] # "saved" /\ ratings[Home][c] = 0
      BY <2>1, <3>1 DEF Left
    <3>3. ~Unfinished(c)'
      BY <1>2, <1>4, <3>2 DEF Unfinished
    <3>4. LogsOf(c)' = {}
      BY <1>3, <3>2 DEF LogsOf
    <3> QED BY <1>2, <3>2, <3>3, <3>4
  <2> QED BY <2>2, <2>3, <2>4
<1> QED BY <1>5, <1>6, <1>7 DEF RecordInv

\* Nothing has happened yet.
LEMMA RecordInvInit == RecordInit => RecordInv
<1> SUFFICES ASSUME RecordInit PROVE RecordInv
  OBVIOUS
<1>1. IsABag(jobs) /\ BagToSet(jobs) = {}
  BY EmptyBagSet DEF RecordInit
<1>2. history \in Seq(LogRecord) /\ Len(history) <= MaxHistory
  <2>1. <<>> \in Seq(LogRecord) /\ Len(<<>>) = 0
    OBVIOUS
  <2> QED BY <2>1, RecordAssumption DEF RecordInit
<1>3. RecordTypeOK
  BY <1>1, <1>2 DEF RecordInit, RecordTypeOK, LogRecord
<1>4. Stored
  <2>1. {c \in Calls : row[c] # Absent} = {}
    BY DEF RecordInit
  <2> QED BY <2>1, FS_EmptySet DEF Stored
<1>5. \A c \in Calls : Traced(c) /\ Filed(c) /\ Ordered(c) /\ Left(c)
  BY DEF RecordInit, Traced, Filed, Ordered, Left, Peace
<1> QED BY <1>3, <1>4, <1>5 DEF RecordInv

-------------------------------------------------------------------------------
(* The conversations: what holds of the engines and of the messages.       *)

Steps == {"new", "over", "posted", "dropped"} \cup Handling \cup Pushing
Message == [at : Sessions, answers : Calls \cup {NoCall}, step : Steps]

\* onEnded is done with a call that has a follow-up or a survey.
Over(c) == phase[c] = "ended" /\ ender[c] \in {"none", "done"}
Late(c) == timer[c] # "none" \/ survey[c] # "none" => Over(c)

\* Nobody answers the survey of a call deleted in peace.
Settled(c) == Peace(c) => ~Surveying(c)

\* The phone's entry names the timer that is armed; one that was called off has stopped.
FollowedUp(c) ==
  /\ timer[c] = "armed" => pendingTimer = c \/ c \in orphaned
  /\ c \in calledOff \ orphaned => timer[c] \in {"stopped", "over"}

\* A message answers a survey from the time it has found it.
Answering(m) ==
  /\ msg[m].step \in {"new", "lookup"} => msg[m].answers = NoCall
  /\ msg[m].step \in {"take", "rate"} => msg[m].answers \in Calls

\* A survey goes from its goroutine to the phone's entry to one message to one rating.
Holds(m, c) == msg[m].answers = c /\ msg[m].step \in {"take", "rate"}
Unrated(c) == \A s \in Sessions : ratings[s][c] = 0
SurveyedOnce(c) ==
  c \notin doubled =>
    /\ survey[c] # "over" => /\ pendingSurvey # c /\ Unrated(c)
                             /\ \A m \in Messages : ~Holds(m, c)
    /\ pendingSurvey = c => Unrated(c)
    /\ \A m \in Messages : Holds(m, c) =>
         /\ Unrated(c) /\ \A o \in Messages : Holds(o, c) => o = m
         /\ At(m, "rate") => pendingSurvey # c
    /\ RatedOnce(c)

\* Only one push creates, and only what is not there.
OneCreates ==
  ~crossed /\ ~troubled =>
    /\ open <= 1
    /\ \A m \in Messages :
         /\ ~At(m, "dropped")
         /\ At(m, "create") => ~contact /\ \A o \in Messages : At(o, "create") => o = m
         /\ At(m, "converse") => open = 0 /\ \A o \in Messages : At(o, "converse") => o = m

EngineTypeOK ==
  /\ timer \in [Calls -> {"none", "armed", "fired", "erased", "sent", "stopped", "over"}]
  /\ pendingTimer \in Calls \cup {NoCall}
  /\ survey \in [Calls -> {"none", "asleep", "asked", "over"}]
  /\ pendingSurvey \in Calls \cup {NoCall} /\ expired \in BOOLEAN
  /\ calledOff \subseteq Calls /\ orphaned \subseteq Calls
ChatTypeOK ==
  /\ msg \in [Messages -> Message]
  /\ contact \in BOOLEAN /\ open \in Nat
  /\ doubled \subseteq Calls /\ crossed \in BOOLEAN /\ troubled \in BOOLEAN

ConversationInv ==
  /\ RecordInv /\ EngineTypeOK /\ ChatTypeOK
  /\ \A c \in Calls : Late(c) /\ Settled(c) /\ FollowedUp(c) /\ SurveyedOnce(c)
  /\ \A m \in Messages : Answering(m)
  /\ OneCreates

\* The invariant types every variable.
LEMMA ConversationTypes == ConversationInv => ConversationTypeOK
BY DEF ConversationInv, RecordInv, EngineTypeOK, ChatTypeOK, ConversationTypeOK, Message, Steps

\* A message that goes a step on.
LEMMA MessageStep ==
  ASSUME ChatTypeOK, NEW m \in Messages, NEW step \in Steps, To(m, step)
  PROVE  /\ msg' \in [Messages -> Message]
         /\ msg'[m].step = step /\ msg'[m].answers = msg[m].answers /\ msg'[m].at = msg[m].at
         /\ \A o \in Messages \ {m} : msg'[o] = msg[o]
<1>1. msg \in [Messages -> Message] /\ msg[m] \in Message
  BY DEF ChatTypeOK
<1>2. msg' = [msg EXCEPT ![m] = [msg[m] EXCEPT !.step = step]]
  BY <1>1 DEF To
<1>3. /\ [msg[m] EXCEPT !.step = step] \in Message
      /\ [msg[m] EXCEPT !.step = step].step = step
      /\ [msg[m] EXCEPT !.step = step].answers = msg[m].answers
      /\ [msg[m] EXCEPT !.step = step].at = msg[m].at
  BY <1>1 DEF Message
<1> QED BY <1>1, <1>2, <1>3

\* A step of the records of one call.
LEMMA RecordStep ==
  ASSUME ConversationInv, NEW c \in Calls, RecordInv', OthersUntouched(c),
         UNCHANGED conversationVars, Over(c) => Over(c)',
         Peace(c)' => Peace(c) \/ ~Surveying(c),
         \A s \in Sessions : ratings'[s][c] \in {ratings[s][c], 0}
  PROVE  ConversationInv'
<1>1. /\ RecordTypeOK /\ EngineTypeOK /\ ChatTypeOK
      /\ \A d \in Calls : Late(d) /\ Settled(d) /\ FollowedUp(d) /\ SurveyedOnce(d)
      /\ \A m \in Messages : Answering(m)
      /\ OneCreates
  BY DEF ConversationInv, RecordInv
<1>2. UNCHANGED <<timer, pendingTimer, survey, pendingSurvey, expired, calledOff, orphaned,
                  msg, contact, open, doubled, crossed, troubled>>
  BY DEF conversationVars, engineVars, chatVars
<1>3. ASSUME NEW d \in Calls
      PROVE  /\ Over(d) => Over(d)'
             /\ Peace(d)' => Peace(d) \/ ~Surveying(d)
             /\ \A s \in Sessions : ratings'[s][d] \in {ratings[s][d], 0}
  <2>1. CASE d = c
    BY <2>1
  <2>2. CASE d # c
    <3>1. Untouched(d)
      BY <2>2 DEF OthersUntouched
    <3> QED BY <3>1 DEF Untouched, Over, Peace
  <2> QED BY <2>1, <2>2
<1>4. EngineTypeOK' /\ ChatTypeOK'
  BY <1>1, <1>2 DEF EngineTypeOK, ChatTypeOK
<1>5. ASSUME NEW d \in Calls PROVE Late(d)' /\ Settled(d)' /\ FollowedUp(d)'
  <2>1. Late(d) /\ Settled(d) /\ FollowedUp(d)
    BY <1>1
  <2>2. Late(d)'
    BY <1>2, <1>3, <2>1 DEF Late
  <2>3. Settled(d)'
    <3>1. Surveying(d)' <=> Surveying(d)
      BY <1>2 DEF Surveying
    <3> QED BY <1>3, <2>1, <3>1 DEF Settled
  <2>4. FollowedUp(d)'
    BY <1>2, <2>1 DEF FollowedUp
  <2> QED BY <2>2, <2>3, <2>4
<1>6. ASSUME NEW d \in Calls PROVE SurveyedOnce(d)'
  <2>1. SurveyedOnce(d)
    BY <1>1
  <2>2. Unrated(d) => Unrated(d)'
    BY <1>3 DEF Unrated
  <2>3. RatedOnce(d) => RatedOnce(d)'
    <3>1. \A s \in Sessions : ratings[s][d] \in Nat
      BY <1>1, RecordTypes
    <3> QED BY <1>3, <3>1 DEF RatedOnce
  <2>4. \A m \in Messages : /\ Holds(m, d)' <=> Holds(m, d)
                            /\ At(m, "rate")' <=> At(m, "rate")
    BY <1>2 DEF Holds, At
  <2> QED BY <1>2, <2>1, <2>2, <2>3, <2>4 DEF SurveyedOnce
<1>7. \A m \in Messages : Answering(m)'
  BY <1>1, <1>2 DEF Answering
<1>8. OneCreates'
  BY <1>1, <1>2 DEF OneCreates, At
<1> QED BY <1>4, <1>5, <1>6, <1>7, <1>8 DEF ConversationInv

-------------------------------------------------------------------------------
(* The conversations: every action keeps it.                               *)

\* What no step of the records has to touch.
LEMMA RecordsStay == ASSUME RecordInv, UNCHANGED recordVars PROVE RecordInv'
<1>1. UNCHANGED <<mix, phase, inserter, ender, live, history, jobs, deleter, row, wav, script,
                  ratings, accepted, lost, busy>>
  BY DEF recordVars, memoryVars, tables
<1>2. RecordTypeOK' /\ Stored'
  BY <1>1 DEF RecordInv, RecordTypeOK, Stored
<1>3. ASSUME NEW c \in Calls PROVE Traced(c)' /\ Filed(c)' /\ Ordered(c)' /\ Left(c)'
  BY <1>1 DEF RecordInv, Traced, Filed, Ordered, Left, Peace, Carried, Unfinished, LogsOf, Update
<1> QED BY <1>2, <1>3 DEF RecordInv

\* Where no message moves, what holds of messages stays.
LEMMA ChatStays ==
  ASSUME ConversationInv, UNCHANGED chatVars
  PROVE  ChatTypeOK' /\ (\A m \in Messages : Answering(m)') /\ OneCreates'
BY DEF ConversationInv, chatVars, ChatTypeOK, Answering, OneCreates, At

\* Where no survey moves, what holds of surveys stays.
LEMMA SurveyStays ==
  ASSUME ConversationInv, UNCHANGED <<survey, pendingSurvey, msg, doubled, ratings, busy, deleter>>
  PROVE  \A c \in Calls : SurveyedOnce(c)' /\ Settled(c)'
<1> SUFFICES ASSUME NEW c \in Calls PROVE SurveyedOnce(c)' /\ Settled(c)'
  OBVIOUS
<1>1. SurveyedOnce(c) /\ Settled(c)
  BY DEF ConversationInv
<1>2. SurveyedOnce(c)'
  BY <1>1 DEF SurveyedOnce, Holds, Unrated, RatedOnce, At
<1>3. Settled(c)'
  BY <1>1 DEF Settled, Peace, Surveying
<1> QED BY <1>2, <1>3

\* Where no timer moves, what holds of timers stays.
LEMMA TimersStay ==
  ASSUME ConversationInv, UNCHANGED <<timer, pendingTimer, calledOff, orphaned>>
  PROVE  \A c \in Calls : FollowedUp(c)'
BY DEF ConversationInv, FollowedUp

\* The end of onEnded, of which there is one for each call.
LEMMA EnderDone ==
  ASSUME RecordInv, NEW c \in Calls, ender[c] = "automate", ender' = [ender EXCEPT ![c] = "done"],
         UNCHANGED <<mix, phase, inserter, live, history, jobs, deleter, tables, accepted, lost,
                     busy>>
  PROVE  RecordInv' /\ (\A d \in Calls : Over(d) => Over(d)') /\ Over(c)'
<1>1. RecordTypeOK /\ Stored /\ Traced(c) /\ Filed(c) /\ Ordered(c) /\ Left(c)
  BY DEF RecordInv
<1>2. UNCHANGED <<mix, phase, inserter, live, history, jobs, deleter, row, wav, script, ratings,
                  accepted, lost, busy>>
  BY DEF tables
<1>3. /\ ender' \in [Calls -> {"none", "recording", "again", "automate", "done"}]
      /\ ender'[c] = "done" /\ \A d \in Calls \ {c} : ender'[d] = ender[d]
  BY <1>1, RecordTypes
<1>4. RecordTypeOK'
  BY <1>1, <1>2, <1>3, RecordTypes DEF RecordTypeOK, LogRecord
<1>5. OthersUntouched(c)
  BY <1>2, <1>3 DEF OthersUntouched, Untouched, JobOf, LogsOf
<1>6. Stored'
  BY <1>1, <1>2, StoredShrinks
<1>7. Traced(c)'
  BY <1>1, <1>2 DEF Traced, Carried, Update
<1>8. Filed(c)' /\ Ordered(c)'
  BY <1>1, <1>2, <1>3 DEF Filed, Ordered
<1>9. Left(c)'
  <2>1. Unfinished(c)
    BY DEF Unfinished
  <2> QED BY <1>1, <1>2, <2>1, NotInPeace
<1>10. RecordInv'
  BY <1>4, <1>5, <1>6, <1>7, <1>8, <1>9, OneCall
<1>11. (\A d \in Calls : Over(d) => Over(d)') /\ Over(c)'
  BY <1>1, <1>2, <1>3 DEF Over, Ordered
<1> QED BY <1>10, <1>11

\* The timer of the phone gives way to the new one.
LEMMA ScheduleKeeps ==
  ASSUME ConversationInv, NEW c \in Calls, timer[c] = "none", ScheduleFollowup(c),
         orphaned' = orphaned
  PROVE  /\ timer' \in [Calls -> {"none", "armed", "fired", "erased", "sent", "stopped", "over"}]
         /\ calledOff' \subseteq Calls /\ pendingTimer' = c
         /\ \A d \in Calls : timer'[d] # "none" => timer[d] # "none" \/ d = c
         /\ \A d \in Calls : FollowedUp(d)'
<1>1. /\ timer \in [Calls -> {"none", "armed", "fired", "erased", "sent", "stopped", "over"}]
      /\ calledOff \subseteq Calls
      /\ \A d \in Calls : FollowedUp(d)
  BY DEF ConversationInv, EngineTypeOK
<1>2. timer' = [Stopped({pendingTimer}) EXCEPT ![c] = "armed"] /\ pendingTimer' = c
      /\ calledOff' = calledOff \cup Waiting
  BY DEF ScheduleFollowup
<1>3. /\ Stopped({pendingTimer}) \in
           [Calls -> {"none", "armed", "fired", "erased", "sent", "stopped", "over"}]
      /\ \A d \in Calls : Stopped({pendingTimer})[d] =
           IF d = pendingTimer /\ timer[d] = "armed" THEN "stopped" ELSE timer[d]
  BY <1>1 DEF Stopped
<1>4. /\ timer' \in [Calls -> {"none", "armed", "fired", "erased", "sent", "stopped", "over"}]
      /\ timer'[c] = "armed"
      /\ \A d \in Calls \ {c} : timer'[d] =
           IF d = pendingTimer /\ timer[d] = "armed" THEN "stopped" ELSE timer[d]
  BY <1>2, <1>3
<1>5. \A d \in Calls : timer'[d] # "none" => timer[d] # "none" \/ d = c
  BY <1>4
<1>6. ASSUME NEW d \in Calls PROVE FollowedUp(d)'
  <2>1. FollowedUp(d)
    BY <1>1
  <2>2. CASE d = c
    <3>1. c \notin Waiting /\ c \notin calledOff \ orphaned
      BY <2>1, <2>2 DEF Waiting, FollowedUp
    <3> QED BY <1>2, <2>2, <3>1 DEF FollowedUp
  <2>3. CASE d # c
    <3>1. d \in Waiting <=> timer[d] = "armed"
      BY DEF Waiting
    <3> QED BY <1>2, <1>4, <2>1, <2>3, <3>1 DEF FollowedUp
  <2> QED BY <2>2, <2>3
<1> QED BY <1>1, <1>2, <1>4, <1>5, <1>6 DEF Waiting

\* A message calls the phone's timer off.
LEMMA CancelKeeps ==
  ASSUME ConversationInv, CancelFollowup, calledOff' = calledOff \cup Waiting,
         orphaned' = orphaned
  PROVE  /\ timer' \in [Calls -> {"none", "armed", "fired", "erased", "sent", "stopped", "over"}]
         /\ calledOff' \subseteq Calls /\ pendingTimer' = NoCall
         /\ \A d \in Calls : timer'[d] # "none" => timer[d] # "none"
         /\ \A d \in Calls : FollowedUp(d)'
<1>1. /\ timer \in [Calls -> {"none", "armed", "fired", "erased", "sent", "stopped", "over"}]
      /\ calledOff \subseteq Calls
      /\ \A d \in Calls : FollowedUp(d)
  BY DEF ConversationInv, EngineTypeOK
<1>2. timer' = Stopped({pendingTimer}) /\ pendingTimer' = NoCall
  BY DEF CancelFollowup
<1>3. /\ timer' \in [Calls -> {"none", "armed", "fired", "erased", "sent", "stopped", "over"}]
      /\ \A d \in Calls : timer'[d] =
           IF d = pendingTimer /\ timer[d] = "armed" THEN "stopped" ELSE timer[d]
  BY <1>1, <1>2 DEF Stopped
<1>4. ASSUME NEW d \in Calls PROVE FollowedUp(d)'
  <2>1. FollowedUp(d) /\ (d \in Waiting <=> timer[d] = "armed")
    BY <1>1 DEF Waiting
  <2> QED BY <1>2, <1>3, <2>1 DEF FollowedUp
<1> QED BY <1>1, <1>2, <1>3, <1>4 DEF Waiting

\* The end of onEnded schedules a follow-up or a survey, or neither.
LEMMA AutomateKeeps ==
  ASSUME ConversationInv, NEW c \in Calls, Automate(c) PROVE ConversationInv'
<1>1. /\ RecordInv /\ RecordTypeOK /\ EngineTypeOK /\ ChatTypeOK
      /\ \A d \in Calls : Late(d) /\ Settled(d) /\ FollowedUp(d) /\ SurveyedOnce(d)
  BY DEF ConversationInv, RecordInv
<1>2. /\ ender[c] = "automate" /\ ender' = [ender EXCEPT ![c] = "done"]
      /\ UNCHANGED <<mix, phase, inserter, live, history, jobs, deleter, tables, accepted, lost,
                     busy>>
      /\ UNCHANGED <<pendingSurvey, expired, orphaned, chatVars>>
  BY DEF Automate
<1>3. RecordInv' /\ (\A d \in Calls : Over(d) => Over(d)') /\ Over(c)'
  BY <1>1, <1>2, EnderDone
<1>4. timer[c] = "none" /\ survey[c] = "none"
  BY <1>1, <1>2 DEF Late, Over
<1>5. ChatTypeOK' /\ (\A m \in Messages : Answering(m)') /\ OneCreates'
  BY <1>2, ChatStays
<1>6. UNCHANGED <<msg, doubled, ratings, busy, deleter>>
  BY <1>2 DEF chatVars, tables
<1>7. CASE ScheduleFollowup(c) /\ UNCHANGED survey
  <2>1. /\ timer' \in [Calls -> {"none", "armed", "fired", "erased", "sent", "stopped", "over"}]
        /\ calledOff' \subseteq Calls /\ pendingTimer' = c
        /\ \A d \in Calls : timer'[d] # "none" => timer[d] # "none" \/ d = c
        /\ \A d \in Calls : FollowedUp(d)'
    BY <1>2, <1>4, <1>7, ScheduleKeeps
  <2>2. EngineTypeOK'
    BY <1>1, <1>2, <1>7, <2>1 DEF EngineTypeOK
  <2>3. \A d \in Calls : Late(d)'
    BY <1>1, <1>3, <1>7, <2>1 DEF Late
  <2>4. \A d \in Calls : SurveyedOnce(d)' /\ Settled(d)'
    BY <1>2, <1>6, <1>7, SurveyStays
  <2> QED BY <1>3, <1>5, <2>1, <2>2, <2>3, <2>4 DEF ConversationInv
<1>8. CASE survey' = [survey EXCEPT ![c] = "asleep"] /\ UNCHANGED <<timer, pendingTimer, calledOff>>
  <2>1. /\ survey' \in [Calls -> {"none", "asleep", "asked", "over"}]
        /\ survey'[c] = "asleep" /\ \A d \in Calls \ {c} : survey'[d] = survey[d]
    BY <1>1, <1>8 DEF EngineTypeOK
  <2>2. EngineTypeOK'
    BY <1>1, <1>2, <1>8, <2>1 DEF EngineTypeOK
  <2>3. \A d \in Calls : Late(d)'
    BY <1>1, <1>3, <1>8, <2>1 DEF Late
  <2>4. \A d \in Calls : FollowedUp(d)'
    BY <1>2, <1>8, TimersStay
  <2>5. ASSUME NEW d \in Calls PROVE SurveyedOnce(d)'
    <3>1. SurveyedOnce(d) /\ (survey'[d] # "over" <=> survey[d] # "over")
      BY <1>1, <1>4, <2>1
    <3> QED BY <1>2, <1>6, <3>1 DEF SurveyedOnce, Holds, Unrated, RatedOnce, At
  <2>6. ASSUME NEW d \in Calls PROVE Settled(d)'
    <3>1. Settled(d)
      BY <1>1
    <3>2. CASE d = c
      <4>1. ~Peace(c)
        BY <1>1, <1>2 DEF RecordInv, Left, Unfinished
      <4> QED BY <1>6, <3>2, <4>1 DEF Settled, Peace
    <3>3. CASE d # c
      BY <1>2, <1>6, <2>1, <3>1, <3>3 DEF Settled, Peace, Surveying
    <3> QED BY <3>2, <3>3
  <2> QED BY <1>3, <1>5, <2>2, <2>3, <2>4, <2>5, <2>6 DEF ConversationInv
<1>9. CASE UNCHANGED <<timer, pendingTimer, calledOff, survey>>
  <2>1. EngineTypeOK'
    BY <1>1, <1>2, <1>9 DEF EngineTypeOK
  <2>2. \A d \in Calls : Late(d)'
    BY <1>1, <1>3, <1>9 DEF Late
  <2>3. \A d \in Calls : FollowedUp(d)'
    BY <1>2, <1>9, TimersStay
  <2>4. \A d \in Calls : SurveyedOnce(d)' /\ Settled(d)'
    BY <1>2, <1>6, <1>9, SurveyStays
  <2> QED BY <1>3, <1>5, <2>1, <2>2, <2>3, <2>4 DEF ConversationInv
<1> QED BY <1>7, <1>8, <1>9 DEF Automate

\* The three steps of a timer.
LEMMA TimerKeeps ==
  ASSUME ConversationInv, NEW c \in Calls, TimerFires(c) \/ EraseEntry(c) \/ SendFollowup(c)
  PROVE  ConversationInv'
<1>1. /\ RecordInv /\ EngineTypeOK /\ ChatTypeOK
      /\ \A d \in Calls : Late(d) /\ Settled(d) /\ FollowedUp(d) /\ SurveyedOnce(d)
  BY DEF ConversationInv
<1>2. UNCHANGED <<recordVars, survey, pendingSurvey, expired, calledOff, chatVars>>
  BY DEF TimerFires, EraseEntry, SendFollowup
<1>3. UNCHANGED <<phase, ender, ratings, busy, deleter, msg, doubled>>
  BY <1>2 DEF recordVars, memoryVars, tables, chatVars
<1>4. PICK next \in {"fired", "erased", "sent", "over"} :
        /\ timer' = [timer EXCEPT ![c] = next] /\ timer[c] \in {"armed", "fired", "erased"}
        /\ next = "erased" => timer[c] = "fired"
        /\ timer[c] = "armed" => next = "fired"
        /\ \/ UNCHANGED <<pendingTimer, orphaned>>
           \/ /\ next = "erased" /\ pendingTimer' = NoCall
              /\ orphaned' = orphaned \cup ({pendingTimer} \ {c, NoCall})
  BY DEF TimerFires, EraseEntry, SendFollowup
<1>5. /\ timer' \in [Calls -> {"none", "armed", "fired", "erased", "sent", "stopped", "over"}]
      /\ timer'[c] = next /\ \A d \in Calls \ {c} : timer'[d] = timer[d]
  BY <1>1, <1>4 DEF EngineTypeOK
<1>6. EngineTypeOK'
  BY <1>1, <1>2, <1>4, <1>5 DEF EngineTypeOK
<1>7. ASSUME NEW d \in Calls PROVE Late(d)'
  <2>1. Late(d) /\ (timer'[d] # "none" => timer[d] # "none")
    BY <1>1, <1>4, <1>5
  <2> QED BY <1>2, <1>3, <2>1 DEF Late, Over
<1>8. ASSUME NEW d \in Calls PROVE FollowedUp(d)'
  <2>1. FollowedUp(d) /\ d # NoCall
    BY <1>1, ConversationAssumption
  <2>2. CASE d = c
    BY <1>2, <1>4, <1>5, <2>1, <2>2 DEF FollowedUp
  <2>3. CASE d # c
    BY <1>2, <1>4, <1>5, <2>1, <2>3 DEF FollowedUp
  <2> QED BY <2>2, <2>3
<1>9. ChatTypeOK' /\ (\A m \in Messages : Answering(m)') /\ OneCreates'
  BY <1>2, ChatStays
<1>10. \A d \in Calls : SurveyedOnce(d)' /\ Settled(d)'
  BY <1>2, <1>3, SurveyStays
<1> QED BY <1>1, <1>2, <1>6, <1>7, <1>8, <1>9, <1>10, RecordsStay DEF ConversationInv

\* The goroutine of a survey.
LEMMA SurveyKeeps ==
  ASSUME ConversationInv, NEW c \in Calls, AskRating(c) \/ NoteSurvey(c)
  PROVE  ConversationInv'
<1>1. /\ RecordInv /\ EngineTypeOK /\ ChatTypeOK
      /\ \A d \in Calls : Late(d) /\ Settled(d) /\ FollowedUp(d) /\ SurveyedOnce(d)
  BY DEF ConversationInv
<1>2. UNCHANGED <<recordVars, timer, pendingTimer, calledOff, orphaned, chatVars>>
  BY DEF AskRating, NoteSurvey
<1>3. UNCHANGED <<phase, ender, ratings, busy, deleter, msg, doubled>>
  BY <1>2 DEF recordVars, memoryVars, tables, chatVars
<1>4. PICK next \in {"asked", "over"} :
        /\ survey' = [survey EXCEPT ![c] = next] /\ survey[c] \in {"asleep", "asked"}
        /\ \/ UNCHANGED <<pendingSurvey, expired>>
           \/ next = "over" /\ pendingSurvey' = c /\ expired' = FALSE
  BY DEF AskRating, NoteSurvey
<1>5. /\ survey' \in [Calls -> {"none", "asleep", "asked", "over"}]
      /\ survey'[c] = next /\ \A d \in Calls \ {c} : survey'[d] = survey[d]
  BY <1>1, <1>4 DEF EngineTypeOK
<1>6. EngineTypeOK'
  BY <1>1, <1>2, <1>4, <1>5 DEF EngineTypeOK
<1>7. ASSUME NEW d \in Calls PROVE Late(d)'
  <2>1. Late(d) /\ (survey'[d] # "none" => survey[d] # "none")
    BY <1>1, <1>4, <1>5
  <2> QED BY <1>2, <1>3, <2>1 DEF Late, Over
<1>8. \A d \in Calls : FollowedUp(d)'
  BY <1>2, TimersStay
<1>9. ChatTypeOK' /\ (\A m \in Messages : Answering(m)') /\ OneCreates'
  BY <1>2, ChatStays
<1>10. ASSUME NEW d \in Calls PROVE SurveyedOnce(d)' /\ Settled(d)'
  <2>1. SurveyedOnce(d) /\ Settled(d)
    BY <1>1
  <2>2. /\ RatedOnce(d)' <=> RatedOnce(d)
        /\ Unrated(d)' <=> Unrated(d)
        /\ \A m \in Messages : /\ Holds(m, d)' <=> Holds(m, d)
                               /\ At(m, "rate")' <=> At(m, "rate")
    BY <1>3 DEF RatedOnce, Unrated, Holds, At
  <2>3. CASE d = c
    <3>1. SurveyedOnce(d)'
      BY <1>2, <1>3, <1>4, <1>5, <2>1, <2>2, <2>3 DEF SurveyedOnce
    <3>2. ~Peace(d)
      BY <1>4, <2>1, <2>3 DEF Settled, Surveying
    <3> QED BY <1>3, <3>1, <3>2 DEF Settled, Peace
  <2>4. CASE d # c
    <3>1. pendingSurvey' = d => pendingSurvey = d
      BY <1>4, <2>4
    <3>2. SurveyedOnce(d)'
      BY <1>3, <1>5, <2>1, <2>2, <2>4, <3>1 DEF SurveyedOnce
    <3>3. Surveying(d)' => Surveying(d)
      BY <1>3, <1>5, <2>4, <3>1 DEF Surveying
    <3> QED BY <1>3, <2>1, <3>2, <3>3 DEF Settled, Peace
  <2> QED BY <2>3, <2>4
<1> QED BY <1>1, <1>2, <1>6, <1>7, <1>8, <1>9, <1>10, RecordsStay DEF ConversationInv

\* Time alone changes nothing but what the next answer finds.
LEMMA SurveyExpiresKeeps ==
  ASSUME ConversationInv, SurveyExpires PROVE ConversationInv'
<1>1. /\ RecordInv /\ EngineTypeOK /\ \A d \in Calls : Late(d)
  BY DEF ConversationInv
<1>2. /\ UNCHANGED <<recordVars, timer, pendingTimer, survey, pendingSurvey, calledOff, orphaned,
                     chatVars>>
      /\ expired' = TRUE
  BY DEF SurveyExpires
<1>3. UNCHANGED <<phase, ender, ratings, busy, deleter, msg, doubled>>
  BY <1>2 DEF recordVars, memoryVars, tables, chatVars
<1>4. EngineTypeOK'
  BY <1>1, <1>2 DEF EngineTypeOK
<1>5. \A d \in Calls : Late(d)'
  BY <1>1, <1>2, <1>3 DEF Late, Over
<1>6. \A d \in Calls : FollowedUp(d)'
  BY <1>2, TimersStay
<1>7. ChatTypeOK' /\ (\A m \in Messages : Answering(m)') /\ OneCreates'
  BY <1>2, ChatStays
<1>8. \A d \in Calls : SurveyedOnce(d)' /\ Settled(d)'
  BY <1>2, <1>3, SurveyStays
<1> QED BY <1>1, <1>2, <1>4, <1>5, <1>6, <1>7, <1>8, RecordsStay DEF ConversationInv

\* A message that is neither about to create nor dropped, and will not be.
Aside(step) == step \notin {"create", "converse", "dropped"}
\* Such a message has no part in who creates.
LEMMA AsideKeeps ==
  ASSUME OneCreates, NEW m \in Messages, Aside(msg[m].step), Aside(msg'[m].step),
         \A o \in Messages \ {m} : msg'[o] = msg[o],
         UNCHANGED <<contact, open, crossed, troubled>>
  PROVE  OneCreates'
<1>1. \A o \in Messages : /\ At(o, "create")' <=> At(o, "create")
                          /\ At(o, "converse")' <=> At(o, "converse")
                          /\ At(o, "dropped")' <=> At(o, "dropped")
  BY DEF At, Aside
<1> QED BY <1>1 DEF OneCreates

\* Where a message goes that has done with the survey.
LEMMA AfterSurveyStep ==
  ASSUME NEW s PROVE AfterSurvey(s) \in {"find", "over"}
BY DEF AfterSurvey

\* A message comes: the timer of the phone is stopped, whichever call it was of.
LEMMA ArrivesKeeps ==
  ASSUME ConversationInv, NEW m \in Messages, NEW s \in Sessions, Arrives(m, s)
  PROVE  ConversationInv'
<1>1. /\ RecordInv /\ EngineTypeOK /\ ChatTypeOK /\ OneCreates
      /\ \A d \in Calls : Late(d) /\ Settled(d) /\ FollowedUp(d) /\ SurveyedOnce(d)
      /\ \A o \in Messages : Answering(o)
  BY DEF ConversationInv
<1>2. /\ At(m, "new") /\ CancelFollowup /\ calledOff' = calledOff \cup Waiting
      /\ UNCHANGED <<recordVars, survey, pendingSurvey, expired, orphaned, contact, open, doubled,
                     crossed, troubled>>
  BY DEF Arrives
<1>3. UNCHANGED <<phase, ender, ratings, busy, deleter>>
  BY <1>2 DEF recordVars, memoryVars, tables
<1>4. PICK next \in {"lookup", "over", "find"} :
        msg' = [msg EXCEPT ![m].at = s, ![m].step = next]
  BY AfterSurveyStep DEF Arrives
<1>5. /\ msg \in [Messages -> Message] /\ msg[m] \in Message
      /\ msg[m].step = "new" /\ msg[m].answers = NoCall /\ next \in Steps
  BY <1>1, <1>2 DEF ChatTypeOK, Answering, At, Steps, Handling, Pushing
<1>6. /\ msg' \in [Messages -> Message]
      /\ msg'[m].step = next /\ msg'[m].answers = NoCall
      /\ \A o \in Messages \ {m} : msg'[o] = msg[o]
  <2> DEFINE r == [at |-> s, answers |-> NoCall, step |-> next]
  <2>1. msg[m] = [at |-> msg[m].at, answers |-> NoCall, step |-> "new"]
    BY <1>5 DEF Message
  <2>2. msg' = [msg EXCEPT ![m] = r]
    BY <1>4, <1>5, <2>1
  <2>3. r \in Message
    BY <1>5 DEF Message
  <2> QED BY <1>5, <2>2, <2>3
<1>7. /\ timer' \in [Calls -> {"none", "armed", "fired", "erased", "sent", "stopped", "over"}]
      /\ calledOff' \subseteq Calls /\ pendingTimer' = NoCall
      /\ \A d \in Calls : timer'[d] # "none" => timer[d] # "none"
      /\ \A d \in Calls : FollowedUp(d)'
  BY <1>2, CancelKeeps
<1>8. EngineTypeOK' /\ ChatTypeOK'
  BY <1>1, <1>2, <1>6, <1>7 DEF EngineTypeOK, ChatTypeOK
<1>9. \A d \in Calls : Late(d)'
  BY <1>1, <1>2, <1>3, <1>7 DEF Late, Over
<1>10. ASSUME NEW d \in Calls PROVE SurveyedOnce(d)' /\ Settled(d)'
  <2>1. SurveyedOnce(d) /\ Settled(d) /\ d # NoCall
    BY <1>1, ConversationAssumption
  <2>2. /\ RatedOnce(d)' <=> RatedOnce(d)
        /\ Unrated(d)' <=> Unrated(d)
        /\ \A o \in Messages : /\ Holds(o, d)' <=> Holds(o, d)
                               /\ At(o, "rate")' <=> At(o, "rate")
    BY <1>3, <1>5, <1>6 DEF RatedOnce, Unrated, Holds, At
  <2>3. SurveyedOnce(d)'
    BY <1>2, <2>1, <2>2 DEF SurveyedOnce
  <2>4. Surveying(d)' => Surveying(d)
    BY <1>2, <1>5, <1>6, <2>1 DEF Surveying
  <2> QED BY <1>3, <2>1, <2>3, <2>4 DEF Settled, Peace
<1>11. \A o \in Messages : Answering(o)'
  BY <1>1, <1>6 DEF Answering
<1>12. OneCreates'
  <2>1. Aside(msg[m].step) /\ Aside(msg'[m].step)
    BY <1>5, <1>6 DEF Aside
  <2> QED BY <1>1, <1>2, <1>6, <2>1, AsideKeeps
<1>13. RecordInv'
  BY <1>1, <1>2, RecordsStay
<1> QED BY <1>7, <1>8, <1>9, <1>10, <1>11, <1>12, <1>13 DEF ConversationInv

\* Two messages that find the same survey are two that hold it.
LEMMA LookUpKeeps ==
  ASSUME ConversationInv, NEW m \in Messages, LookUpSurvey(m) PROVE ConversationInv'
<1>1. /\ RecordInv /\ EngineTypeOK /\ ChatTypeOK /\ OneCreates
      /\ \A d \in Calls : Late(d) /\ Settled(d) /\ FollowedUp(d) /\ SurveyedOnce(d)
      /\ \A o \in Messages : Answering(o)
  BY DEF ConversationInv
<1>2. /\ At(m, "lookup") /\ pendingSurvey' \in {pendingSurvey, NoCall} /\ expired' = FALSE
      /\ UNCHANGED <<recordVars, timer, pendingTimer, survey, calledOff, orphaned, contact, open,
                     crossed, troubled>>
  BY DEF LookUpSurvey
<1>3. UNCHANGED <<phase, ender, ratings, busy, deleter>>
  BY <1>2 DEF recordVars, memoryVars, tables
<1>4. /\ msg \in [Messages -> Message] /\ msg[m] \in Message
      /\ msg[m].step = "lookup" /\ msg[m].answers = NoCall
      /\ pendingSurvey \in Calls \cup {NoCall}
  BY <1>1, <1>2 DEF ChatTypeOK, EngineTypeOK, Answering, At
<1>5. EngineTypeOK' /\ RecordInv' /\ \A d \in Calls : FollowedUp(d)'
  BY <1>1, <1>2, TimersStay, RecordsStay DEF EngineTypeOK
<1>6. \A d \in Calls : Late(d)'
  BY <1>1, <1>2, <1>3 DEF Late, Over
<1>7. \A d \in Calls : /\ RatedOnce(d)' <=> RatedOnce(d)
                       /\ Unrated(d)' <=> Unrated(d)
  BY <1>3 DEF RatedOnce, Unrated
<1>8. CASE /\ pendingSurvey # NoCall /\ ~expired
           /\ msg' = [msg EXCEPT ![m].step = "take", ![m].answers = pendingSurvey]
           /\ doubled' = doubled \cup
                {c \in {pendingSurvey} : \E o \in Messages : At(o, "take") /\ msg[o].answers = c}
  <2>1. /\ msg' \in [Messages -> Message]
        /\ msg'[m].step = "take" /\ msg'[m].answers = pendingSurvey
        /\ \A o \in Messages \ {m} : msg'[o] = msg[o]
    <3> DEFINE r == [at |-> msg[m].at, answers |-> pendingSurvey, step |-> "take"]
    <3>1. msg[m] = [at |-> msg[m].at, answers |-> NoCall, step |-> "lookup"]
      BY <1>4 DEF Message
    <3>2. msg' = [msg EXCEPT ![m] = r]
      BY <1>4, <1>8, <3>1
    <3>3. r \in Message
      BY <1>4 DEF Message, Steps, Handling
    <3> QED BY <1>4, <3>2, <3>3
  <2>2. pendingSurvey' = pendingSurvey /\ pendingSurvey \in Calls
    BY <1>4, <1>8 DEF LookUpSurvey
  <2>3. ChatTypeOK'
    BY <1>1, <1>2, <1>8, <2>1, <2>2 DEF ChatTypeOK
  <2>4. ASSUME NEW d \in Calls PROVE SurveyedOnce(d)' /\ Settled(d)'
    <3>1. SurveyedOnce(d) /\ Settled(d)
      BY <1>1
    <3>2. CASE d = pendingSurvey
      <4>1. SurveyedOnce(d)'
        <5> SUFFICES ASSUME d \notin doubled' PROVE SurveyedOnce(d)'
          BY DEF SurveyedOnce
        <5>1. d \notin doubled /\ \A o \in Messages : ~(At(o, "take") /\ msg[o].answers = d)
          BY <1>8, <3>2
        <5>2. \A o \in Messages : ~Holds(o, d)
          BY <3>1, <3>2, <5>1 DEF SurveyedOnce, Holds, At
        <5>3. \A o \in Messages : Holds(o, d)' => o = m
          BY <2>1, <5>2 DEF Holds
        <5>4. ~At(m, "rate")'
          BY <2>1 DEF At
        <5>5. survey[d] = "over" /\ Unrated(d) /\ RatedOnce(d)
          BY <3>1, <3>2, <5>1 DEF SurveyedOnce
        <5> QED BY <1>2, <1>7, <2>2, <3>2, <5>3, <5>4, <5>5 DEF SurveyedOnce
      <4>2. ~Peace(d)
        BY <3>1, <3>2 DEF Settled, Surveying
      <4> QED BY <1>3, <4>1, <4>2 DEF Settled, Peace
    <3>3. CASE d # pendingSurvey
      <4>1. \A o \in Messages : Holds(o, d)' <=> Holds(o, d)
        BY <1>4, <2>1, <3>3 DEF Holds
      <4>2. \A o \in Messages : At(o, "rate")' <=> At(o, "rate")
        BY <1>4, <2>1 DEF At
      <4>3. d \in doubled' <=> d \in doubled
        BY <1>8, <3>3
      <4>4. SurveyedOnce(d)'
        BY <1>2, <1>7, <2>2, <3>1, <4>1, <4>2, <4>3 DEF SurveyedOnce
      <4>5. Surveying(d)' => Surveying(d)
        BY <1>2, <2>1, <2>2, <3>3 DEF Surveying
      <4> QED BY <1>3, <3>1, <4>4, <4>5 DEF Settled, Peace
    <3> QED BY <3>2, <3>3
  <2>5. \A o \in Messages : Answering(o)'
    BY <1>1, <2>1, <2>2 DEF Answering
  <2>6. OneCreates'
    <3>1. Aside(msg[m].step) /\ Aside(msg'[m].step)
      BY <1>4, <2>1 DEF Aside
    <3> QED BY <1>1, <1>2, <2>1, <3>1, AsideKeeps
  <2> QED BY <1>5, <1>6, <2>3, <2>4, <2>5, <2>6 DEF ConversationInv
<1>9. CASE To(m, AfterSurvey(msg[m].at)) /\ UNCHANGED doubled
  <2>1. PICK step \in {"find", "over"} : To(m, step)
    BY <1>9, AfterSurveyStep
  <2>2. step \in Steps
    BY DEF Steps, Pushing
  <2>3. /\ msg' \in [Messages -> Message]
        /\ msg'[m].step = step /\ msg'[m].answers = msg[m].answers
        /\ \A o \in Messages \ {m} : msg'[o] = msg[o]
    BY <1>1, <2>1, <2>2, MessageStep
  <2>4. ChatTypeOK'
    BY <1>1, <1>2, <1>9, <2>3 DEF ChatTypeOK
  <2>5. ASSUME NEW d \in Calls PROVE SurveyedOnce(d)' /\ Settled(d)'
    <3>1. SurveyedOnce(d) /\ Settled(d) /\ d # NoCall
      BY <1>1, ConversationAssumption
    <3>2. \A o \in Messages : Holds(o, d)' <=> Holds(o, d)
      BY <1>4, <2>3 DEF Holds
    <3>3. \A o \in Messages : At(o, "rate")' <=> At(o, "rate")
      BY <1>4, <2>3 DEF At
    <3>4. SurveyedOnce(d)'
      BY <1>2, <1>7, <1>9, <3>1, <3>2, <3>3 DEF SurveyedOnce
    <3>5. Surveying(d)' => Surveying(d)
      BY <1>2, <1>4, <2>3, <3>1 DEF Surveying
    <3> QED BY <1>3, <3>1, <3>4, <3>5 DEF Settled, Peace
  <2>6. \A o \in Messages : Answering(o)'
    BY <1>1, <2>3 DEF Answering
  <2>7. OneCreates'
    <3>1. Aside(msg[m].step) /\ Aside(msg'[m].step)
      BY <1>4, <2>3 DEF Aside
    <3> QED BY <1>1, <1>2, <2>3, <3>1, AsideKeeps
  <2> QED BY <1>5, <1>6, <2>4, <2>5, <2>6, <2>7 DEF ConversationInv
<1> QED BY <1>8, <1>9 DEF LookUpSurvey

\* The message that takes the survey erases the entry of the phone.
LEMMA TakeKeeps ==
  ASSUME ConversationInv, NEW m \in Messages, TakeSurvey(m) PROVE ConversationInv'
<1>1. /\ RecordInv /\ EngineTypeOK /\ ChatTypeOK /\ OneCreates
      /\ \A d \in Calls : Late(d) /\ Settled(d) /\ FollowedUp(d) /\ SurveyedOnce(d)
      /\ \A o \in Messages : Answering(o)
  BY DEF ConversationInv
<1>2. /\ At(m, "take") /\ To(m, "rate") /\ pendingSurvey' = NoCall /\ expired' = FALSE
      /\ UNCHANGED <<recordVars, timer, pendingTimer, survey, calledOff, orphaned, contact, open,
                     doubled, crossed, troubled>>
  BY DEF TakeSurvey
<1>3. UNCHANGED <<phase, ender, ratings, busy, deleter>>
  BY <1>2 DEF recordVars, memoryVars, tables
<1>4. "rate" \in Steps /\ msg[m].step = "take"
  BY <1>2 DEF Steps, Handling, At
<1>5. /\ msg' \in [Messages -> Message]
      /\ msg'[m].step = "rate" /\ msg'[m].answers = msg[m].answers
      /\ \A o \in Messages \ {m} : msg'[o] = msg[o]
  BY <1>1, <1>2, <1>4, MessageStep
<1>6. EngineTypeOK' /\ ChatTypeOK' /\ RecordInv' /\ \A d \in Calls : FollowedUp(d)'
  BY <1>1, <1>2, <1>5, TimersStay, RecordsStay DEF EngineTypeOK, ChatTypeOK
<1>7. \A d \in Calls : Late(d)'
  BY <1>1, <1>2, <1>3 DEF Late, Over
<1>8. ASSUME NEW d \in Calls PROVE SurveyedOnce(d)' /\ Settled(d)'
  <2>1. SurveyedOnce(d) /\ Settled(d) /\ d # NoCall
    BY <1>1, ConversationAssumption
  <2>2. \A o \in Messages : Holds(o, d)' <=> Holds(o, d)
    BY <1>4, <1>5 DEF Holds
  <2>3. (RatedOnce(d)' <=> RatedOnce(d)) /\ (Unrated(d)' <=> Unrated(d))
    BY <1>3 DEF RatedOnce, Unrated
  <2>4. SurveyedOnce(d)'
    BY <1>2, <2>1, <2>2, <2>3 DEF SurveyedOnce
  <2>5. Surveying(d)' => Surveying(d)
    BY <1>2, <1>4, <1>5, <2>1 DEF Surveying, Handling
  <2> QED BY <1>3, <2>1, <2>4, <2>5 DEF Settled, Peace
<1>9. \A o \in Messages : Answering(o)'
  BY <1>1, <1>4, <1>5 DEF Answering
<1>10. OneCreates'
  <2>1. Aside(msg[m].step) /\ Aside(msg'[m].step)
    BY <1>4, <1>5 DEF Aside
  <2> QED BY <1>1, <1>2, <1>5, <2>1, AsideKeeps
<1> QED BY <1>6, <1>7, <1>8, <1>9, <1>10 DEF ConversationInv

\* The one message that holds a survey rates the call, which was not deleted in peace.
LEMMA RateKeeps ==
  ASSUME ConversationInv, NEW m \in Messages, Rate(m) PROVE ConversationInv'
<1>1. PICK c, s : c = msg[m].answers /\ s = msg[m].at
  OBVIOUS
<1>2. /\ RecordInv /\ RecordTypeOK /\ EngineTypeOK /\ ChatTypeOK /\ OneCreates
      /\ \A d \in Calls : Late(d) /\ Settled(d) /\ FollowedUp(d) /\ SurveyedOnce(d)
      /\ \A o \in Messages : Answering(o)
  BY DEF ConversationInv, RecordInv
<1>3. /\ At(m, "rate") /\ To(m, AfterSurvey(s))
      /\ ratings' = [ratings EXCEPT ![s][c] = @ + 1] \/ ratings' = ratings
      /\ UNCHANGED <<mix, phase, memoryVars, row, wav, script, accepted, lost, busy, engineVars,
                     contact, open, doubled, crossed, troubled>>
  BY <1>1 DEF Rate
<1>4. /\ UNCHANGED <<mix, phase, inserter, ender, live, history, jobs, deleter, row, wav, script,
                     accepted, lost, busy>>
      /\ UNCHANGED <<timer, pendingTimer, survey, pendingSurvey, expired, calledOff, orphaned>>
  BY <1>3 DEF memoryVars, engineVars
<1>5. /\ msg[m] \in Message /\ msg[m].step = "rate" /\ c \in Calls /\ s \in Sessions
  BY <1>2, <1>3, <1>1 DEF ChatTypeOK, Message, At, Answering
<1>6. PICK step \in {"find", "over"} : To(m, step)
  BY <1>3, AfterSurveyStep
<1>7. /\ msg' \in [Messages -> Message]
      /\ msg'[m].step = step /\ msg'[m].answers = c
      /\ \A o \in Messages \ {m} : msg'[o] = msg[o]
  <2>1. step \in Steps
    BY DEF Steps, Pushing
  <2> QED BY <1>2, <1>6, <1>1, <2>1, MessageStep
<1>8. Holds(m, c) /\ At(m, "rate") /\ Surveying(c) /\ ~Peace(c)
  <2>1. Holds(m, c)
    BY <1>5, <1>1 DEF Holds
  <2>2. Surveying(c)
    BY <1>5, <1>1 DEF Surveying, Handling
  <2> QED BY <1>2, <1>3, <1>5, <2>1, <2>2 DEF Settled
<1>9. /\ ratings \in [Sessions -> [Calls -> Nat]]
      /\ ratings' \in [Sessions -> [Calls -> Nat]]
      /\ \A d \in Calls \ {c}, t \in Sessions : ratings'[t][d] = ratings[t][d]
      /\ \A t \in Sessions \ {s} : ratings'[t][c] = ratings[t][c]
      /\ ratings'[s][c] \in {ratings[s][c], ratings[s][c] + 1}
  <2>1. ratings \in [Sessions -> [Calls -> Nat]]
    BY <1>2, RecordTypes
  <2>2. CASE ratings' = ratings
    BY <1>5, <2>1, <2>2
  <2>3. CASE ratings' = [ratings EXCEPT ![s][c] = @ + 1]
    <3>1. ratings' = [ratings EXCEPT ![s] = [ratings[s] EXCEPT ![c] = ratings[s][c] + 1]]
      BY <2>3
    <3>2. ratings[s] \in [Calls -> Nat] /\ ratings[s][c] + 1 \in Nat
      BY <1>5, <2>1
    <3> QED BY <1>5, <2>1, <3>1, <3>2
  <2> QED BY <1>3, <2>2, <2>3
<1>10. RecordInv'
  <2>1. RecordTypeOK'
    BY <1>2, <1>4, <1>9, RecordTypes DEF RecordTypeOK, LogRecord
  <2>2. OthersUntouched(c)
    BY <1>4, <1>9 DEF OthersUntouched, Untouched, JobOf, LogsOf
  <2>3. Stored'
    BY <1>2, <1>4, StoredShrinks DEF RecordInv
  <2>4. Traced(c)' /\ Filed(c)' /\ Ordered(c)'
    BY <1>2, <1>4, <1>5 DEF RecordInv, Traced, Filed, Ordered, Carried, Update
  <2>5. Left(c)'
    BY <1>4, <1>8 DEF Left, Peace
  <2> QED BY <1>2, <1>5, <2>1, <2>2, <2>3, <2>4, <2>5, OneCall
<1>11. EngineTypeOK' /\ ChatTypeOK' /\ \A d \in Calls : FollowedUp(d)'
  BY <1>2, <1>3, <1>4, <1>7, TimersStay DEF EngineTypeOK, ChatTypeOK
<1>12. \A d \in Calls : Late(d)'
  BY <1>2, <1>4 DEF Late, Over
<1>13. ASSUME NEW d \in Calls PROVE SurveyedOnce(d)' /\ Settled(d)'
  <2>1. SurveyedOnce(d) /\ Settled(d)
    BY <1>2
  <2>2. Settled(d)'
    <3>1. Surveying(d)' => Surveying(d)
      BY <1>4, <1>7 DEF Surveying, Handling
    <3> QED BY <1>4, <2>1, <3>1 DEF Settled, Peace
  <2>3. CASE d = c
    <3> SUFFICES ASSUME d \notin doubled PROVE SurveyedOnce(d)'
      BY <1>3, <2>2 DEF SurveyedOnce
    <3>1. /\ Unrated(d) /\ pendingSurvey # d /\ survey[d] = "over"
          /\ \A o \in Messages : Holds(o, d) => o = m
      BY <1>8, <2>1, <2>3 DEF SurveyedOnce
    <3>2. \A o \in Messages : ~Holds(o, d)'
      BY <1>7, <3>1 DEF Holds
    <3>3. RatedOnce(d)'
      <4>1. \A t \in Sessions : ratings[t][d] = 0
        BY <3>1 DEF Unrated
      <4>2. \A t \in Sessions : ratings'[t][d] \in {0, 1} /\ (ratings'[t][d] # 0 => t = s)
        BY <1>5, <1>9, <2>3, <4>1
      <4> QED BY <4>2 DEF RatedOnce
    <3> QED BY <1>4, <3>1, <3>2, <3>3 DEF SurveyedOnce
  <2>4. CASE d # c
    <3>1. \A o \in Messages : Holds(o, d)' <=> Holds(o, d)
      BY <1>7, <1>1, <2>4 DEF Holds
    <3>2. (RatedOnce(d)' <=> RatedOnce(d)) /\ (Unrated(d)' <=> Unrated(d))
      BY <1>9, <2>4 DEF RatedOnce, Unrated
    <3>3. \A o \in Messages : At(o, "rate")' => At(o, "rate")
      BY <1>7 DEF At
    <3>4. SurveyedOnce(d)'
      BY <1>3, <1>4, <2>1, <3>1, <3>2, <3>3 DEF SurveyedOnce
    <3> QED BY <2>2, <3>4
  <2> QED BY <2>2, <2>3, <2>4
<1>14. \A o \in Messages : Answering(o)'
  BY <1>2, <1>7 DEF Answering
<1>15. OneCreates'
  <2>1. Aside(msg[m].step) /\ Aside(msg'[m].step)
    BY <1>5, <1>7 DEF Aside
  <2> QED BY <1>2, <1>3, <1>7, <2>1, AsideKeeps
<1> QED BY <1>10, <1>11, <1>12, <1>13, <1>14, <1>15 DEF ConversationInv

\* A step of a push touches neither the records nor the engines.
LEMMA PushKeeps ==
  ASSUME ConversationInv, NEW m \in Messages, NEW step \in Pushing \cup {"posted", "dropped"},
         msg[m].step \in Pushing, To(m, step), Pushes, contact' \in BOOLEAN, open' \in Nat,
         crossed' \in BOOLEAN, troubled' \in BOOLEAN, OneCreates'
  PROVE  ConversationInv'
<1>1. /\ RecordInv /\ EngineTypeOK /\ ChatTypeOK
      /\ \A d \in Calls : Late(d) /\ Settled(d) /\ FollowedUp(d) /\ SurveyedOnce(d)
      /\ \A o \in Messages : Answering(o)
  BY DEF ConversationInv
<1>2. UNCHANGED <<recordVars, engineVars, doubled>>
  BY DEF Pushes
<1>3. /\ UNCHANGED <<phase, ender, ratings, busy, deleter>>
      /\ UNCHANGED <<timer, pendingTimer, survey, pendingSurvey, expired, calledOff, orphaned>>
  BY <1>2 DEF recordVars, memoryVars, tables, engineVars
<1>4. /\ step \in Steps /\ step \notin Handling \cup {"new"}
      /\ msg[m].step \notin Handling \cup {"new"}
  BY DEF Steps, Pushing, Handling
<1>5. /\ msg' \in [Messages -> Message]
      /\ msg'[m].step = step /\ msg'[m].answers = msg[m].answers
      /\ \A o \in Messages \ {m} : msg'[o] = msg[o]
  BY <1>1, <1>4, MessageStep
<1>6. EngineTypeOK' /\ ChatTypeOK' /\ RecordInv' /\ \A d \in Calls : FollowedUp(d)'
  BY <1>1, <1>2, <1>3, <1>5, TimersStay, RecordsStay DEF EngineTypeOK, ChatTypeOK
<1>7. \A d \in Calls : Late(d)'
  BY <1>1, <1>3 DEF Late, Over
<1>8. ASSUME NEW d \in Calls PROVE SurveyedOnce(d)' /\ Settled(d)'
  <2>1. SurveyedOnce(d) /\ Settled(d)
    BY <1>1
  <2>2. \A o \in Messages : /\ Holds(o, d)' <=> Holds(o, d)
                            /\ At(o, "rate")' <=> At(o, "rate")
    BY <1>4, <1>5 DEF Holds, Handling, At
  <2>3. (RatedOnce(d)' <=> RatedOnce(d)) /\ (Unrated(d)' <=> Unrated(d))
    BY <1>3 DEF RatedOnce, Unrated
  <2>4. SurveyedOnce(d)'
    BY <1>2, <1>3, <2>1, <2>2, <2>3 DEF SurveyedOnce
  <2>5. Surveying(d)' => Surveying(d)
    BY <1>3, <1>4, <1>5 DEF Surveying
  <2> QED BY <1>3, <2>1, <2>4, <2>5 DEF Settled, Peace
<1>9. \A o \in Messages : Answering(o)'
  BY <1>1, <1>4, <1>5 DEF Answering, Handling
<1> QED BY <1>6, <1>7, <1>8, <1>9 DEF ConversationInv

\* The search for the contact and its creation.
LEMMA ContactKeeps ==
  ASSUME ConversationInv, NEW m \in Messages, FindContact(m) \/ CreateContact(m)
  PROVE  ConversationInv'
<1>1. /\ ChatTypeOK /\ OneCreates /\ contact \in BOOLEAN /\ open \in Nat
      /\ crossed \in BOOLEAN /\ troubled \in BOOLEAN
  BY DEF ConversationInv, ChatTypeOK
<1>2. PICK step \in {"list", "create", "dropped"} : To(m, step) /\ Pushes
  BY DEF FindContact, CreateContact
<1>3. step \in Pushing \cup {"posted", "dropped"} /\ step \in Steps
  BY DEF Pushing, Steps
<1>4. msg[m].step \in Pushing
  BY DEF FindContact, CreateContact, At, Pushing
<1>5. /\ msg'[m].step = step /\ \A o \in Messages \ {m} : msg'[o] = msg[o]
  BY <1>1, <1>2, <1>3, MessageStep
<1>6. open' = open /\ contact' \in BOOLEAN /\ crossed' \in BOOLEAN /\ troubled' \in BOOLEAN
  BY <1>1 DEF FindContact, CreateContact, Fails
<1>7. \A o \in Messages : At(o, "converse")' => At(o, "converse")
  BY <1>5 DEF At
<1>8. OneCreates'
  <2>1. CASE FindContact(m)
    <3>1. /\ msg[m].step = "find" /\ contact' = contact
          /\ \/ contact /\ To(m, "list") /\ UNCHANGED <<crossed, troubled>>
             \/ ~contact /\ To(m, "create") /\ crossed' = (crossed \/ Others(m, "create"))
                /\ UNCHANGED troubled
             \/ troubled' = TRUE
      BY <2>1 DEF FindContact, Fails, At
    <3>2. CASE contact /\ To(m, "list") /\ UNCHANGED <<crossed, troubled>>
      <4>1. msg'[m].step = "list"
        BY <1>1, <1>3, <3>2, MessageStep DEF Steps, Pushing
      <4>2. \A o \in Messages : /\ At(o, "create")' => At(o, "create")
                                /\ At(o, "dropped")' => At(o, "dropped")
        BY <1>5, <4>1 DEF At
      <4> QED BY <1>1, <1>6, <1>7, <3>1, <3>2, <4>2 DEF OneCreates
    <3>3. CASE ~contact /\ To(m, "create") /\ crossed' = (crossed \/ Others(m, "create"))
               /\ UNCHANGED troubled
      <4> SUFFICES ASSUME ~crossed', ~troubled' PROVE OneCreates'
        BY DEF OneCreates
      <4>1. msg'[m].step = "create"
        BY <1>1, <3>3, MessageStep DEF Steps, Pushing
      <4>2. ~crossed /\ ~troubled /\ \A o \in Messages \ {m} : ~At(o, "create")
        BY <3>3 DEF Others
      <4>3. \A o \in Messages : /\ At(o, "create")' => o = m
                                /\ At(o, "dropped")' => At(o, "dropped")
        BY <1>5, <4>1, <4>2 DEF At
      <4> QED BY <1>1, <1>6, <1>7, <3>1, <3>3, <4>2, <4>3 DEF OneCreates
    <3>4. CASE troubled' = TRUE
      BY <3>4 DEF OneCreates
    <3> QED BY <3>1, <3>2, <3>3, <3>4
  <2>2. CASE CreateContact(m)
    <3>1. /\ msg[m].step = "create" /\ crossed' = crossed
          /\ \/ To(m, IF contact THEN "dropped" ELSE "list") /\ contact' = TRUE /\ UNCHANGED troubled
             \/ troubled' = TRUE
      BY <2>2 DEF CreateContact, Fails, At
    <3>2. CASE To(m, IF contact THEN "dropped" ELSE "list") /\ contact' = TRUE /\ UNCHANGED troubled
      <4> SUFFICES ASSUME ~crossed, ~troubled PROVE OneCreates'
        BY <3>1, <3>2 DEF OneCreates
      <4>1. ~contact /\ \A o \in Messages : At(o, "create") => o = m
        BY <1>1, <3>1 DEF OneCreates, At
      <4>2. msg'[m].step = "list"
        BY <1>1, <3>2, <4>1, MessageStep DEF Steps, Pushing
      <4>3. \A o \in Messages : /\ ~At(o, "create")'
                                /\ At(o, "dropped")' => At(o, "dropped")
        BY <1>5, <4>1, <4>2 DEF At
      <4> QED BY <1>1, <1>6, <1>7, <4>3 DEF OneCreates
    <3>3. CASE troubled' = TRUE
      BY <3>3 DEF OneCreates
    <3> QED BY <3>1, <3>2, <3>3
  <2> QED BY <2>1, <2>2
<1> QED BY <1>1, <1>2, <1>3, <1>4, <1>6, <1>8, PushKeeps

\* The list of the conversations and a new one.
LEMMA ConverseKeeps ==
  ASSUME ConversationInv, NEW m \in Messages, ListConversations(m) \/ CreateConversation(m)
  PROVE  ConversationInv'
<1>1. /\ ChatTypeOK /\ OneCreates /\ contact \in BOOLEAN /\ open \in Nat
      /\ crossed \in BOOLEAN /\ troubled \in BOOLEAN
  BY DEF ConversationInv, ChatTypeOK
<1>2. PICK step \in {"post", "converse", "dropped"} : To(m, step) /\ Pushes
  BY DEF ListConversations, CreateConversation
<1>3. step \in Pushing \cup {"posted", "dropped"} /\ step \in Steps
  BY DEF Pushing, Steps
<1>4. msg[m].step \in Pushing
  BY DEF ListConversations, CreateConversation, At, Pushing
<1>5. /\ msg'[m].step = step /\ \A o \in Messages \ {m} : msg'[o] = msg[o]
  BY <1>1, <1>2, <1>3, MessageStep
<1>6. contact' = contact /\ open' \in Nat /\ crossed' \in BOOLEAN /\ troubled' \in BOOLEAN
  <2>1. open' \in {open, open + 1} /\ open + 1 \in Nat
    BY <1>1 DEF ListConversations, CreateConversation
  <2>2. contact' = contact /\ crossed' \in BOOLEAN /\ troubled' \in BOOLEAN
    BY <1>1 DEF ListConversations, CreateConversation, Fails
  <2> QED BY <1>1, <2>1, <2>2
<1>7. \A o \in Messages : At(o, "create")' => At(o, "create")
  BY <1>5 DEF At
<1>8. OneCreates'
  <2>1. CASE ListConversations(m)
    <3>1. /\ msg[m].step = "list" /\ open' = open
          /\ \/ To(m, "post") /\ UNCHANGED <<crossed, troubled>>
             \/ open = 0 /\ To(m, "converse") /\ crossed' = (crossed \/ Others(m, "converse"))
                /\ UNCHANGED troubled
             \/ troubled' = TRUE
      BY <2>1 DEF ListConversations, Fails, At
    <3>2. CASE To(m, "post") /\ UNCHANGED <<crossed, troubled>>
      <4>1. msg'[m].step = "post"
        BY <1>1, <3>2, MessageStep DEF Steps, Pushing
      <4>2. \A o \in Messages : /\ At(o, "converse")' => At(o, "converse")
                                /\ At(o, "dropped")' => At(o, "dropped")
        BY <1>5, <4>1 DEF At
      <4> QED BY <1>1, <1>6, <1>7, <3>1, <3>2, <4>2 DEF OneCreates
    <3>3. CASE open = 0 /\ To(m, "converse") /\ crossed' = (crossed \/ Others(m, "converse"))
               /\ UNCHANGED troubled
      <4> SUFFICES ASSUME ~crossed', ~troubled' PROVE OneCreates'
        BY DEF OneCreates
      <4>1. msg'[m].step = "converse"
        BY <1>1, <3>3, MessageStep DEF Steps, Pushing
      <4>2. ~crossed /\ ~troubled /\ \A o \in Messages \ {m} : ~At(o, "converse")
        BY <3>3 DEF Others
      <4>3. \A o \in Messages : /\ At(o, "converse")' => o = m
                                /\ At(o, "dropped")' => At(o, "dropped")
        BY <1>5, <4>1, <4>2 DEF At
      <4> QED BY <1>1, <1>6, <1>7, <3>1, <3>3, <4>2, <4>3 DEF OneCreates
    <3>4. CASE troubled' = TRUE
      BY <3>4 DEF OneCreates
    <3> QED BY <3>1, <3>2, <3>3, <3>4
  <2>2. CASE CreateConversation(m)
    <3>1. /\ msg[m].step = "converse" /\ crossed' = crossed
          /\ \/ To(m, "post") /\ open' = open + 1 /\ UNCHANGED troubled
             \/ troubled' = TRUE
      BY <2>2 DEF CreateConversation, Fails, At
    <3>2. CASE To(m, "post") /\ open' = open + 1 /\ UNCHANGED troubled
      <4> SUFFICES ASSUME ~crossed, ~troubled PROVE OneCreates'
        BY <3>1, <3>2 DEF OneCreates
      <4>1. open = 0 /\ \A o \in Messages : At(o, "converse") => o = m
        BY <1>1, <3>1 DEF OneCreates, At
      <4>2. msg'[m].step = "post"
        BY <1>1, <3>2, MessageStep DEF Steps, Pushing
      <4>3. \A o \in Messages : /\ ~At(o, "converse")'
                                /\ At(o, "dropped")' => At(o, "dropped")
        BY <1>5, <4>1, <4>2 DEF At
      <4>4. open' <= 1
        BY <3>2, <4>1
      <4> QED BY <1>1, <1>6, <1>7, <4>3, <4>4 DEF OneCreates
    <3>3. CASE troubled' = TRUE
      BY <3>3 DEF OneCreates
    <3> QED BY <3>1, <3>2, <3>3
  <2> QED BY <2>1, <2>2
<1> QED BY <1>1, <1>2, <1>3, <1>4, <1>6, <1>8, PushKeeps

\* The message is posted, or dropped by a failure.
LEMMA PostKeeps ==
  ASSUME ConversationInv, NEW m \in Messages, PostMessage(m) PROVE ConversationInv'
<1>1. /\ ChatTypeOK /\ OneCreates /\ contact \in BOOLEAN /\ open \in Nat
      /\ crossed \in BOOLEAN /\ troubled \in BOOLEAN
  BY DEF ConversationInv, ChatTypeOK
<1>2. /\ msg[m].step = "post" /\ Pushes /\ UNCHANGED <<contact, open, crossed>>
      /\ \/ To(m, "posted") /\ UNCHANGED troubled
         \/ To(m, "dropped") /\ troubled' = TRUE
  BY DEF PostMessage, Fails, At
<1>3. CASE To(m, "posted") /\ UNCHANGED troubled
  <2>1. /\ msg'[m].step = "posted" /\ \A o \in Messages \ {m} : msg'[o] = msg[o]
    BY <1>1, <1>3, MessageStep DEF Steps
  <2>2. Aside(msg[m].step) /\ Aside(msg'[m].step)
    BY <1>2, <2>1 DEF Aside
  <2>3. OneCreates'
    BY <1>1, <1>2, <1>3, <2>1, <2>2, AsideKeeps
  <2> QED BY <1>1, <1>2, <1>3, <2>3, PushKeeps DEF Pushing
<1>4. CASE To(m, "dropped") /\ troubled' = TRUE
  <2>1. OneCreates'
    BY <1>4 DEF OneCreates
  <2> QED BY <1>1, <1>2, <1>4, <2>1, PushKeeps DEF Pushing
<1> QED BY <1>2, <1>3, <1>4

\* A conversation less makes room for none that was not allowed.
LEMMA ResolveKeeps ==
  ASSUME ConversationInv, Resolve PROVE ConversationInv'
<1>1. /\ RecordInv /\ EngineTypeOK /\ ChatTypeOK /\ OneCreates
      /\ \A d \in Calls : Late(d)
      /\ \A o \in Messages : Answering(o)
  BY DEF ConversationInv
<1>2. /\ open > 0 /\ open' = open - 1 /\ UNCHANGED <<recordVars, engineVars, doubled>>
      /\ UNCHANGED <<msg, contact, crossed, troubled>>
  BY DEF Resolve, Pushes
<1>3. /\ UNCHANGED <<phase, ender, ratings, busy, deleter>>
      /\ UNCHANGED <<timer, pendingTimer, survey, pendingSurvey, expired, calledOff, orphaned>>
  BY <1>2 DEF recordVars, memoryVars, tables, engineVars
<1>4. open \in Nat /\ open' \in Nat /\ open' <= open
  BY <1>1, <1>2 DEF ChatTypeOK
<1>5. EngineTypeOK' /\ ChatTypeOK' /\ RecordInv' /\ \A d \in Calls : FollowedUp(d)'
  BY <1>1, <1>2, <1>3, <1>4, TimersStay, RecordsStay DEF EngineTypeOK, ChatTypeOK
<1>6. \A d \in Calls : Late(d)'
  BY <1>1, <1>3 DEF Late, Over
<1>7. \A d \in Calls : SurveyedOnce(d)' /\ Settled(d)'
  BY <1>2, <1>3, SurveyStays
<1>8. \A o \in Messages : Answering(o)'
  BY <1>1, <1>2 DEF Answering
<1>9. OneCreates'
  BY <1>1, <1>2, <1>4 DEF OneCreates, At
<1> QED BY <1>5, <1>6, <1>7, <1>8, <1>9 DEF ConversationInv

\* What the process forgets, nobody does.
LEMMA ForgetKeeps ==
  ASSUME ConversationInv, Restart, Forget PROVE ConversationInv'
<1>1. /\ RecordInv /\ RecordTypeOK /\ EngineTypeOK /\ ChatTypeOK /\ OneCreates
      /\ \A d \in Calls : Late(d) /\ Settled(d) /\ FollowedUp(d) /\ SurveyedOnce(d)
      /\ \A o \in Messages : Answering(o)
  BY DEF ConversationInv, RecordInv
<1>2. /\ phase' = [c \in Calls |-> IF phase[c] = "new" THEN "new" ELSE "ended"]
      /\ ender' = [c \in Calls |-> "none"]
      /\ deleter' = [c \in Calls |-> IF deleter[c] = "rows" THEN "failed"
                                     ELSE IF deleter[c] = "memory" THEN "done" ELSE deleter[c]]
      /\ UNCHANGED <<ratings, busy>>
  BY DEF Restart
<1>3. /\ timer' = [c \in Calls |-> IF timer[c] \in {"armed", "fired", "erased"} THEN "over"
                                   ELSE timer[c]]
      /\ survey' = [c \in Calls |-> IF survey[c] \in {"asleep", "asked"} THEN "over"
                                    ELSE survey[c]]
      /\ msg' = [m \in Messages |-> IF msg[m].step \in Handling \cup Pushing
                                    THEN [msg[m] EXCEPT !.step = "over"] ELSE msg[m]]
      /\ pendingTimer' = NoCall /\ pendingSurvey' = NoCall /\ expired' = FALSE
      /\ UNCHANGED <<calledOff, orphaned, contact, open, doubled, crossed, troubled>>
  BY DEF Forget
<1>4. RecordInv'
  BY <1>1, RestartKeeps
<1>5. EngineTypeOK'
  <2>1. timer' \in [Calls -> {"none", "armed", "fired", "erased", "sent", "stopped", "over"}]
    BY <1>1, <1>3 DEF EngineTypeOK
  <2>2. survey' \in [Calls -> {"none", "asleep", "asked", "over"}]
    BY <1>1, <1>3 DEF EngineTypeOK
  <2> QED BY <1>1, <1>3, <2>1, <2>2 DEF EngineTypeOK
<1>6. \A m \in Messages :
        /\ msg[m] \in Message /\ msg'[m] \in Message
        /\ msg'[m].step \notin Handling \cup Pushing
        /\ msg'[m].answers = msg[m].answers
        /\ msg'[m].step = "over" \/ msg'[m] = msg[m]
  <2> SUFFICES ASSUME NEW m \in Messages
               PROVE  /\ msg[m] \in Message /\ msg'[m] \in Message
                      /\ msg'[m].step \notin Handling \cup Pushing
                      /\ msg'[m].answers = msg[m].answers
                      /\ msg'[m].step = "over" \/ msg'[m] = msg[m]
    OBVIOUS
  <2>1. msg[m] \in Message /\ "over" \in Steps /\ "over" \notin Handling \cup Pushing
    BY <1>1 DEF ChatTypeOK, Steps, Handling, Pushing
  <2>2. CASE msg[m].step \in Handling \cup Pushing
    <3>1. msg'[m] = [msg[m] EXCEPT !.step = "over"]
      BY <1>3, <2>2
    <3>2. /\ [msg[m] EXCEPT !.step = "over"] \in Message
          /\ [msg[m] EXCEPT !.step = "over"].step = "over"
          /\ [msg[m] EXCEPT !.step = "over"].answers = msg[m].answers
      BY <2>1 DEF Message
    <3> QED BY <2>1, <3>1, <3>2
  <2>3. CASE msg[m].step \notin Handling \cup Pushing
    BY <1>3, <2>1, <2>3
  <2> QED BY <2>2, <2>3
<1>7. ChatTypeOK'
  <2>1. msg' \in [Messages -> Message]
    BY <1>3, <1>6
  <2> QED BY <1>1, <1>3, <2>1 DEF ChatTypeOK
<1>8. ASSUME NEW d \in Calls PROVE Late(d)' /\ FollowedUp(d)'
  <2>1. Late(d) /\ FollowedUp(d)
    BY <1>1
  <2>2. (timer'[d] # "none" => timer[d] # "none") /\ (survey'[d] # "none" => survey[d] # "none")
    BY <1>3
  <2>3. Over(d) => Over(d)'
    BY <1>2 DEF Over
  <2>4. timer'[d] # "armed" /\ (timer[d] \in {"stopped", "over"} => timer'[d] = timer[d])
    BY <1>3
  <2> QED BY <1>3, <2>1, <2>2, <2>3, <2>4 DEF Late, FollowedUp
<1>9. ASSUME NEW d \in Calls PROVE SurveyedOnce(d)' /\ Settled(d)'
  <2>1. SurveyedOnce(d) /\ d # NoCall
    BY <1>1, ConversationAssumption
  <2>2. (RatedOnce(d)' <=> RatedOnce(d)) /\ (Unrated(d)' <=> Unrated(d))
    BY <1>2 DEF RatedOnce, Unrated
  <2>3. \A m \in Messages : ~Holds(m, d)'
    BY <1>6 DEF Holds, Handling
  <2>4. /\ survey'[d] # "over" => survey[d] # "over"
        /\ survey'[d] \notin {"asleep", "asked"} /\ pendingSurvey' # d
    BY <1>3, <2>1
  <2>5. SurveyedOnce(d)'
    BY <1>3, <2>1, <2>2, <2>3, <2>4 DEF SurveyedOnce
  <2>6. ~Surveying(d)'
    BY <1>6, <2>4 DEF Surveying
  <2> QED BY <2>5, <2>6 DEF Settled
<1>10. \A m \in Messages : Answering(m)'
  BY <1>1, <1>6 DEF Answering, Handling
<1>11. OneCreates'
  <2>1. \A m \in Messages : /\ ~At(m, "create")' /\ ~At(m, "converse")'
                            /\ At(m, "dropped")' => At(m, "dropped")
    BY <1>6 DEF At, Pushing
  <2> QED BY <1>1, <1>3, <2>1 DEF OneCreates
<1> QED BY <1>4, <1>5, <1>7, <1>8, <1>9, <1>10, <1>11 DEF ConversationInv

\* Every step of the records, where what the deletion asks is whether a survey is on.
LEMMA RecordNextKeeps ==
  ASSUME ConversationInv, RecordNext(Surveying), UNCHANGED conversationVars
  PROVE  ConversationInv'
<1>1. RecordInv /\ RecordTypeOK
  BY DEF ConversationInv, RecordInv
<1>2. /\ phase \in [Calls -> {"new", "ringing", "active", "ended"}]
      /\ ender \in [Calls -> {"none", "recording", "again", "automate", "done"}]
      /\ ratings \in [Sessions -> [Calls -> Nat]]
      /\ deleter \in [Calls -> {"none", "rows", "memory", "done", "failed"}]
      /\ busy \subseteq Calls /\ Home \in Sessions
  BY <1>1, RecordTypes, RecordAssumption
<1>3. ASSUME NEW c \in Calls,
             UNCHANGED <<ratings, busy, deleter>>, RecordInv', OthersUntouched(c),
             Over(c) => Over(c)'
      PROVE  ConversationInv'
  <2>1. Peace(c)' => Peace(c)
    BY <1>3 DEF Peace
  <2> QED BY <1>3, <2>1, RecordStep
<1>4. ASSUME NEW c \in Calls, Ring(c) PROVE ConversationInv'
  BY <1>1, <1>2, <1>3, <1>4, RingKeeps DEF Ring, Over
<1>5. ASSUME NEW c \in Calls, Connect(c) PROVE ConversationInv'
  BY <1>1, <1>2, <1>3, <1>5, ConnectKeeps DEF Connect, Over, tables
<1>6. ASSUME NEW c \in Calls, StartInserts(c) PROVE ConversationInv'
  BY <1>1, <1>2, <1>3, <1>6, StartInsertsKeeps DEF StartInserts, Over, tables
<1>7. ASSUME NEW c \in Calls, End(c) PROVE ConversationInv'
  BY <1>1, <1>2, <1>3, <1>7, EndKeeps DEF End, Over
<1>8. ASSUME NEW c \in Calls, StoreRecording(c) PROVE ConversationInv'
  BY <1>1, <1>2, <1>3, <1>8, StoreRecordingKeeps DEF StoreRecording, Over
<1>9. ASSUME NEW c \in Calls, EndAgain(c) PROVE ConversationInv'
  BY <1>1, <1>2, <1>3, <1>9, EndAgainKeeps DEF EndAgain, Over, tables
<1>10. ASSUME NEW c \in Calls, HangUpAgain(c) PROVE ConversationInv'
  BY <1>1, <1>2, <1>3, <1>10, HangUpAgainKeeps DEF HangUpAgain, Over, tables
<1>11. ASSUME NEW c \in Calls, HandleOpenTicket(c) PROVE ConversationInv'
  BY <1>1, <1>2, <1>3, <1>11, OpenTicketKeeps DEF HandleOpenTicket, Over, tables
<1>12. ASSUME NEW c \in Calls, SaveSummary(c) PROVE ConversationInv'
  BY <1>1, <1>2, <1>3, <1>12, SaveSummaryKeeps DEF SaveSummary, Over, tables
<1>13. ASSUME NEW c \in Calls, SaveTranscript(c) PROVE ConversationInv'
  BY <1>1, <1>2, <1>3, <1>13, SaveTranscriptKeeps DEF SaveTranscript, Over, memoryVars
<1>14. ASSUME NEW c \in Calls, DeleteFile(c) PROVE ConversationInv'
  <2>1. UNCHANGED <<phase, ender, ratings>> /\ deleter'[c] = "rows"
    BY <1>2, <1>14 DEF DeleteFile
  <2>2. (Over(c) => Over(c)') /\ ~Peace(c)'
    BY <2>1 DEF Over, Peace
  <2> QED BY <1>1, <1>14, <2>1, <2>2, DeleteFileKeeps, RecordStep
<1>15. ASSUME NEW c \in Calls, DeleteRows(c, Surveying(c)) PROVE ConversationInv'
  <2>1. UNCHANGED <<phase, ender>>
    BY <1>15 DEF DeleteRows
  <2>2. \A s \in Sessions : ratings'[s][c] \in {ratings[s][c], 0}
    <3>1. CASE ratings' = ratings
      BY <3>1
    <3>2. CASE ratings' = [ratings EXCEPT ![Home][c] = 0]
      BY <1>2, <3>2
    <3> QED BY <1>15, <3>1, <3>2 DEF DeleteRows
  <2>3. Peace(c)' => ~Surveying(c)
    <3>1. CASE /\ deleter' = [deleter EXCEPT ![c] = "memory"]
               /\ busy' = IF Unfinished(c) \/ Surveying(c) THEN busy \cup {c} ELSE busy
      BY <3>1 DEF Peace
    <3>2. CASE deleter' = [deleter EXCEPT ![c] = "failed"]
      BY <1>2, <3>2 DEF Peace
    <3> QED BY <1>15, <3>1, <3>2 DEF DeleteRows
  <2>4. RecordInv' /\ OthersUntouched(c)
    <3>1. PICK writing : writing = Surveying(c)
      OBVIOUS
    <3>2. DeleteRows(c, writing)
      BY <1>15, <3>1 DEF DeleteRows
    <3> QED BY <1>1, <3>2, DeleteRowsKeeps
  <2>5. Over(c) => Over(c)'
    BY <2>1 DEF Over
  <2> QED BY <2>2, <2>3, <2>4, <2>5, RecordStep
<1>16. ASSUME NEW c \in Calls, RemoveCall(c) PROVE ConversationInv'
  <2>1. UNCHANGED <<phase, ender, ratings, busy>> /\ deleter[c] = "memory"
    BY <1>16 DEF RemoveCall, tables
  <2>2. (Over(c) => Over(c)') /\ (Peace(c)' => Peace(c))
    BY <2>1 DEF Over, Peace
  <2> QED BY <1>1, <1>16, <2>1, <2>2, RemoveCallKeeps, RecordStep
<1>17. ASSUME NEW j \in BagToSet(jobs), JobRuns(j) PROVE ConversationInv'
  <2>1. PICK c \in Calls : RecordInv' /\ OthersUntouched(c)
    BY <1>1, <1>17, JobRunsKeeps
  <2>2. UNCHANGED <<phase, ender, ratings, busy, deleter>>
    BY <1>17 DEF JobRuns
  <2> QED BY <1>3, <2>1, <2>2 DEF Over
<1>18. ASSUME NEW j \in BagToSet(jobs), JobFails(j) PROVE ConversationInv'
  <2>1. PICK c \in Calls : RecordInv' /\ OthersUntouched(c)
    BY <1>1, <1>18, JobFailsKeeps
  <2>2. UNCHANGED <<phase, ender, ratings, busy, deleter>>
    BY <1>18 DEF JobFails, tables
  <2> QED BY <1>3, <2>1, <2>2 DEF Over
<1>19. \/ \E c \in Calls :
            \/ Ring(c) \/ Connect(c) \/ StartInserts(c) \/ End(c) \/ StoreRecording(c)
            \/ EndAgain(c) \/ HangUpAgain(c) \/ HandleOpenTicket(c) \/ SaveSummary(c)
            \/ SaveTranscript(c) \/ DeleteFile(c) \/ DeleteRows(c, Surveying(c)) \/ RemoveCall(c)
       \/ \E j \in BagToSet(jobs) : JobRuns(j) \/ JobFails(j)
  BY DEF RecordNext
<1> QED BY <1>4, <1>5, <1>6, <1>7, <1>8, <1>9, <1>10, <1>11, <1>12, <1>13, <1>14, <1>15, <1>16,
           <1>17, <1>18, <1>19

\* Every step of the calls and of what follows them.
LEMMA ConversationNextKeeps ==
  ASSUME ConversationInv, ConversationNext PROVE ConversationInv'
<1>1. CASE RecordNext(Surveying) /\ UNCHANGED conversationVars
  BY <1>1, RecordNextKeeps
<1>2. CASE Restart /\ Forget
  BY <1>2, ForgetKeeps
<1>3. CASE \E c \in Calls : \/ Automate(c) \/ TimerFires(c) \/ EraseEntry(c) \/ SendFollowup(c)
                            \/ AskRating(c) \/ NoteSurvey(c)
  BY <1>3, AutomateKeeps, TimerKeeps, SurveyKeeps
<1>4. CASE SurveyExpires
  BY <1>4, SurveyExpiresKeeps
<1>5. CASE \E m \in Messages :
             \/ \E s \in Sessions : Arrives(m, s)
             \/ LookUpSurvey(m) \/ TakeSurvey(m) \/ Rate(m)
             \/ FindContact(m) \/ CreateContact(m) \/ ListConversations(m)
             \/ CreateConversation(m) \/ PostMessage(m)
  BY <1>5, ArrivesKeeps, LookUpKeeps, TakeKeeps, RateKeeps, ContactKeeps, ConverseKeeps, PostKeeps
<1>6. CASE Resolve
  BY <1>6, ResolveKeeps
<1> QED BY <1>1, <1>2, <1>3, <1>4, <1>5, <1>6 DEF ConversationNext

\* Nobody has called and nobody has written.
LEMMA ConversationInvInit == ConversationInit => ConversationInv
<1> SUFFICES ASSUME ConversationInit PROVE ConversationInv
  OBVIOUS
<1>1. RecordInv
  BY RecordInvInit DEF ConversationInit
<1>2. Home \in Sessions /\ NoCall \notin Calls
  BY RecordAssumption, ConversationAssumption
<1>3. EngineTypeOK
  BY DEF ConversationInit, EngineTypeOK
<1>4. ChatTypeOK
  <2>1. [at |-> Home, answers |-> NoCall, step |-> "new"] \in Message
    BY <1>2 DEF Message, Steps
  <2> QED BY <2>1 DEF ConversationInit, ChatTypeOK
<1>5. \A m \in Messages : msg[m].answers = NoCall /\ msg[m].step = "new"
  BY DEF ConversationInit
<1>6. \A m \in Messages : Answering(m)
  BY <1>5 DEF Answering
<1>7. OneCreates
  BY <1>5 DEF ConversationInit, OneCreates, At
<1>8. ASSUME NEW c \in Calls PROVE Late(c) /\ Settled(c) /\ FollowedUp(c) /\ SurveyedOnce(c)
  <2>1. Late(c) /\ FollowedUp(c)
    BY DEF ConversationInit, Late, FollowedUp
  <2>2. ~Surveying(c) /\ \A m \in Messages : ~Holds(m, c)
    BY <1>2, <1>5 DEF ConversationInit, Surveying, Holds
  <2>3. \A s \in Sessions : ratings[s][c] = 0
    BY DEF ConversationInit, RecordInit
  <2>4. Unrated(c) /\ RatedOnce(c) /\ pendingSurvey # c
    BY <1>2, <2>3 DEF Unrated, RatedOnce, ConversationInit
  <2> QED BY <2>1, <2>2, <2>4 DEF Settled, SurveyedOnce
<1> QED BY <1>1, <1>3, <1>4, <1>6, <1>7, <1>8 DEF ConversationInv

\* The personas' steps leave calls and conversations alone.
LEMMA ConversationStays == ASSUME ConversationInv, UNCHANGED <<recordVars, conversationVars>>
                           PROVE  ConversationInv'
<1>1. RecordInv' /\ ChatTypeOK' /\ (\A m \in Messages : Answering(m)') /\ OneCreates'
  BY RecordsStay, ChatStays DEF ConversationInv, conversationVars
<1>2. /\ UNCHANGED <<phase, ender, ratings, busy, deleter>>
      /\ UNCHANGED <<timer, pendingTimer, survey, pendingSurvey, expired, calledOff, orphaned>>
      /\ UNCHANGED <<msg, doubled>>
  BY DEF recordVars, memoryVars, tables, conversationVars, engineVars, chatVars
<1>3. EngineTypeOK' /\ \A c \in Calls : FollowedUp(c)'
  BY <1>2, TimersStay DEF ConversationInv, EngineTypeOK
<1>4. \A c \in Calls : SurveyedOnce(c)' /\ Settled(c)'
  BY <1>2, SurveyStays
<1>5. \A c \in Calls : Late(c)'
  BY <1>2 DEF ConversationInv, Late, Over
<1> QED BY <1>1, <1>3, <1>4, <1>5 DEF ConversationInv

-------------------------------------------------------------------------------
(* The personas.                                                           *)

\* A statement that clears a direction has one to clear, and a new agent has an id.
Formed(r) ==
  /\ r.step = "wait" => r.clearing \in Directions
  /\ r.op = "create" => r.agent \in Agents
AllFormed == \A e \in Editors : Formed(edit[e])

\* Every agent was seen by the statement of e that clears d, and, once it has run,
\* found by it.
SawAll(e, d) ==
  /\ d = edit[e].clearing => agents \subseteq edit[e].saw
  /\ d \in edit[e].cleared => agents \subseteq edit[e].hit[d]
Informed == \A e \in Editors, d \in Directions \ crowded : SawAll(e, d)

PersonaInv == PersonaTypeOK /\ AllFormed /\ Informed /\ OneActivePersona

\* A request that is over.
LEMMA NoEditFacts ==
  /\ NoEdit \in Edit /\ NoEdit.cleared = {} /\ NoEdit.clearing \notin Directions
  /\ Formed(NoEdit)
BY DEF NoEdit, Edit, Directions, NoDirection, Formed

\* There is no agent yet.
LEMMA PersonaInvInit == PersonaInit => PersonaInv
BY NoEditFacts DEF PersonaInit, PersonaInv, PersonaTypeOK, AllFormed, Informed, SawAll,
                   OneActivePersona

\* A step that changes one request, to r, and no row keeps the invariant if r does.
LEMMA RequestKeepsInv ==
  ASSUME PersonaInv, NEW e \in Editors, NEW r \in Edit,
         edit' = [edit EXCEPT ![e] = r], UNCHANGED <<agents, active, crowded>>,
         Formed(r),
         \A d \in Directions \ crowded :
           /\ d = r.clearing => agents \subseteq r.saw
           /\ d \in r.cleared => agents \subseteq r.hit[d]
  PROVE  PersonaInv'
<1>1. \A o \in Editors : edit'[o] = IF o = e THEN r ELSE edit[o]
  BY DEF PersonaInv, PersonaTypeOK
<1>2. PersonaTypeOK'
  BY DEF PersonaInv, PersonaTypeOK
<1>3. AllFormed'
  BY <1>1 DEF PersonaInv, AllFormed
<1>4. Informed'
  BY <1>1 DEF PersonaInv, Informed, SawAll
<1>5. OneActivePersona'
  BY DEF PersonaInv, OneActivePersona
<1> QED
  BY <1>2, <1>3, <1>4, <1>5 DEF PersonaInv

\* A request that arrives has cleared nothing.
LEMMA ArrivalKeepsInv ==
  ASSUME PersonaInv, NEW e \in Editors, NEW a \in Agents, NEW D \in SUBSET Directions,
         CreateAgent(e, a, D) \/ UpdateAgent(e, a, D)
  PROVE  PersonaInv'
<1> DEFINE r(op, step) == [NoEdit EXCEPT !.op = op, !.agent = a, !.sets = D, !.step = step]
<1>1. PICK op \in {"create", "update"}, step \in {"begin", "clear"} :
        edit' = [edit EXCEPT ![e] = r(op, step)] /\ UNCHANGED <<agents, active, crowded>>
  BY DEF CreateAgent, UpdateAgent
<1>2. /\ r(op, step) \in Edit /\ Formed(r(op, step))
      /\ r(op, step).clearing \notin Directions /\ r(op, step).cleared = {}
  BY DEF Edit, NoEdit, Formed, Directions, NoDirection
<1> HIDE DEF r
<1> QED
  BY <1>1, <1>2, RequestKeepsInv

\* Nor has one whose transaction begins.
LEMMA BeginKeepsInv ==
  ASSUME PersonaInv, NEW e \in Editors, BeginUpdate(e) PROVE PersonaInv'
<1> DEFINE r == IF edit[e].agent \in agents THEN [edit[e] EXCEPT !.step = "clear"] ELSE NoEdit
<1>1. edit[e] \in Edit
  BY DEF PersonaInv, PersonaTypeOK
<1>2. r \in Edit /\ Formed(r)
  BY <1>1, NoEditFacts DEF Edit, Formed, PersonaInv, AllFormed
<1>3. \A d \in Directions \ crowded :
        /\ d = r.clearing => agents \subseteq r.saw
        /\ d \in r.cleared => agents \subseteq r.hit[d]
  BY <1>1, NoEditFacts DEF PersonaInv, Informed, SawAll, Edit
<1>4. edit' = [edit EXCEPT ![e] = r] /\ UNCHANGED <<agents, active, crowded>>
  BY DEF BeginUpdate
<1> QED
  BY <1>2, <1>3, <1>4, RequestKeepsInv

\* A statement that starts sees every agent there is.
LEMMA ClearStartsKeepsInv ==
  ASSUME PersonaInv, NEW e \in Editors, ClearStarts(e) PROVE PersonaInv'
<1> DEFINE d == IF "inbound" \in ToClear(e) THEN "inbound" ELSE "outbound"
           r == [edit[e] EXCEPT !.step = "wait", !.clearing = d, !.saw = agents]
<1>1. edit[e] \in Edit /\ agents \subseteq Agents /\ d \in Directions
  BY DEF PersonaInv, PersonaTypeOK, Directions
<1>2. r \in Edit /\ r.clearing = d /\ r.saw = agents /\ r.cleared = edit[e].cleared
      /\ r.hit = edit[e].hit /\ Formed(r)
  <2> HIDE DEF d
  <2> QED
    BY <1>1 DEF Edit, Formed, PersonaInv, AllFormed
<1>3. \A x \in Directions \ crowded :
        /\ x = r.clearing => agents \subseteq r.saw
        /\ x \in r.cleared => agents \subseteq r.hit[x]
  BY <1>2 DEF PersonaInv, Informed, SawAll
<1>4. edit' = [edit EXCEPT ![e] = r] /\ UNCHANGED <<agents, active, crowded>>
  BY DEF ClearStarts
<1> HIDE DEF r
<1> QED
  BY <1>1, <1>2, <1>3, <1>4, RequestKeepsInv

\* The rows found are the ones seen, so all there are unless the direction is crowded.
LEMMA ClearRunsKeepsInv ==
  ASSUME PersonaInv, NEW e \in Editors, ClearRuns(e) PROVE PersonaInv'
<1> DEFINE q == edit[e]
           h == [q.hit EXCEPT ![q.clearing] = q.saw \cap agents]
           r == [q EXCEPT !.step = "clear", !.clearing = NoDirection, !.saw = {},
                          !.cleared = @ \cup {q.clearing}, !.hit = h]
<1>1. q \in Edit /\ q.clearing \in Directions /\ Formed(q)
  BY DEF PersonaInv, PersonaTypeOK, AllFormed, ClearRuns, Formed
<1>2. h \in [Directions -> SUBSET Agents] /\ h[q.clearing] = q.saw \cap agents
      /\ \A x \in Directions \ {q.clearing} : h[x] = q.hit[x]
  BY <1>1 DEF Edit
<1>3. r \in Edit /\ Formed(r) /\ r.clearing = NoDirection
      /\ r.cleared = q.cleared \cup {q.clearing} /\ r.hit = h
  <2> HIDE DEF h
  <2> QED
    BY <1>1, <1>2 DEF Edit, Formed
<1>4. ASSUME NEW d \in Directions \ crowded
      PROVE  /\ d = r.clearing => agents \subseteq r.saw
             /\ d \in r.cleared => agents \subseteq r.hit[d]
  <2>1. SawAll(e, d)
    BY DEF PersonaInv, Informed
  <2>2. d # r.clearing
    BY <1>3 DEF Directions, NoDirection
  <2> HIDE DEF r, h
  <2> QED
    BY <1>2, <1>3, <2>1, <2>2 DEF SawAll
<1>5. edit' = [edit EXCEPT ![e] = r] /\ UNCHANGED <<agents, active, crowded>>
  BY DEF ClearRuns
<1> HIDE DEF r
<1> QED
  BY <1>3, <1>4, <1>5, RequestKeepsInv

\* A commit that sets a direction has cleared it everywhere else.
LEMMA CommitKeepsInv ==
  ASSUME PersonaInv, NEW e \in Editors, CommitEdit(e) PROVE PersonaInv'
<1> DEFINE q == edit[e]
           writes == q.op = "create" \/ q.agent \in agents
<1>1. q \in Edit /\ agents \subseteq Agents
  BY DEF PersonaInv, PersonaTypeOK
<1>2. /\ q.sets \subseteq q.cleared
      /\ agents' = IF q.op = "create" THEN agents \cup {q.agent} ELSE agents
      /\ active' = [a \in Agents |->
                      IF a = q.agent /\ writes THEN q.sets
                      ELSE active[a] \ {d \in Directions : a \in q.hit[d]}]
      /\ crowded' = crowded \cup
           {d \in Directions : q.op = "create" /\ \E o \in Editors \ {e} : Clears(o, d)}
      /\ edit' = [edit EXCEPT ![e] = NoEdit]
  BY DEF CommitEdit, ToClear
<1>3. \A o \in Editors : edit'[o] = IF o = e THEN NoEdit ELSE edit[o]
  BY <1>2 DEF PersonaInv, PersonaTypeOK
<1>4. PersonaTypeOK'
  <2>1. agents' \subseteq Agents
    BY <1>1, <1>2 DEF PersonaInv, AllFormed, Formed
  <2>2. active' \in [Agents -> SUBSET Directions]
    BY <1>1, <1>2 DEF PersonaInv, PersonaTypeOK, Edit
  <2>3. edit' \in [Editors -> Edit] /\ crowded' \subseteq Directions
    BY <1>2, NoEditFacts DEF PersonaInv, PersonaTypeOK
  <2> QED
    BY <2>1, <2>2, <2>3 DEF PersonaTypeOK
<1>5. AllFormed'
  BY <1>3, NoEditFacts DEF PersonaInv, AllFormed
<1>6. ASSUME NEW o \in Editors, NEW d \in Directions \ crowded' PROVE SawAll(o, d)'
  <2>1. CASE o = e
    BY <2>1, <1>3, NoEditFacts DEF SawAll
  <2>2. CASE o # e
    <3>1. SawAll(o, d) /\ edit'[o] = edit[o]
      BY <2>2, <1>2, <1>3 DEF PersonaInv, Informed
    <3>2. CASE Clears(o, d)
      BY <2>2, <3>1, <3>2, <1>2 DEF SawAll
    <3>3. CASE ~Clears(o, d)
      BY <3>1, <3>3 DEF SawAll, Clears
    <3> QED
      BY <3>2, <3>3
  <2> QED
    BY <2>1, <2>2
<1>7. OneActivePersona'
  <2> SUFFICES ASSUME NEW d \in Directions \ crowded', NEW a \in agents', NEW b \in agents',
                      d \in active'[a], d \in active'[b]
               PROVE  a = b
    BY DEF OneActivePersona
  <2>1. a \in Agents /\ b \in Agents /\ d \notin crowded
    BY <1>2, <1>4 DEF PersonaTypeOK
  <2>2. CASE d \in q.sets
    <3>1. agents \subseteq q.hit[d]
      BY <2>1, <2>2, <1>2 DEF PersonaInv, Informed, SawAll
    <3>2. ASSUME NEW c \in agents', c \in Agents, d \in active'[c] PROVE c = q.agent
      BY <3>1, <3>2, <1>2
    <3> QED
      BY <2>1, <3>2
  <2>3. CASE d \notin q.sets
    <3>1. ASSUME NEW c \in agents', c \in Agents, d \in active'[c]
          PROVE  c \in agents /\ d \in active[c]
      BY <3>1, <2>3, <1>2
    <3> QED
      BY <2>1, <3>1 DEF PersonaInv, OneActivePersona
  <2> QED
    BY <2>2, <2>3
<1> QED
  BY <1>4, <1>5, <1>6, <1>7 DEF PersonaInv, Informed

\* An agent less is one that need not have been seen.
LEMMA DeleteKeepsInv ==
  ASSUME PersonaInv, NEW e \in Editors, NEW a \in Agents, DeleteAgent(e, a) PROVE PersonaInv'
<1>1. agents' = agents \ {a} /\ active' = [active EXCEPT ![a] = {}]
      /\ UNCHANGED <<edit, crowded>>
  BY DEF DeleteAgent
<1>2. PersonaTypeOK' /\ AllFormed'
  BY <1>1 DEF PersonaInv, PersonaTypeOK, AllFormed
<1>3. Informed'
  BY <1>1 DEF PersonaInv, Informed, SawAll
<1>4. OneActivePersona'
  BY <1>1 DEF PersonaInv, PersonaTypeOK, OneActivePersona
<1> QED
  BY <1>2, <1>3, <1>4 DEF PersonaInv

\* Every step of the requests.
LEMMA PersonaNextKeeps == PersonaInv /\ [PersonaNext]_personaVars => PersonaInv'
<1> SUFFICES ASSUME PersonaInv, [PersonaNext]_personaVars PROVE PersonaInv'
  OBVIOUS
<1>1. CASE UNCHANGED personaVars
  BY <1>1 DEF personaVars, PersonaInv, PersonaTypeOK, AllFormed, Informed, SawAll, OneActivePersona
<1>2. ASSUME NEW e \in Editors, NEW a \in Agents, NEW d \in Directions, SetActiveAgent(e, a, d)
      PROVE PersonaInv'
  <2>1. active[a] \cup {d} \in SUBSET Directions
    BY DEF PersonaInv, PersonaTypeOK
  <2> QED
    BY <1>2, <2>1, ArrivalKeepsInv DEF SetActiveAgent
<1>3. ASSUME NEW e \in Editors, AbortEdit(e) PROVE PersonaInv'
  BY <1>3, NoEditFacts, RequestKeepsInv DEF AbortEdit
<1> QED
  BY <1>1, <1>2, <1>3, ArrivalKeepsInv, DeleteKeepsInv, BeginKeepsInv, ClearStartsKeepsInv,
     ClearRunsKeepsInv, CommitKeepsInv DEF PersonaNext


-------------------------------------------------------------------------------
(* The session's data.                                                     *)

SessionDataInv == ConversationInv /\ PersonaInv

\* A step moves the conversations or the personas and leaves the other part alone.
LEMMA SessionDataNextKeeps == SessionDataInv /\ [Next]_vars => SessionDataInv'
<1> SUFFICES ASSUME SessionDataInv, [Next]_vars PROVE SessionDataInv'
  OBVIOUS
<1>1. CASE mix # {} /\ ConversationNext /\ UNCHANGED personaVars
  BY <1>1, ConversationNextKeeps, PersonaNextKeeps DEF SessionDataInv
<1>2. CASE mix = {} /\ PersonaNext /\ UNCHANGED <<recordVars, conversationVars>>
  BY <1>2, ConversationStays, PersonaNextKeeps DEF SessionDataInv
<1>3. CASE UNCHANGED vars
  BY <1>3, ConversationStays, PersonaNextKeeps DEF SessionDataInv, vars
<1> QED BY <1>1, <1>2, <1>3 DEF Next

\* The invariant of the session's data, which the other results rest on.
THEOREM SessionDataInvariant == Spec => []SessionDataInv
<1>1. Init => SessionDataInv
  BY ConversationInvInit, PersonaInvInit DEF Init, SessionDataInv
<1> QED BY <1>1, SessionDataNextKeeps, PTL DEF Spec

\* Calls, deletions, surveys, messages, restarts and persona requests in any order keep
\* every variable in its type (broker.go, sessionstore.go, nps.go, followup.go,
\* chatwoot.go, agents_api.go).
THEOREM SessionDataTypeCorrect == Spec => []TypeOK
<1>1. SessionDataInv => TypeOK
  BY ConversationTypes DEF SessionDataInv, TypeOK, PersonaInv
<1> QED BY <1>1, SessionDataInvariant, PTL

\* A call deleted in peace stays deleted, for any number of calls and goroutines and
\* any length of the history (handleDeleteHistoryCall, httpapi.go; deleteCall,
\* sessionstore.go; removeCall, broker.go).
THEOREM DeletionLasts == Spec => []DeletedStaysDeleted
<1>1. SessionDataInv => DeletedStaysDeleted
  <2> SUFFICES ASSUME SessionDataInv, NEW c \in Calls \ busy, deleter[c] = "done"
               PROVE  /\ row[c] = Absent /\ script[c] # "saved" /\ ratings[Home][c] = 0
                      /\ ~InBroker(c)
                      /\ wav[c] = "file" => "fail" \in mix
    BY DEF DeletedStaysDeleted
  <2>1. Left(c) /\ Filed(c) /\ Peace(c)
    BY DEF SessionDataInv, ConversationInv, RecordInv, Peace
  <2>2. /\ ~Unfinished(c) /\ row[c] = Absent /\ script[c] # "saved" /\ ratings[Home][c] = 0
        /\ LogsOf(c) = {}
    BY <2>1 DEF Left
  <2>3. ~InBroker(c)
    BY <2>2 DEF InBroker, Unfinished
  <2> QED BY <2>1, <2>2, <2>3 DEF Filed
<1> QED BY <1>1, SessionDataInvariant, PTL

\* A mark that a request was told is saved is in the row once the call is over and its
\* writers are done, for any number of calls, any length of the history and any order of
\* the goroutines, unless it was counted as lost, as a ticket of a call the broker does not
\* know is, although it is answered like any other (handleOpenTicket, httpapi.go;
\* openTicket, saveSummary, endCall, broker.go; saveCallHistory, sessionstore.go).
THEOREM MarksArrive == Spec => []MarksReachDatabase
<1>1. SessionDataInv => MarksReachDatabase
  <2> SUFFICES ASSUME SessionDataInv, NEW c \in Calls, live[c] = Absent,
                      deleter[c] \in {"none", "failed"},
                      \A j \in BagToSet(jobs) : j.call # c,
                      NEW m \in accepted[c] \ lost[c]
               PROVE  m \in row[c]
    BY DEF MarksReachDatabase
  <2>1. Traced(c) /\ RecordTypeOK
    BY DEF SessionDataInv, ConversationInv, RecordInv
  <2>2. m \notin live[c]
    BY <2>1, RecordTypes DEF Marks, Absent
  <2>3. ~Carried(c, m) /\ Update(c, m) \notin BagToSet(jobs)
    BY <2>2 DEF Carried, Update
  <2> QED BY <2>1, <2>3 DEF Traced
<1> QED BY <1>1, SessionDataInvariant, PTL

\* A follow-up that a message or a newer missed call found waiting is never sent, for any
\* number of calls, messages and sessions (ScheduleFollowup, CancelFollowup, followup.go).
THEOREM CalledOffStaysOff == Spec => []FollowupsStop
<1>1. SessionDataInv => FollowupsStop
  BY DEF SessionDataInv, ConversationInv, EngineTypeOK, FollowedUp, FollowupsStop
<1> QED BY <1>1, SessionDataInvariant, PTL

\* One call is rated at most once, for any number of calls, messages and sessions
\* (ScheduleNPS, HandleIncomingMessage, nps.go).
THEOREM OneRating == Spec => []SurveyRatedOnce
<1>1. SessionDataInv => SurveyRatedOnce
  BY DEF SessionDataInv, ConversationInv, SurveyedOnce, SurveyRatedOnce
<1> QED BY <1>1, SessionDataInvariant, PTL

\* Pushes that do not cross make one conversation and drop no message, however many
\* messages there are (ensureContact, ensureConversation, chatwoot.go).
THEOREM OneConversationOpen == Spec => []OneConversation
<1>1. SessionDataInv => OneConversation
  BY DEF SessionDataInv, ConversationInv, OneCreates, OneConversation
<1> QED BY <1>1, SessionDataInvariant, PTL

\* A session's data keeps the personas as the requests of agents_api.go alone would.
THEOREM PersonasOfSession == Spec => PersonaSpec
<1>1. Init => PersonaInit
  BY DEF Init
<1>2. [Next]_vars => [PersonaNext]_personaVars
  BY DEF Next, vars
<1> QED BY <1>1, <1>2, PTL DEF Spec, PersonaSpec

\* At most one agent of a session is the active one of a direction that was never
\* crowded, for any number of agents and of concurrent requests
\* (createAgent and updateAgent, sessionstore.go).
THEOREM OneActiveCorrect == PersonaSpec => []OneActivePersona
<1>1. PersonaInv => OneActivePersona
  BY DEF PersonaInv
<1> QED
  BY <1>1, PersonaInvInit, PersonaNextKeeps, PTL DEF PersonaSpec
===============================================================================

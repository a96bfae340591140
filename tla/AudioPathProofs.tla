--------------------------- MODULE AudioPathProofs ---------------------------
(***************************************************************************)
(* What the audio of a call promises, for every number of sequence         *)
(* numbers, every length of the ring and every bound: the counters of both *)
(* directions keep to the frames, a doubled frame is heard once, and       *)
(* nothing goes on after cleanupMedia.                                     *)
(***************************************************************************)
EXTENDS ManagerMedia, SequenceTheorems, TLAPS

-------------------------------------------------------------------------------
(* The contexts.                                                           *)

\* A context that has met a frame and could follow its stream adds up to that
\* frame's full index; one that has met none is as new.
Follows(c) ==
  /\ c.met = None => /\ c.roc = 0 /\ c.init = FALSE
                     /\ c.slipped = FALSE /\ c.skewed = FALSE
  /\ c.met # None /\ c.slipped = FALSE =>
       /\ c.init = TRUE /\ c.skewed = FALSE
       /\ c.roc * W + c.last = c.met

\* A number is its rollover count and its sequence number.
LEMMA DivMod ==
  ASSUME NEW i \in Nat
  PROVE  i \div W \in Nat /\ i % W \in 0..(W - 1)
BY AudioAssumption, SMT

\* And adds up to them.
LEMMA AddsUp ==
  ASSUME NEW i \in Nat, NEW q \in Nat, q = i \div W, NEW r \in Nat, r = i % W
  PROVE  i = q * W + r
<1>1. i = W * q + r
  BY AudioAssumption, SMT
<1> QED BY <1>1, AudioAssumption, SMT

\* Two numbers less than half of W apart and on different counts are on
\* neighbouring ones.
LEMMA Neighbours ==
  ASSUME NEW p \in Nat, NEW l \in 0..(W - 1), NEW q \in Nat, NEW r \in 0..(W - 1),
         NEW mid \in Nat, 2 * mid <= W, q > p,
         (q * W + r) - (p * W + l) < mid
  PROVE  q = p + 1 /\ r - l < -mid
<1>1. W \in Nat \ {0}
  BY AudioAssumption
<1>2. PICK d \in Nat : d = q - (p + 1)
  BY SMT
<1>3. q = p + 1 + d
  BY <1>2
<1>4. (q * W + r) - (p * W + l) = W + d * W + r - l
  BY <1>1, <1>3, SMT
<1>5. d >= 1 => d * W >= W
  BY <1>1, SMT
<1>6. d * W \in Nat /\ (d = 0 => d * W = 0)
  BY <1>1, SMT
<1>7. PICK e \in Nat : e = d * W
  BY <1>6
<1>8. W + e + r - l < mid
  BY <1>4, <1>7
<1>9. d = 0
  BY <1>1, <1>5, <1>7, <1>8
<1> QED BY <1>1, <1>3, <1>6, <1>7, <1>8, <1>9

\* W \div 2, as updateRoc halves it.
LEMMA HalfW == W \div 2 \in Nat /\ 2 * (W \div 2) <= W /\ W <= 2 * (W \div 2) + 1
BY AudioAssumption, SMT

\* In one way only.
LEMMA Unique ==
  ASSUME NEW q \in Nat, NEW r \in 0..(W - 1)
  PROVE  (q * W + r) \div W = q /\ (q * W + r) % W = r
BY AudioAssumption, SMT

-------------------------------------------------------------------------------
(* One frame more through a context.                                       *)

\* A fresh context is a context, and follows.
LEMMA NewCtxFollows == NewCtx \in Ctx /\ Follows(NewCtx)
<1>1. 0 \in 0..(W - 1)
  BY AudioAssumption, SMT
<1> QED BY <1>1 DEF NewCtx, Ctx, Follows

\* What Meets makes of a context, field by field.
LEMMA MeetsFields ==
  ASSUME NEW c \in Ctx, NEW i \in Nat
  PROVE  LET m == Meets(c, i)
             wraps == c.init /\ (i % W) - c.last < -(W \div 2)
         IN  /\ m \in Ctx
             /\ m.met = i /\ m.init = TRUE /\ m.last = i % W
             /\ wraps => m.roc = c.roc + 1
             /\ ~wraps => m.roc = c.roc
             /\ (m.slipped = FALSE) => c.slipped = FALSE /\ ~Slips(c, i)
             /\ (m.skewed = FALSE) <=> (c.skewed = FALSE /\ m.roc * W + (i % W) = i)
<1>1. i % W \in 0..(W - 1) /\ i \in Nat \cup {None}
  BY DivMod
<1>2. c.roc \in Nat /\ c.skewed \in BOOLEAN /\ c.slipped \in BOOLEAN
  BY DEF Ctx
<1> DEFINE u == UpdateRoc(c, i % W)
           m == Meets(c, i)
           wraps == c.init /\ (i % W) - c.last < -(W \div 2)
<1>3. u \in Ctx /\ u.skewed = c.skewed /\ u.slipped = c.slipped
      /\ u.last = i % W /\ u.init = TRUE
      /\ (wraps => u.roc = c.roc + 1) /\ (~wraps => u.roc = c.roc)
  <2>1. CASE wraps
    <3>1. u = [c EXCEPT !.last = i % W, !.init = TRUE, !.roc = c.roc + 1]
      BY <2>1 DEF UpdateRoc
    <3>2. c.roc + 1 \in Nat
      BY <1>2, SMT
    <3> QED BY <2>1, <3>1, <3>2, <1>1, <1>2 DEF Ctx
  <2>2. CASE ~wraps
    <3>1. u = [c EXCEPT !.last = i % W, !.init = TRUE, !.roc = c.roc]
      BY <2>2 DEF UpdateRoc
    <3> QED BY <2>2, <3>1, <1>1, <1>2 DEF Ctx
  <2> QED BY <2>1, <2>2
<1>4. PICK s \in BOOLEAN : s <=> (c.slipped \/ Slips(c, i))
  OBVIOUS
<1>5. PICK k \in BOOLEAN : k <=> (c.skewed \/ PacketIndex(u, i % W) # i)
  OBVIOUS
<1>6. m = [u EXCEPT !.met = i, !.slipped = s, !.skewed = k]
  <2>1. m = [u EXCEPT !.met = i, !.slipped = (u.slipped \/ Slips(c, i)),
                      !.skewed = (u.skewed \/ PacketIndex(u, i % W) # i)]
    BY DEF Meets
  <2> HIDE DEF u, m
  <2>2. (u.slipped \/ Slips(c, i)) = s
    BY <1>3, <1>4
  <2>3. (u.skewed \/ PacketIndex(u, i % W) # i) = k
    BY <1>3, <1>5
  <2> QED BY <2>1, <2>2, <2>3, Zenon
<1> HIDE DEF u, m, wraps
<1>7. /\ m \in Ctx
      /\ m.met = i /\ m.init = u.init /\ m.last = u.last /\ m.roc = u.roc
      /\ m.slipped = s /\ m.skewed = k
  BY <1>1, <1>3, <1>6 DEF Ctx
<1>8. m.slipped = FALSE => c.slipped = FALSE /\ ~Slips(c, i)
  BY <1>2, <1>4, <1>7
<1>9. (m.skewed = FALSE) <=> (c.skewed = FALSE /\ m.roc * W + (i % W) = i)
  BY <1>2, <1>5, <1>7 DEF PacketIndex
<1> QED
  BY <1>3, <1>7, <1>8, <1>9 DEF m, wraps

\* A context that followed its stream follows it after a frame that does not
\* make it slip: the three ways a rollover count can go.
LEMMA MeetsFollows ==
  ASSUME NEW c \in Ctx, NEW i \in Nat, Follows(c)
  PROVE  Meets(c, i) \in Ctx /\ Follows(Meets(c, i))
<1> DEFINE m == Meets(c, i)
<1>1. /\ m \in Ctx /\ m.met = i /\ m.init = TRUE /\ m.last = i % W
      /\ m.slipped = FALSE => c.slipped = FALSE /\ ~Slips(c, i)
      /\ (m.skewed = FALSE) <=> (c.skewed = FALSE /\ m.roc * W + (i % W) = i)
  BY MeetsFields
<1>2. /\ c.init /\ (i % W) - c.last < -(W \div 2) => m.roc = c.roc + 1
      /\ ~(c.init /\ (i % W) - c.last < -(W \div 2)) => m.roc = c.roc
  BY MeetsFields
<1> HIDE DEF m
<1>3. SUFFICES ASSUME c.slipped = FALSE, ~Slips(c, i)
               PROVE  c.skewed = FALSE /\ m.roc * W + (i % W) = i
  <2>1. m.met # None
    BY <1>1 DEF None
  <2> QED BY <1>1, <1>3, <2>1 DEF Follows, m
<1>4. /\ c.roc \in Nat /\ c.last \in 0..(W - 1) /\ c.met \in Nat \cup {None}
  BY DEF Ctx
<1>5. PICK q \in Nat, r \in 0..(W - 1) : q = i \div W /\ r = i % W
  BY DivMod
<1>6. i = q * W + r
  BY <1>5, AddsUp, AudioAssumption
<1>7. CASE c.met = None
  <2>1. c.roc = 0 /\ c.init = FALSE /\ c.skewed = FALSE
    BY <1>7 DEF Follows
  <2>2. q = 0
    BY <1>3, <1>5, <1>7 DEF Slips
  <2>3. m.roc = 0
    BY <1>2, <2>1
  <2> QED BY <1>5, <1>6, <2>1, <2>2, <2>3
<1>8. CASE c.met # None
  <2>1. /\ c.met \in Nat /\ c.init = TRUE /\ c.skewed = FALSE
        /\ c.roc * W + c.last = c.met
    BY <1>3, <1>4, <1>8 DEF Follows
  <2>2. c.met \div W = c.roc
    BY <1>4, <2>1, Unique
  <2>3. ~(q < c.roc)
    BY <1>3, <1>5, <1>8, <2>2 DEF Slips
  <2>4. PICK mid \in Nat : mid = W \div 2 /\ 2 * mid <= W
    BY HalfW
  <2>5. W \in Nat
    BY AudioAssumption
  <2>6. CASE q = c.roc
    <3>1. ~(c.met - i > mid)
      BY <1>3, <1>5, <1>8, <2>2, <2>4, <2>6 DEF Slips
    <3>2. c.met - i = c.last - r
      BY <1>4, <1>5, <1>6, <2>1, <2>5, <2>6
    <3>3. ~(r - c.last < -mid)
      BY <1>4, <1>5, <2>4, <2>5, <3>1, <3>2
    <3>4. m.roc = c.roc
      BY <1>2, <1>5, <2>4, <3>3
    <3> QED BY <1>5, <1>6, <2>1, <2>6, <3>4
  <2>7. CASE q > c.roc
    <3>1. ~(i - c.met >= mid)
      BY <1>3, <1>5, <1>8, <2>2, <2>4, <2>7 DEF Slips
    <3>2. (q * W + r) - (c.roc * W + c.last) < mid
      BY <1>4, <1>6, <2>1, <2>4, <3>1
    <3>3. q = c.roc + 1 /\ r - c.last < -mid
      BY <1>4, <1>5, <2>4, <2>7, <3>2, Neighbours
    <3>4. m.roc = c.roc + 1
      <4>1. (i % W) - c.last < -(W \div 2)
        BY <1>5, <2>4, <3>3
      <4> QED BY <1>2, <2>1, <4>1
    <3>5. m.roc = q
      BY <3>3, <3>4
    <3>6. m.roc * W + r = i
      BY <1>6, <3>5
    <3> QED BY <1>5, <2>1, <3>6, Zenon
  <2>8. q < c.roc \/ q = c.roc \/ q > c.roc
    BY <1>4, SMT
  <2> QED BY <2>3, <2>6, <2>7, <2>8, Zenon
<1> QED BY <1>7, <1>8

-------------------------------------------------------------------------------
(* The invariant.                                                          *)

\* Where the ring holds the n-th of the numbers that recent remembers.
Slot(p, len, n) == IF p - len + n - 1 >= 0 THEN p - len + n - 1 ELSE p - len + n - 1 + H

\* The ring holds the number of every frame recent remembers.
RingRemembers ==
  /\ Len(recent) <= H
  /\ recent # <<>> => ring.used = TRUE
  /\ \A n \in 1..Len(recent) :
       recent[n] \in Frames =>
         ring.seen[Slot(ring.next, Len(recent), n)] = (start + recent[n]) % W

\* The contexts of both directions, and the one a packet took with it.
Contexts == Follows(session.send) /\ Follows(session.recv) /\ Follows(rx.ctx)

\* A frame the ring never lost sight of was heard, or is being decoded, once;
\* and none is heard that has not arrived.
Singly ==
  /\ rx.step = "decode" => rx.frame \in arrived
  /\ \A k \in Frames : k \notin arrived => heard[k] = 0
  /\ \A k \in Frames : k \notin stale =>
       /\ heard[k] <= 1
       /\ rx.step = "decode" /\ rx.frame = k => heard[k] = 0

\* After cleanupMedia there is no codec, and no packet was taken up.
Ended == (cleared => coder = FALSE) /\ rx.after = FALSE

AudioInv == AudioTypeOK /\ RingRemembers /\ Contexts /\ Singly /\ Ended

-------------------------------------------------------------------------------
(* The ring.                                                               *)

\* The position moves on by one, and around at the end.
LEMMA NextPosition ==
  ASSUME NEW p \in 0..(H - 1)
  PROVE  /\ (p + 1) % H \in 0..(H - 1)
         /\ p + 1 < H => (p + 1) % H = p + 1
         /\ p + 1 = H => (p + 1) % H = 0
BY AudioAssumption, SMT

\* While the ring is not full a number more moves none of the others ...
LEMMA SlotGrows ==
  ASSUME NEW p \in 0..(H - 1), NEW len \in 0..(H - 1), NEW n \in 1..(len + 1),
         NEW t \in 0..(H - 1), t = (p + 1) % H
  PROVE  LET s == Slot(t, len + 1, n)
         IN  /\ s \in 0..(H - 1)
             /\ n <= len => s = Slot(p, len, n) /\ s # p
             /\ n = len + 1 => s = p
<1>1. (p + 1 < H => t = p + 1) /\ (p + 1 = H => t = 0)
  BY NextPosition
<1>2. H \in Nat \ {0}
  BY AudioAssumption
<1>3. CASE p + 1 < H
  BY <1>1, <1>2, <1>3 DEF Slot
<1>4. CASE p + 1 = H
  <2>1. t = 0 /\ p = H - 1 /\ len - n + 2 > 0
    BY <1>1, <1>2, <1>4
  <2>2. Slot(t, len + 1, n) = n - len - 2 + H
    BY <1>2, <2>1 DEF Slot
  <2>3. n <= len => Slot(p, len, n) = n - len - 2 + H
    BY <1>2, <2>1 DEF Slot
  <2> QED BY <1>1, <1>2, <2>1, <2>2, <2>3
<1> QED BY <1>2, <1>3, <1>4

\* ... and once it is, it takes the place of the oldest.
LEMMA SlotTurns ==
  ASSUME NEW p \in 0..(H - 1), NEW n \in 1..H,
         NEW t \in 0..(H - 1), t = (p + 1) % H
  PROVE  LET s == Slot(t, H, n)
         IN  /\ s \in 0..(H - 1)
             /\ n < H => s = Slot(p, H, n + 1) /\ s # p
             /\ n = H => s = p
<1>1. (p + 1 < H => t = p + 1) /\ (p + 1 = H => t = 0)
  BY NextPosition
<1>2. H \in Nat \ {0}
  BY AudioAssumption
<1>3. CASE p + 1 < H
  BY <1>1, <1>2, <1>3 DEF Slot
<1>4. CASE p + 1 = H
  BY <1>1, <1>2, <1>4 DEF Slot
<1> QED BY <1>2, <1>3, <1>4

\* What the ring, and what is remembered of it, are made of.
LEMMA RingFacts ==
  ASSUME AudioTypeOK, RingRemembers
  PROVE  /\ H \in Nat \ {0}
         /\ ring.seen \in [0..(H - 1) -> 0..(W - 1)] /\ ring.next \in 0..(H - 1)
         /\ recent \in Seq(Frames \cup {None}) /\ Len(recent) \in 0..H
         /\ start \in 0..(W - 1) /\ start \in Nat
         /\ stale \subseteq Frames /\ arrived \subseteq Frames
<1>1. /\ H \in Nat \ {0} /\ Starts \subseteq 0..(W - 1) /\ W \in Nat
  BY AudioAssumption
<1>2. /\ ring \in [seen : [0..(H - 1) -> 0..(W - 1)], next : 0..(H - 1), used : BOOLEAN]
      /\ recent \in Seq(Frames \cup {None})
      /\ start \in Starts /\ stale \subseteq Frames /\ arrived \subseteq Frames
  BY DEF AudioTypeOK
<1>3. Len(recent) \in Nat /\ Len(recent) <= H
  BY <1>2, LenProperties DEF RingRemembers
<1> QED BY <1>1, <1>2, <1>3

\* isDuplicateRtp of a packet leaves the ring in order.
LEMMA RecordsRing ==
  ASSUME AudioTypeOK, RingRemembers,
         NEW seq \in 0..(W - 1), NEW k \in Frames \cup {None},
         k \in Frames => seq = (start + k) % W,
         Records(seq, k), start' = start
  PROVE  /\ RingRemembers'
         /\ ring' \in [seen : [0..(H - 1) -> 0..(W - 1)], next : 0..(H - 1), used : BOOLEAN]
         /\ recent' \in Seq(Frames \cup {None}) /\ stale' \subseteq Frames
<1>1. /\ H \in Nat \ {0}
      /\ ring.seen \in [0..(H - 1) -> 0..(W - 1)] /\ ring.next \in 0..(H - 1)
      /\ recent \in Seq(Frames \cup {None}) /\ Len(recent) \in 0..H
      /\ stale \subseteq Frames /\ arrived \subseteq Frames
  BY RingFacts
<1>2. PICK p \in 0..(H - 1), len \in 0..H : p = ring.next /\ len = Len(recent)
  BY <1>1
<1>3. PICK t \in 0..(H - 1) : t = (p + 1) % H
  BY NextPosition
<1>4. /\ ring'.seen = [ring.seen EXCEPT ![p] = seq]
      /\ ring'.next = t /\ ring'.used = TRUE
      /\ ring' = [seen |-> [ring.seen EXCEPT ![p] = seq], next |-> t, used |-> TRUE]
  BY <1>2, <1>3 DEF Records, Recorded
<1>5. /\ ring' \in [seen : [0..(H - 1) -> 0..(W - 1)], next : 0..(H - 1), used : BOOLEAN]
      /\ stale' \subseteq Frames
  BY <1>1, <1>4 DEF Records
<1>6. \A n \in 1..len : recent[n] \in Frames =>
        ring.seen[Slot(p, len, n)] = (start + recent[n]) % W
  BY <1>2 DEF RingRemembers
<1>7. CASE len # H
  <2>1. recent' = Append(recent, k)
    BY <1>2, <1>7 DEF Records
  <2>2. /\ recent' \in Seq(Frames \cup {None}) /\ Len(recent') = len + 1
        /\ \A n \in 1..len : recent'[n] = recent[n]
        /\ recent'[len + 1] = k
    BY <1>1, <1>2, <2>1, AppendProperties
  <2>3. len \in 0..(H - 1) /\ len + 1 <= H /\ recent' # <<>>
    BY <1>1, <1>2, <1>7, <2>2
  <2>4. ASSUME NEW n \in 1..(len + 1), recent'[n] \in Frames
        PROVE  ring'.seen[Slot(t, len + 1, n)] = (start + recent'[n]) % W
    <3>1. /\ Slot(t, len + 1, n) \in 0..(H - 1)
          /\ n <= len => Slot(t, len + 1, n) = Slot(p, len, n) /\ Slot(t, len + 1, n) # p
          /\ n = len + 1 => Slot(t, len + 1, n) = p
      BY <1>3, <2>3, <2>4, SlotGrows
    <3>2. CASE n <= len
      <4>1. n \in 1..len /\ recent'[n] = recent[n]
        BY <2>2, <2>3, <2>4, <3>2
      <4> QED BY <1>1, <1>4, <1>6, <2>4, <3>1, <3>2, <4>1
    <3>3. CASE n = len + 1
      <4>1. recent'[n] = k
        BY <2>2, <3>3
      <4> QED BY <1>1, <1>2, <1>4, <2>4, <3>1, <3>3, <4>1
    <3> QED BY <2>3, <2>4, <3>2, <3>3
  <2>5. RingRemembers'
    BY <1>4, <2>2, <2>3, <2>4 DEF RingRemembers
  <2> QED BY <1>5, <2>2, <2>5
<1>8. CASE len = H
  <2>1. recent' = Append(Tail(recent), k)
    BY <1>2, <1>8 DEF Records
  <2>2. /\ Tail(recent) \in Seq(Frames \cup {None}) /\ Len(Tail(recent)) = H - 1
        /\ \A n \in 1..(H - 1) : Tail(recent)[n] = recent[n + 1]
    <3>1. recent # <<>>
      BY <1>1, <1>2, <1>8
    <3> QED BY <1>1, <1>2, <1>8, <3>1, HeadTailProperties
  <2>3. /\ recent' \in Seq(Frames \cup {None}) /\ Len(recent') = H
        /\ \A n \in 1..(H - 1) : recent'[n] = recent[n + 1]
        /\ recent'[H] = k
    BY <1>1, <2>1, <2>2, AppendProperties
  <2>4. recent' # <<>>
    BY <1>1, <2>3
  <2>5. ASSUME NEW n \in 1..H, recent'[n] \in Frames
        PROVE  ring'.seen[Slot(t, H, n)] = (start + recent'[n]) % W
    <3>1. /\ Slot(t, H, n) \in 0..(H - 1)
          /\ n < H => Slot(t, H, n) = Slot(p, H, n + 1) /\ Slot(t, H, n) # p
          /\ n = H => Slot(t, H, n) = p
      BY <1>3, SlotTurns
    <3>2. CASE n < H
      <4>1. n \in 1..(H - 1) /\ n + 1 \in 1..H /\ recent'[n] = recent[n + 1]
        BY <1>1, <2>3, <3>2
      <4>2. ring.seen[Slot(p, H, n + 1)] = (start + recent[n + 1]) % W
        BY <1>6, <1>8, <2>5, <4>1
      <4>3. Slot(t, H, n) # p /\ Slot(t, H, n) = Slot(p, H, n + 1)
        BY <3>1, <3>2
      <4> QED BY <1>1, <1>4, <3>1, <4>1, <4>2, <4>3
    <3>3. CASE n = H
      <4>1. recent'[n] = k
        BY <2>3, <3>3
      <4> QED BY <1>1, <1>2, <1>4, <2>5, <3>1, <3>3, <4>1
    <3> QED BY <1>1, <2>5, <3>2, <3>3
  <2>6. RingRemembers'
    BY <1>1, <1>4, <2>3, <2>4, <2>5 DEF RingRemembers
  <2> QED BY <1>5, <2>3, <2>6
<1> QED BY <1>7, <1>8

\* A frame that is remembered is a duplicate to isDuplicateRtp.
LEMMA RememberedIsDuplicate ==
  ASSUME AudioTypeOK, RingRemembers, NEW k \in Frames, Remembered(k)
  PROVE  IsDuplicate((start + k) % W)
<1>1. PICK n \in 1..Len(recent) : recent[n] = k
  BY DEF Remembered
<1>2. /\ H \in Nat \ {0} /\ ring.next \in 0..(H - 1) /\ Len(recent) \in 0..H
  BY RingFacts
<1>3. Slot(ring.next, Len(recent), n) \in 0..(H - 1)
  BY <1>1, <1>2 DEF Slot
<1>4. ring.seen[Slot(ring.next, Len(recent), n)] = (start + k) % W
  BY <1>1 DEF RingRemembers
<1>5. ring.used
  <2>1. recent # <<>>
    BY <1>1
  <2> QED BY <2>1 DEF RingRemembers
<1> QED BY <1>3, <1>4, <1>5 DEF IsDuplicate

-------------------------------------------------------------------------------
(* The invariant holds at first, and every action keeps it.                *)

\* Frames and our own numbers are numbers.
LEMMA FrameFacts ==
  /\ \A k \in Frames : k \in Nat /\ k # None
  /\ None \notin Nat /\ None \notin Frames
  /\ MaxFrames \in Nat /\ MaxStrays \in Nat /\ MaxAccepts \in Nat
  /\ W \in Nat \ {0} /\ H \in Nat \ {0} /\ Starts \subseteq 0..(W - 1)
BY AudioAssumption DEF Frames, None

\* A call begins with nothing sent, received or remembered.
LEMMA AudioInitInv == AudioInit => AudioInv
<1> SUFFICES ASSUME AudioInit PROVE AudioInv
  OBVIOUS
<1>1. NewCtx \in Ctx /\ Follows(NewCtx)
  BY NewCtxFollows
<1>2. /\ W \in Nat \ {0} /\ H \in Nat \ {0} /\ Starts \subseteq 0..(W - 1)
      /\ MaxAccepts \in Nat /\ MaxStrays \in Nat /\ None \notin Frames
  BY FrameFacts
<1>3. session.send = NewCtx /\ session.recv = NewCtx /\ session.id = 0
      /\ session \in [id : Nat, live : BOOLEAN, send : Ctx, recv : Ctx]
  <2>1. session \in [id : {0}, live : {FALSE, ~ackDue}, send : {NewCtx}, recv : {NewCtx}]
    BY DEF AudioInit
  <2>2. {FALSE, ~ackDue} \subseteq BOOLEAN
    OBVIOUS
  <2> HIDE DEF NewCtx
  <2>3. \A L : L \subseteq BOOLEAN =>
          [id : {0}, live : L, send : {NewCtx}, recv : {NewCtx}]
            \subseteq [id : Nat, live : BOOLEAN, send : {NewCtx}, recv : {NewCtx}]
    OBVIOUS
  <2>4. session \in [id : Nat, live : BOOLEAN, send : {NewCtx}, recv : {NewCtx}]
    BY <2>1, <2>2, <2>3, Zenon
  <2>5. session.send = NewCtx /\ session.recv = NewCtx /\ session.id = 0
    BY <2>1
  <2> QED BY <1>1, <2>4, <2>5
<1>4. rx = Idle /\ rx.ctx = NewCtx /\ rx.after = FALSE /\ rx.step = "idle" /\ rx \in Rx
  BY <1>1 DEF AudioInit, Idle, Rx
<1>5. ring \in [seen : [0..(H - 1) -> 0..(W - 1)], next : 0..(H - 1), used : BOOLEAN]
  BY <1>2 DEF AudioInit
<1>6. recent = <<>> /\ recent \in Seq(Frames \cup {None}) /\ Len(recent) = 0
  BY DEF AudioInit
<1>7. AudioTypeOK
  <2>1. /\ coder = TRUE /\ open = TRUE /\ cleared = FALSE
        /\ ours \in Starts /\ sent = 0 /\ ackDue \in BOOLEAN /\ accepts = MaxAccepts
        /\ start \in Starts /\ arrived = {} /\ strays = MaxStrays /\ stale = {}
        /\ peerSet = FALSE /\ heard = [k \in Frames |-> 0]
    BY DEF AudioInit
  <2>2. heard \in [Frames -> Nat] /\ ours \in Nat /\ accepts \in 0..MaxAccepts
        /\ strays \in 0..MaxStrays
    BY <1>2, <2>1
  <2> QED BY <1>2, <1>3, <1>4, <1>5, <1>6, <2>1, <2>2 DEF AudioTypeOK
<1>8. RingRemembers
  BY <1>2, <1>6 DEF RingRemembers
<1>9. Contexts /\ Ended
  BY <1>1, <1>3, <1>4 DEF Contexts, Ended, AudioInit
<1>10. Singly
  BY <1>4 DEF Singly, AudioInit
<1> QED BY <1>7, <1>8, <1>9, <1>10 DEF AudioInv

\* What stays when an action leaves the network, the ring and the reader alone.
LEMMA RingKept ==
  ASSUME RingRemembers, UNCHANGED <<start, ring, recent>>
  PROVE  RingRemembers'
BY DEF RingRemembers

\* Frames that were not heard twice still are not.
LEMMA SinglyKept ==
  ASSUME Singly, UNCHANGED <<arrived, stale, rx, heard>>
  PROVE  Singly'
BY DEF Singly

\* Both contexts are made new with the session: initSrtpKeysLocked.
LEMMA NewSessionFollows ==
  ASSUME AudioTypeOK, Contexts, NewSession, rx' = rx
  PROVE  /\ Contexts'
         /\ session' \in [id : Nat, live : BOOLEAN, send : Ctx, recv : Ctx]
<1>1. NewCtx \in Ctx /\ Follows(NewCtx)
  BY NewCtxFollows
<1>2. session.id \in Nat
  BY DEF AudioTypeOK
<1>3. session.id + 1 \in Nat
  BY <1>2, SMT
<1> QED BY <1>1, <1>3 DEF NewSession, Contexts

\* An ack makes the sessions.
LEMMA AckInv == AudioInv /\ Ack => AudioInv'
<1> SUFFICES ASSUME AudioInv, Ack PROVE AudioInv'
  OBVIOUS
<1>1. AudioTypeOK /\ RingRemembers /\ Contexts /\ Singly /\ Ended
  BY DEF AudioInv
<1>2. /\ UNCHANGED <<coder, open, cleared, sent, accepts, start, arrived, strays, ring,
                     recent, stale, rx, heard>>
      /\ NewSession /\ ackDue' = FALSE /\ peerSet' = FALSE
      /\ ours' \in {ours} \cup Starts
  BY DEF Ack, netVars, ringVars
<1>3. Contexts' /\ session' \in [id : Nat, live : BOOLEAN, send : Ctx, recv : Ctx]
  BY <1>1, <1>2, NewSessionFollows
<1>4. Starts \subseteq Nat
  BY AudioAssumption
<1>5. AudioTypeOK'
  BY <1>1, <1>2, <1>3, <1>4 DEF AudioTypeOK
<1>6. RingRemembers' /\ Singly' /\ Ended'
  BY <1>1, <1>2, RingKept, SinglyKept DEF Ended
<1> QED BY <1>3, <1>5, <1>6 DEF AudioInv

\* An accept makes them again.
LEMMA AcceptInv == AudioInv /\ Accept => AudioInv'
<1> SUFFICES ASSUME AudioInv, Accept PROVE AudioInv'
  OBVIOUS
<1>1. AudioTypeOK /\ RingRemembers /\ Contexts /\ Singly /\ Ended
  BY DEF AudioInv
<1>2. /\ UNCHANGED <<coder, open, cleared, ours, sent, ackDue, start, arrived, strays,
                     ring, recent, stale, rx, heard>>
      /\ NewSession /\ accepts > 0 /\ accepts' = accepts - 1 /\ peerSet' = TRUE
  BY DEF Accept, netVars, ringVars
<1>3. Contexts' /\ session' \in [id : Nat, live : BOOLEAN, send : Ctx, recv : Ctx]
  BY <1>1, <1>2, NewSessionFollows
<1>4. accepts' \in 0..MaxAccepts
  <2>1. accepts \in 0..MaxAccepts
    BY <1>1 DEF AudioTypeOK
  <2> QED BY <1>2, <2>1, FrameFacts
<1>5. AudioTypeOK'
  BY <1>1, <1>2, <1>3, <1>4 DEF AudioTypeOK
<1>6. RingRemembers' /\ Singly' /\ Ended'
  BY <1>1, <1>2, RingKept, SinglyKept DEF Ended
<1> QED BY <1>3, <1>5, <1>6 DEF AudioInv

\* The cleanup takes the sessions away.
LEMMA ClearMediaInv == AudioInv /\ ClearMedia => AudioInv'
<1> SUFFICES ASSUME AudioInv, ClearMedia PROVE AudioInv'
  OBVIOUS
<1>1. AudioTypeOK /\ RingRemembers /\ Contexts /\ Singly /\ Ended
  BY DEF AudioInv
<1>2. /\ UNCHANGED <<open, sent, ackDue, accepts, start, arrived, strays, ring, recent,
                     stale, rx, heard>>
      /\ cleared' = TRUE /\ coder' = FALSE /\ ours' = None /\ peerSet' = FALSE
      /\ session' = [session EXCEPT !.live = FALSE]
  BY DEF ClearMedia, netVars, ringVars
<1>3. /\ session \in [id : Nat, live : BOOLEAN, send : Ctx, recv : Ctx]
      /\ session' \in [id : Nat, live : BOOLEAN, send : Ctx, recv : Ctx]
      /\ session'.send = session.send /\ session'.recv = session.recv
  BY <1>1, <1>2 DEF AudioTypeOK
<1>4. Contexts'
  BY <1>1, <1>2, <1>3 DEF Contexts
<1>5. AudioTypeOK'
  BY <1>1, <1>2, <1>3 DEF AudioTypeOK
<1>6. RingRemembers' /\ Singly' /\ Ended'
  BY <1>1, <1>2, RingKept, SinglyKept DEF Ended
<1> QED BY <1>4, <1>5, <1>6 DEF AudioInv

\* The codecs are closed after it.
LEMMA CloseCodecsInv == AudioInv /\ CloseCodecs => AudioInv'
<1> SUFFICES ASSUME AudioInv, CloseCodecs PROVE AudioInv'
  OBVIOUS
<1>1. AudioTypeOK /\ RingRemembers /\ Contexts /\ Singly /\ Ended
  BY DEF AudioInv
<1>2. /\ UNCHANGED <<coder, cleared, ours, sent, ackDue, accepts, session, start, arrived,
                     strays, ring, recent, stale, peerSet, rx, heard>>
      /\ open' = FALSE
  BY DEF CloseCodecs, netVars, ringVars
<1>3. AudioTypeOK'
  BY <1>1, <1>2 DEF AudioTypeOK
<1>4. RingRemembers' /\ Singly' /\ Ended' /\ Contexts'
  BY <1>1, <1>2, RingKept, SinglyKept DEF Ended, Contexts
<1> QED BY <1>3, <1>4 DEF AudioInv

\* The next frame of a stream is sent.
LEMMA SendFrameInv == AudioInv /\ SendFrame => AudioInv'
<1> SUFFICES ASSUME AudioInv, SendFrame PROVE AudioInv'
  OBVIOUS
<1>1. AudioTypeOK /\ RingRemembers /\ Contexts /\ Singly /\ Ended
  BY DEF AudioInv
<1>2. /\ UNCHANGED <<coder, open, cleared, ackDue, accepts, start, arrived, strays, ring,
                     recent, stale, peerSet, rx, heard>>
      /\ ours # None /\ sent' = sent + 1 /\ ours' = ours + 1
      /\ session' = [session EXCEPT !.send = Meets(session.send, ours)]
  BY DEF SendFrame, netVars, ringVars
<1>3. ours \in Nat /\ sent \in Nat /\ session.send \in Ctx
      /\ session \in [id : Nat, live : BOOLEAN, send : Ctx, recv : Ctx]
  BY <1>1, <1>2 DEF AudioTypeOK
<1>4. Meets(session.send, ours) \in Ctx /\ Follows(Meets(session.send, ours))
  BY <1>1, <1>3, MeetsFollows DEF Contexts
<1>5. /\ session' \in [id : Nat, live : BOOLEAN, send : Ctx, recv : Ctx]
      /\ session'.send = Meets(session.send, ours) /\ session'.recv = session.recv
  BY <1>2, <1>3, <1>4
<1>6. ours' \in Nat /\ sent' \in Nat
  BY <1>2, <1>3
<1>7. AudioTypeOK'
  BY <1>1, <1>2, <1>5, <1>6 DEF AudioTypeOK
<1>8. Contexts'
  BY <1>1, <1>2, <1>4, <1>5 DEF Contexts
<1>9. RingRemembers' /\ Singly' /\ Ended'
  BY <1>1, <1>2, RingKept, SinglyKept DEF Ended
<1> QED BY <1>7, <1>8, <1>9 DEF AudioInv

\* A frame arrives: when it did so before, the ring either still knows it or
\* it is stale from now on.
LEMMA ReceiveInv == \A k \in Frames : AudioInv /\ Receive(k) => AudioInv'
<1> SUFFICES ASSUME NEW k \in Frames, AudioInv, Receive(k) PROVE AudioInv'
  OBVIOUS
<1>1. AudioTypeOK /\ RingRemembers /\ Contexts /\ Singly /\ Ended
  BY DEF AudioInv
<1>2. /\ UNCHANGED <<coder, open, cleared, ours, sent, ackDue, accepts, start, heard>>
      /\ rx.step = "idle" /\ arrived' = arrived \cup {k}
      /\ strays' = IF k \in arrived THEN strays - 1 ELSE strays
      /\ k \in arrived => strays > 0
  BY DEF Receive, fieldVars
<1> DEFINE seq == (start + k) % W
<1>3. seq \in 0..(W - 1) /\ (k \in Nat /\ k # None /\ start \in Nat)
  <2>1. k \in Nat /\ k # None /\ start \in Nat
    BY <1>1, FrameFacts, RingFacts
  <2> QED BY <2>1, DivMod
<1>4. /\ arrived' \subseteq Frames /\ strays' \in 0..MaxStrays
      /\ arrived \subseteq Frames /\ stale \subseteq Frames
  <2>1. strays \in 0..MaxStrays /\ arrived \subseteq Frames /\ stale \subseteq Frames
    BY <1>1 DEF AudioTypeOK
  <2> QED BY <1>2, <2>1, FrameFacts
<1>5. CASE IsDuplicate(seq)
  <2>1. UNCHANGED <<ring, recent, stale, session, peerSet, rx>>
    BY <1>5 DEF Receive, ringVars
  <2>2. AudioTypeOK'
    BY <1>1, <1>2, <1>4, <2>1 DEF AudioTypeOK
  <2>3. RingRemembers' /\ Ended' /\ Contexts'
    BY <1>1, <1>2, <2>1, RingKept DEF Ended, Contexts
  <2>4. Singly'
    BY <1>1, <1>2, <2>1 DEF Singly
  <2> QED BY <2>2, <2>3, <2>4 DEF AudioInv
<1>6. CASE ~IsDuplicate(seq)
  <2>1. /\ Records(seq, k)
        /\ IF ~session.live \/ ~coder THEN UNCHANGED <<session, peerSet, rx>>
           ELSE \E c \in {session.recv} \cup {x \in {NewCtx} : ~peerSet} :
                  /\ session' = [session EXCEPT !.recv = c]
                  /\ peerSet' = TRUE
                  /\ rx' = [step |-> "decode", frame |-> k, of |-> session.id,
                            ctx |-> c, after |-> cleared]
    BY <1>6 DEF Receive
  <2>2. /\ RingRemembers'
        /\ ring' \in [seen : [0..(H - 1) -> 0..(W - 1)], next : 0..(H - 1), used : BOOLEAN]
        /\ recent' \in Seq(Frames \cup {None}) /\ stale' \subseteq Frames
    <3> HIDE DEF seq
    <3>1. k \in Frames \cup {None}
      OBVIOUS
    <3>2. k \in Frames => seq = (start + k) % W
      BY DEF seq
    <3> QED BY <1>1, <1>2, <1>3, <2>1, <3>1, <3>2, RecordsRing
  <2>3. /\ stale \subseteq stale'
        /\ k \in arrived => k \in stale'
    <3>1. ~Remembered(k)
      BY <1>1, <1>6, RememberedIsDuplicate
    <3> QED BY <2>1, <3>1 DEF Records
  <2>4. CASE ~session.live \/ ~coder
    <3>1. UNCHANGED <<session, peerSet, rx>>
      BY <2>1, <2>4
    <3>2. AudioTypeOK'
      BY <1>1, <1>2, <1>4, <2>2, <3>1 DEF AudioTypeOK
    <3>3. Ended' /\ Contexts'
      BY <1>1, <1>2, <3>1 DEF Ended, Contexts
    <3>4. Singly'
      BY <1>1, <1>2, <2>3, <3>1 DEF Singly
    <3> QED BY <2>2, <3>2, <3>3, <3>4 DEF AudioInv
  <2>5. CASE ~(~session.live \/ ~coder)
    <3>1. PICK c \in {session.recv} \cup {x \in {NewCtx} : ~peerSet} :
            /\ session' = [session EXCEPT !.recv = c]
            /\ peerSet' = TRUE
            /\ rx' = [step |-> "decode", frame |-> k, of |-> session.id,
                      ctx |-> c, after |-> cleared]
      BY <2>1, <2>5
    <3>2. session \in [id : Nat, live : BOOLEAN, send : Ctx, recv : Ctx]
          /\ cleared \in BOOLEAN /\ coder \in BOOLEAN
      BY <1>1 DEF AudioTypeOK
    <3>3. c \in Ctx /\ Follows(c)
      BY <1>1, <3>1, <3>2, NewCtxFollows DEF Contexts
    <3>4. cleared = FALSE
      BY <1>1, <2>5, <3>2 DEF Ended
    <3>5. /\ session' \in [id : Nat, live : BOOLEAN, send : Ctx, recv : Ctx]
          /\ session'.send = session.send /\ session'.recv = c
      BY <3>1, <3>2, <3>3
    <3>6. /\ rx'.step = "decode" /\ rx'.frame = k /\ rx'.ctx = c /\ rx'.after = FALSE
          /\ rx' \in Rx
      <4>1. session.id \in Nat
        BY <3>2
      <4> QED BY <1>3, <3>1, <3>3, <3>4, <4>1 DEF Rx
    <3>7. AudioTypeOK'
      BY <1>1, <1>2, <1>4, <2>2, <3>1, <3>5, <3>6 DEF AudioTypeOK
    <3>8. Ended' /\ Contexts'
      BY <1>1, <1>2, <3>3, <3>5, <3>6 DEF Ended, Contexts
    <3>9. Singly'
      <4>1. rx'.frame \in arrived'
        BY <1>2, <3>6
      <4>2. \A j \in Frames : j \notin arrived' => heard'[j] = 0
        BY <1>1, <1>2 DEF Singly
      <4>3. ASSUME NEW j \in Frames, j \notin stale'
            PROVE  heard'[j] <= 1 /\ (rx'.frame = j => heard'[j] = 0)
        <5>1. heard[j] <= 1
          BY <1>1, <2>3, <4>3 DEF Singly
        <5>2. j = k => heard[j] = 0
          BY <1>1, <2>3, <4>3 DEF Singly
        <5> QED BY <1>2, <3>6, <5>1, <5>2
      <4> QED BY <4>1, <4>2, <4>3 DEF Singly
    <3> QED BY <2>2, <3>7, <3>8, <3>9 DEF AudioInv
  <2> QED BY <2>4, <2>5
<1> QED BY <1>5, <1>6

\* A foreign packet only takes a place of the ring.
LEMMA ReceiveForeignInv ==
  \A seq \in 0..(W - 1) : AudioInv /\ ReceiveForeign(seq) => AudioInv'
<1> SUFFICES ASSUME NEW seq \in 0..(W - 1), AudioInv, ReceiveForeign(seq) PROVE AudioInv'
  OBVIOUS
<1>1. AudioTypeOK /\ RingRemembers /\ Contexts /\ Singly /\ Ended
  BY DEF AudioInv
<1>2. /\ UNCHANGED <<coder, open, cleared, ours, sent, ackDue, accepts, session, start,
                     arrived, peerSet, rx, heard>>
      /\ strays > 0 /\ strays' = strays - 1 /\ Records(seq, None)
  BY DEF ReceiveForeign, fieldVars
<1>3. /\ RingRemembers'
      /\ ring' \in [seen : [0..(H - 1) -> 0..(W - 1)], next : 0..(H - 1), used : BOOLEAN]
      /\ recent' \in Seq(Frames \cup {None}) /\ stale' \subseteq Frames
  <2>1. None \in Frames \cup {None} /\ None \notin Frames
    BY FrameFacts
  <2> QED BY <1>1, <1>2, <2>1, RecordsRing
<1>4. stale \subseteq stale'
  BY <1>2 DEF Records
<1>5. strays' \in 0..MaxStrays
  <2>1. strays \in 0..MaxStrays
    BY <1>1 DEF AudioTypeOK
  <2> QED BY <1>2, <2>1, FrameFacts
<1>6. AudioTypeOK'
  BY <1>1, <1>2, <1>3, <1>5 DEF AudioTypeOK
<1>7. Ended' /\ Contexts' /\ Singly'
  BY <1>1, <1>2, <1>4 DEF Ended, Contexts, Singly
<1> QED BY <1>3, <1>6, <1>7 DEF AudioInv

\* The packet is decoded, on whatever session there is by now.
LEMMA DecodeInv == AudioInv /\ Decode => AudioInv'
<1> SUFFICES ASSUME AudioInv, Decode PROVE AudioInv'
  OBVIOUS
<1>1. AudioTypeOK /\ RingRemembers /\ Contexts /\ Singly /\ Ended
  BY DEF AudioInv
<1> DEFINE d == Meets(rx.ctx, start + rx.frame)
<1>2. /\ UNCHANGED <<coder, open, cleared, ours, sent, ackDue, accepts, start, arrived,
                     strays, ring, recent, stale, peerSet>>
      /\ rx.step = "decode" /\ rx' = Idle
      /\ session' = IF session.id = rx.of THEN [session EXCEPT !.recv = d] ELSE session
      /\ heard' = [heard EXCEPT ![rx.frame] = heard[rx.frame] + 1] \/ heard' = heard
  BY DEF Decode, fieldVars, netVars, ringVars
<1>3. /\ session \in [id : Nat, live : BOOLEAN, send : Ctx, recv : Ctx]
      /\ rx \in Rx /\ rx.ctx \in Ctx /\ rx.frame \in Nat /\ heard \in [Frames -> Nat]
  BY <1>1 DEF AudioTypeOK, Rx
<1>4. d \in Ctx /\ Follows(d)
  <2>1. start \in Nat
    BY <1>1, RingFacts
  <2>2. start + rx.frame \in Nat
    BY <1>3, <2>1
  <2> QED BY <1>1, <1>3, <2>2, MeetsFollows DEF Contexts
<1> HIDE DEF d
<1>5. /\ session' \in [id : Nat, live : BOOLEAN, send : Ctx, recv : Ctx]
      /\ session'.send = session.send
      /\ session'.recv \in {session.recv, d}
  BY <1>2, <1>3, <1>4
<1>6. /\ rx'.ctx = NewCtx /\ rx'.after = FALSE /\ rx'.step = "idle" /\ rx' \in Rx
      /\ Follows(NewCtx)
  BY <1>2, NewCtxFollows DEF Idle, Rx
<1>7. heard' \in [Frames -> Nat]
  BY <1>2, <1>3
<1>8. AudioTypeOK'
  BY <1>1, <1>2, <1>5, <1>6, <1>7 DEF AudioTypeOK
<1>9. Ended' /\ RingRemembers'
  BY <1>1, <1>2, <1>6, RingKept DEF Ended
<1>10. Contexts'
  BY <1>1, <1>4, <1>5, <1>6 DEF Contexts
<1>11. Singly'
  <2>1. rx.frame \in arrived /\ arrived \subseteq Frames
    BY <1>1, <1>2 DEF Singly, AudioTypeOK
  <2>2. ASSUME NEW j \in Frames, j \notin arrived PROVE heard'[j] = 0
    BY <1>1, <1>2, <1>3, <2>1, <2>2 DEF Singly
  <2>3. ASSUME NEW j \in Frames, j \notin stale PROVE heard'[j] <= 1
    <3>1. heard[j] <= 1 /\ (rx.frame = j => heard[j] = 0)
      BY <1>1, <1>2, <2>3 DEF Singly
    <3> QED BY <1>2, <1>3, <3>1
  <2> QED BY <1>2, <1>6, <2>2, <2>3 DEF Singly
<1> QED BY <1>8, <1>9, <1>10, <1>11 DEF AudioInv

-------------------------------------------------------------------------------
(* The theorems.                                                           *)

\* A step of the audio keeps the invariant.
LEMMA AudioStepInv == AudioInv /\ [AudioNext]_audioVars => AudioInv'
<1> SUFFICES ASSUME AudioInv, [AudioNext]_audioVars PROVE AudioInv'
  OBVIOUS
<1>1. CASE UNCHANGED audioVars
  <2>1. UNCHANGED <<coder, open, cleared, ours, sent, ackDue, accepts, session, start,
                    arrived, strays, ring, recent, stale, peerSet, rx, heard>>
    BY <1>1 DEF audioVars, fieldVars, netVars, ringVars
  <2> QED BY <2>1, RingKept DEF AudioInv, AudioTypeOK, Contexts, Ended, Singly
<1>2. CASE AudioNext
  BY <1>2, AckInv, AcceptInv, ClearMediaInv, CloseCodecsInv, SendFrameInv, DecodeInv,
     ReceiveInv, ReceiveForeignInv DEF AudioNext
<1> QED BY <1>1, <1>2

\* The counters, the ring and the reader of a call agree, always.
THEOREM AudioInvariant == AudioSpec => []AudioInv
<1>1. AudioInit => AudioInv
  BY AudioInitInv
<1>2. AudioInv /\ [AudioNext]_audioVars => AudioInv'
  BY AudioStepInv
<1> QED BY <1>1, <1>2, PTL DEF AudioSpec

\* Every variable of a call's audio has its type: no counter leaves its range,
\* no place of the ring is missed.
THEOREM AudioTypeCorrect == AudioSpec => []AudioTypeOK
<1>1. AudioInv => AudioTypeOK
  BY DEF AudioInv
<1> QED BY <1>1, AudioInvariant, PTL

\* SrtpContext.updateRoc keeps both directions on the index of the frame,
\* whatever is lost, late or doubled, over any number of wraparounds and of new
\* sessions: a stream is garbled only when it steps over what one rollover
\* counter can tell apart.
THEOREM BothWaysInStep == AudioSpec => []InStep
<1>1. AudioInv => InStep
  <2> SUFFICES ASSUME AudioInv, NEW c \in {session.send, session.recv}, c.skewed
               PROVE  c.slipped
    BY DEF InStep
  <2>1. Follows(c) /\ c \in Ctx
    BY DEF AudioInv, Contexts, AudioTypeOK
  <2>2. c.slipped \in BOOLEAN
    BY <2>1 DEF Ctx
  <2>3. c.slipped # FALSE
    BY <2>1 DEF Follows
  <2> QED BY <2>2, <2>3
<1> QED BY <1>1, AudioInvariant, PTL

\* isDuplicateRtp lets a doubled frame through once, whatever came between, as
\* long as it was not H other numbers.
THEOREM DoubledFramesHeardOnce == AudioSpec => []HeardOnce
<1>1. AudioInv => HeardOnce
  <2> SUFFICES ASSUME AudioInv, NEW k \in Frames, heard[k] > 1 PROVE k \in stale
    BY DEF HeardOnce
  <2>1. heard[k] \in Nat
    BY DEF AudioInv, AudioTypeOK
  <2>2. k \notin stale => heard[k] <= 1
    BY DEF AudioInv, Singly
  <2> QED BY <2>1, <2>2
<1> QED BY <1>1, AudioInvariant, PTL

\* After cleanupMedia nothing is sent, although acks and accepts still make
\* sessions, and nothing is taken up to be heard.
THEOREM NothingAfterCleanup == AudioSpec => SilentAfterCleanup
<1>1. AudioInv /\ [AudioNext]_audioVars
        => [cleared => sent' = sent /\ (heard' # heard => ~rx.after)]_audioVars
  <2> SUFFICES ASSUME AudioInv, AudioNext, cleared
               PROVE  sent' = sent /\ ~rx.after
    OBVIOUS
  <2>1. coder = FALSE /\ rx.after = FALSE
    BY DEF AudioInv, Ended
  <2>2. ~SendFrame
    BY <2>1 DEF SendFrame
  <2>3. sent' = sent
    <3>1. Ack \/ Accept \/ ClearMedia \/ CloseCodecs => sent' = sent
      BY DEF Ack, Accept, ClearMedia, CloseCodecs
    <3>2. Decode => sent' = sent
      BY DEF Decode, fieldVars
    <3>3. \A k \in Frames : Receive(k) => sent' = sent
      BY DEF Receive, fieldVars
    <3>4. \A seq \in 0..(W - 1) : ReceiveForeign(seq) => sent' = sent
      BY DEF ReceiveForeign, fieldVars
    <3> QED BY <2>2, <3>1, <3>2, <3>3, <3>4 DEF AudioNext
  <2> QED BY <2>1, <2>3
<1> QED BY <1>1, AudioInvariant, PTL DEF AudioSpec, SilentAfterCleanup

\* The whole CallManager implements both of its halves: a step of the audio is
\* a stutter of the signalling, and the other way round, so that what is proved
\* of either holds of the whole.
THEOREM HalvesOfManager == MediaSpec => AudioSpec /\ Spec
<1>1. MediaInit => AudioInit /\ Init
  BY DEF MediaInit
<1>2. [SignallingMoves \/ AudioMoves]_<<vars, audioVars, half>>
        => [AudioNext]_audioVars /\ [Next]_vars
  BY DEF SignallingMoves, AudioMoves
<1> QED BY <1>1, <1>2, PTL DEF MediaSpec, AudioSpec, Spec

=============================================================================

------------------------------ MODULE AudioPath ------------------------------
(***************************************************************************)
(* The audio of one call: the frames a CallManager sends to its relays and *)
(* the frames it receives from them (callmanager_media.go), with the       *)
(* counters they depend on: the sequence number of RtpSession (rtp.go),    *)
(* the rollover counters of the two SrtpContexts (srtp.go) and the ring of *)
(* the numbers seen last.  The signalling handlers replace the sessions    *)
(* (callmanager_srtp.go) and cleanupMedia takes everything away while a    *)
(* packet is being decoded.                                                *)
(*                                                                         *)
(* A frame is named by its full index, what the counters of a receiver     *)
(* that lost nothing add up to: its sequence number is the index % W, its  *)
(* rollover counter the index \div W.  W is 2^16 in the code.              *)
(***************************************************************************)
EXTENDS Integers, Sequences

CONSTANTS W,           \* sequence numbers
          H,           \* len(rtpHistory)
          Starts,      \* where randUint lets a stream begin
          MaxSent,     \* bound on the frames we send
          MaxFrames,   \* bound on the frames the peer sends
          Reach,       \* bound on reordering: how late a frame may arrive
          MaxStrays,   \* bound on duplicated and foreign packets
          MaxAccepts   \* bound on the accepts of the peer

ASSUME AudioAssumption ==
  /\ W \in Nat \ {0} /\ H \in Nat \ {0}
  /\ Starts \subseteq 0..(W - 1)
  /\ {MaxSent, MaxFrames, Reach, MaxStrays, MaxAccepts} \subseteq Nat

VARIABLES
  coder,    \* m.codec # nil; m.fallbackCodec comes and goes with it
  open,     \* neither codec has been closed
  cleared,  \* history: cleanupMedia has cleared the fields
  ours,     \* full index of the next frame of m.rtpSession; None while nil
  session,  \* m.srtpSession
  sent,     \* history: frames broadcast
  ackDue,   \* the offer ack is still to come
  accepts,  \* accepts still to come
  start,    \* full index of the peer's first frame
  arrived,  \* frames that have arrived
  strays,   \* duplicated and foreign packets still to come
  ring,     \* rtpHistory, rtpHistoryIdx, hasRtpHistory
  recent,   \* history: the frames the last H numbers in the ring belong to
  stale,    \* history: frames taken again after they had left the ring
  peerSet,  \* m.actualPeerSet
  rx,       \* the packet inside onRelayData, which holds recvMu
  heard     \* history: how often each frame reached the listeners

fieldVars == <<coder, open, cleared, ours, sent, ackDue, accepts>>
netVars  == <<start, arrived, strays>>
ringVars == <<ring, recent, stale>>
audioVars == <<fieldVars, session, netVars, ringVars, peerSet, rx, heard>>

Frames == 0..(MaxFrames - 1)
None == -1

\* An SrtpContext: roc, lastSeq, initialized.  History: the full index it met
\* last, whether it ever came out with another index than the frame's own, and
\* whether its stream was such that it had to (Slips).
Ctx == [roc : Nat, last : 0..(W - 1), init : BOOLEAN, met : Nat \cup {None},
        skewed : BOOLEAN, slipped : BOOLEAN]
NewCtx == [roc |-> 0, last |-> 0, init |-> FALSE, met |-> None,
           skewed |-> FALSE, slipped |-> FALSE]

Rx == [step : {"idle", "decode"}, frame : Nat, of : Nat, ctx : Ctx, after : BOOLEAN]
Idle == [step |-> "idle", frame |-> 0, of |-> 0, ctx |-> NewCtx, after |-> FALSE]

AudioTypeOK ==
  /\ coder \in BOOLEAN /\ open \in BOOLEAN /\ cleared \in BOOLEAN
  /\ ours \in Nat \cup {None} /\ sent \in Nat
  /\ session \in [id : Nat, live : BOOLEAN, send : Ctx, recv : Ctx]
  /\ ackDue \in BOOLEAN /\ accepts \in 0..MaxAccepts
  /\ start \in Starts
  /\ arrived \subseteq Frames /\ strays \in 0..MaxStrays
  /\ ring \in [seen : [0..(H - 1) -> 0..(W - 1)], next : 0..(H - 1), used : BOOLEAN]
  /\ recent \in Seq(Frames \cup {None}) /\ stale \subseteq Frames
  /\ peerSet \in BOOLEAN /\ rx \in Rx
  /\ heard \in [Frames -> Nat]

\* StartCall and HandleCallOffer make codec and RTP session; the SRTP session
\* too when an offer came with key and relays.
AudioInit ==
  /\ coder = TRUE /\ open = TRUE /\ cleared = FALSE
  /\ ours \in Starts /\ sent = 0
  /\ ackDue \in BOOLEAN /\ accepts = MaxAccepts
  /\ session \in [id : {0}, live : {FALSE, ~ackDue}, send : {NewCtx}, recv : {NewCtx}]
  /\ start \in Starts
  /\ arrived = {} /\ strays = MaxStrays
  /\ ring = [seen |-> [i \in 0..(H - 1) |-> 0], next |-> 0, used |-> FALSE]
  /\ recent = <<>> /\ stale = {}
  /\ peerSet = FALSE /\ rx = Idle
  /\ heard = [k \in Frames |-> 0]

-------------------------------------------------------------------------------
\* Mutant of UpdateRoc: every step back counts as a wraparound.
UpdateRocEager(c, seq) ==
  [c EXCEPT !.last = seq, !.init = TRUE,
            !.roc = IF c.init /\ seq < c.last THEN @ + 1 ELSE @]

\* updateRoc: a step back by more than half the numbers is a wraparound; no
\* step takes one back.
UpdateRoc(c, seq) ==
  [c EXCEPT !.last = seq, !.init = TRUE,
            !.roc = IF c.init /\ seq - c.last < -(W \div 2) THEN @ + 1 ELSE @]

PacketIndex(c, seq) == c.roc * W + seq

\* What a context cannot follow: a stream joined after a wraparound, a frame
\* from before one after it, and half the numbers missing in a row.
Slips(c, i) ==
  IF c.met = None THEN i \div W > 0
  ELSE \/ i \div W < c.met \div W
       \/ i \div W > c.met \div W /\ i - c.met >= W \div 2
       \/ i \div W = c.met \div W /\ c.met - i > W \div 2

\* The context after Protect or Unprotect of the frame with full index i.
Meets(c, i) ==
  LET u == UpdateRoc(c, i % W)
  IN  [u EXCEPT !.met = i, !.slipped = @ \/ Slips(c, i),
                !.skewed = @ \/ PacketIndex(u, i % W) # i]

-------------------------------------------------------------------------------
\* initSrtpKeysLocked, reinitSrtpLocked: both contexts begin again.
NewSession == session' = [id |-> session.id + 1, live |-> TRUE, send |-> NewCtx, recv |-> NewCtx]

\* HandleCallAck: our SSRC may turn out another one, then the RTP session is
\* new; the SRTP session is, and the peer has to show itself again.
Ack ==
  /\ ackDue /\ ackDue' = FALSE
  /\ ours' \in {ours} \cup Starts
  /\ NewSession /\ peerSet' = FALSE
  /\ UNCHANGED <<coder, open, cleared, sent, accepts, netVars, ringVars, rx, heard>>

\* HandleCallAccept: a new SRTP session, with the peer's key or the call's own;
\* the RTP session goes on.
Accept ==
  /\ accepts > 0 /\ accepts' = accepts - 1
  /\ NewSession /\ peerSet' = TRUE
  /\ UNCHANGED <<coder, open, cleared, ours, sent, ackDue, netVars, ringVars, rx,
                 heard>>

\* Mutant of ClearMedia: the codec stays.
ClearKeepsCodec ==
  /\ ~cleared /\ cleared' = TRUE
  /\ ours' = None /\ session' = [session EXCEPT !.live = FALSE] /\ peerSet' = FALSE
  /\ UNCHANGED <<coder, open, sent, ackDue, accepts, netVars, ringVars, rx, heard>>

\* cleanupMedia, under m.mu: the call is over.
ClearMedia ==
  /\ ~cleared /\ cleared' = TRUE
  /\ coder' = FALSE
  /\ ours' = None /\ session' = [session EXCEPT !.live = FALSE] /\ peerSet' = FALSE
  /\ UNCHANGED <<open, sent, ackDue, accepts, netVars, ringVars, rx, heard>>

\* cleanupMedia, without m.mu: the codecs are closed.
CloseCodecs ==
  /\ cleared /\ open /\ open' = FALSE
  /\ UNCHANGED <<coder, cleared, ours, sent, ackDue, accepts, session, netVars, ringVars,
                 peerSet, rx, heard>>

\* FeedCapturedPCM once its buffer holds a frame, or the keepalive's tick with
\* a silent one, through sendOpusFrameLocked; m.mu is held throughout.  That a
\* relay is open is left to chance.
SendFrame ==
  /\ coder /\ ours # None /\ session.live /\ sent < MaxSent
  /\ sent' = sent + 1
  /\ ours' = ours + 1
  /\ session' = [session EXCEPT !.send = Meets(@, ours)]
  /\ UNCHANGED <<coder, open, cleared, ackDue, accepts, netVars, ringVars, peerSet, rx,
                 heard>>

-------------------------------------------------------------------------------
\* isDuplicateRtp: the number is in the ring, which begins full of zeros.
IsDuplicate(seq) == ring.used /\ \E i \in 0..(H - 1) : ring.seen[i] = seq

\* Mutant of Recorded: the position stays where it is.
RecordedInPlace(seq) ==
  [seen |-> [ring.seen EXCEPT ![ring.next] = seq], next |-> ring.next, used |-> TRUE]

Recorded(seq) ==
  [seen |-> [ring.seen EXCEPT ![ring.next] = seq], next |-> (ring.next + 1) % H,
   used |-> TRUE]

Remembered(k) == \E n \in 1..Len(recent) : recent[n] = k

\* isDuplicateRtp of the packet with number seq, frame k (None: not the peer's).
Records(seq, k) ==
  /\ ring' = Recorded(seq)
  /\ recent' = Append(IF Len(recent) = H THEN Tail(recent) ELSE recent, k)
  /\ stale' = stale \cup {x \in {k} \cap arrived : ~Remembered(x)}

\* A frame arrives, late or twice, or never.  Before m.mu is taken its number
\* is put in the ring; the first one names the peer, and the receiving context
\* is made again for the device it is from, when the relay data has it.
Receive(k) ==
  /\ rx.step = "idle" /\ \A j \in arrived : j - k <= Reach
  /\ arrived' = arrived \cup {k}
  /\ strays' = IF k \in arrived THEN strays - 1 ELSE strays
  /\ k \in arrived => strays > 0
  /\ LET seq == (start + k) % W IN
     IF IsDuplicate(seq) THEN UNCHANGED <<ringVars, session, peerSet, rx>>
     ELSE /\ Records(seq, k)
          /\ IF ~session.live \/ ~coder THEN UNCHANGED <<session, peerSet, rx>>
             ELSE \E c \in {session.recv} \cup {x \in {NewCtx} : ~peerSet} :
                    /\ session' = [session EXCEPT !.recv = c]
                    /\ peerSet' = TRUE
                    /\ rx' = [step |-> "decode", frame |-> k, of |-> session.id,
                              ctx |-> c, after |-> cleared]
  /\ UNCHANGED <<fieldVars, start, heard>>

\* A packet with another SSRC, our own or another device's: it is dropped after
\* its number has been put in the ring.
ReceiveForeign(seq) ==
  /\ rx.step = "idle" /\ strays > 0 /\ strays' = strays - 1
  /\ ~IsDuplicate(seq) /\ Records(seq, None)
  /\ UNCHANGED <<fieldVars, session, start, arrived, peerSet, rx, heard>>

\* Unprotect and Decode, without m.mu, on the session and codec taken above; a
\* closed codec refuses.  Whether a frame is one that MLow, or after five
\* refusals the fallback, can decode is left to chance.
Decode ==
  /\ rx.step = "decode" /\ rx' = Idle
  /\ LET c == Meets(rx.ctx, start + rx.frame)
     IN  session' = IF session.id = rx.of THEN [session EXCEPT !.recv = c] ELSE session
  /\ \/ open /\ heard' = [heard EXCEPT ![rx.frame] = @ + 1]
     \/ UNCHANGED heard
  /\ UNCHANGED <<fieldVars, netVars, ringVars, peerSet>>

AudioNext ==
  \/ Ack \/ Accept \/ ClearMedia \/ CloseCodecs \/ SendFrame \/ Decode
  \/ \E k \in Frames : Receive(k)
  \/ \E seq \in 0..(W - 1) : ReceiveForeign(seq)

AudioSpec == AudioInit /\ [][AudioNext]_audioVars

-------------------------------------------------------------------------------
\* Both directions keep to the index of the frame, and so to the cipher's key
\* stream, whatever is lost, late or doubled, across wraparounds, new sessions
\* and late decodes: only a stream a rollover counter cannot follow (Slips) is
\* garbled.  Our own is one when the peer's accept renews the session after
\* our numbers have wrapped.
InStep == \A c \in {session.send, session.recv} : c.skewed => c.slipped

\* A doubled frame reaches the listeners (browser, recorder, agent) once,
\* unless H other numbers came between its two copies.
HeardOnce == \A k \in Frames : heard[k] > 1 => k \in stale

\* Once cleanupMedia has cleared the fields nothing is sent, although an ack or
\* an accept that comes late makes the RTP and SRTP sessions again, and nothing
\* is heard but the packet that was being decoded.
SilentAfterCleanup ==
  [][cleared => sent' = sent /\ (heard' # heard => ~rx.after)]_audioVars
===============================================================================

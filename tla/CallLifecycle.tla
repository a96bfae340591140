---------------------------- MODULE CallLifecycle ----------------------------
(***************************************************************************)
(* What a CallManager promises the session that owns it, without threads,  *)
(* stanzas or relays: a call is set up, answered, active and over, in that *)
(* order; its media is held at most once and given back for good after the *)
(* end; and the session is told of the end only when the call is over.     *)
(* CallManager implements this specification (CallManager!Lifecycle).      *)
(***************************************************************************)

VARIABLES phase,   \* none, setup, answered, active or over
          media,   \* none, held or released: codec, keepalive
          closed,  \* the native codec has been destroyed
          told     \* onEnded has run

vars == <<phase, media, closed, told>>

Live == {"setup", "answered", "active"}

Init == phase = "none" /\ media = "none" /\ ~closed /\ ~told

\* An outgoing call is built, or an offer arrives; a build without the native
\* codec never holds media.
SetUp ==
  /\ phase = "none" /\ phase' = "setup"
  /\ media' \in {"none", "held"}
  /\ UNCHANGED <<closed, told>>

Answer ==
  /\ phase = "setup" /\ phase' = "answered"
  /\ UNCHANGED <<media, closed, told>>

\* Only an answered call carries audio.
Activate ==
  /\ phase = "answered" /\ phase' = "active"
  /\ UNCHANGED <<media, closed, told>>

End ==
  /\ phase \in Live /\ phase' = "over"
  /\ UNCHANGED <<media, closed, told>>

\* The media fields are cleared: after the end, or under a call that is refused
\* too late.
Release ==
  /\ phase # "none" /\ media # "released"
  /\ media' = "released"
  /\ UNCHANGED <<phase, closed, told>>

Close ==
  /\ media = "released" /\ ~closed
  /\ closed' = TRUE
  /\ UNCHANGED <<phase, media, told>>

Tell ==
  /\ phase = "over"
  /\ told' = TRUE
  /\ UNCHANGED <<phase, media, closed>>

Next == SetUp \/ Answer \/ Activate \/ End \/ Release \/ Close \/ Tell

\* A call that is over gives its media back.
Spec == Init /\ [][Next]_vars /\ WF_vars(phase = "over" /\ Release)
=============================================================================

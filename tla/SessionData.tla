------------------------------ MODULE SessionData ------------------------------
(***************************************************************************)
(* What the server stores about one session besides its live calls: the    *)
(* records of its calls, the conversations that follow them and its        *)
(* personas.  They share the database and no row of it, so a behaviour is  *)
(* either one of calls or, with the empty mix, one of personas.            *)
(***************************************************************************)
EXTENDS Conversations, Personas

vars == <<recordVars, conversationVars, personaVars>>

Init == ConversationInit /\ PersonaInit
Next ==
  \/ mix # {} /\ ConversationNext /\ UNCHANGED personaVars
  \/ mix = {} /\ PersonaNext /\ UNCHANGED <<recordVars, conversationVars>>

Spec == Init /\ [][Next]_vars

TypeOK == ConversationTypeOK /\ PersonaTypeOK
===============================================================================

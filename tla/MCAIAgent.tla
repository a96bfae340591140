------------------------------- MODULE MCAIAgent -------------------------------
(***************************************************************************)
(* One agent with one persona to transfer to and three connections.  Each  *)
(* mix puts two or three kinds of events against each other.               *)
(***************************************************************************)
EXTENDS AIAgent, TLC
CONSTANTS g1, g2, c1, c2, c3
MCClients == {g1, g2}
MCConns == {c1, c2, c3}
MCTools == [g \in MCClients |-> {"hangup"}]
MCMixes == {{"end", "hangup", "limit", "talk"}, {"end", "stop", "limit"},
            {"end", "transfer", "talk"}, {"transfer", "hangup"},
            {"drop", "end"}, {"drop", "timeout"}, {"drop", "transfer"},
            {"timeout", "transfer"}}
===============================================================================

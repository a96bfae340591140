---------------------------- MODULE MCAIScheduler ----------------------------
(***************************************************************************)
(* One session through every request, event, failure and exit; two of      *)
(* them created at once under a limit of one; and one with two schedules,  *)
(* edited while the ticker works, with failures, exits and unlinking.      *)
(***************************************************************************)
EXTENDS AIScheduler, TLC
CONSTANTS s1, s2, d1, d2, w1, w2
MCMixes == {{"create", "delete", "logout", "pair", "fail", "exit", "unlink", "reconnect"},
            {"create", "crowd", "fail"},
            {"create", "plan", "exit"}, {"create", "plan", "fail"},
            {"create", "plan", "tool"}, {"create", "plan", "phoneless"}}
===============================================================================

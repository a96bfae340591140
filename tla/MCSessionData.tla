----------------------------- MODULE MCSessionData -----------------------------
(* Two calls of one customer, two messages on two sessions; two agents and two editors. *)
EXTENDS SessionData

\* The empty mix edits personas; the others make calls.
MCMixes == {
  {},
  {"crowd", "delete"}, {"crowd", "ticket"}, {"crowd", "summary"}, {"crowd", "exit"},
  {"start", "ticket", "summary", "delete"},
  {"ticket", "summary", "delete", "fail"}, {"ticket", "delete", "exit", "fail"},
  {"script", "delete", "fail"}, {"script", "delete", "exit"},
  {"crowd", "automate"},
  {"crowd", "automate", "chat"},
  {"automate", "chat", "delete"},
  {"automate", "chat", "fail"}, {"automate", "chat", "exit"},
  {"chat", "fail", "resolve"}
}
Symmetry == Permutations(Calls) \cup Permutations(Messages) \cup Permutations(Editors)
===============================================================================

CONSTANTS
  Calls = {c1, c2}
  Sessions = {s1, s2}
  Home = s1
  MaxHistory = 1
  MaxHydrated = 1
  Mixes <- MCMixes
  Messages = {m1, m2}
  NoCall = NoCall
  Agents = {a1, a2}
  Editors = {e1, e2}
SPECIFICATION Spec
INVARIANTS DeletedStaysDeleted MarksReachDatabase FollowupsStop SurveyRatedOnce OneConversation OneActivePersona
SYMMETRY Symmetry
CHECK_DEADLOCK FALSE

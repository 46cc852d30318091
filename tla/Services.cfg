CONSTANTS
  Call = {c1, c2}
  Person = {1, 2, 3}
  Invite = {i1}
  Nobody = Nobody
  MaxDeath = 1
  Attempt = {a1, a2}
  None = None
  Cookie = Cookie
  TryLimit = 2
  MaxRetry = 1
  Free = Free
  MaxChange = 2
  MaxSet = 2
  MaxLink = 2
  MaxSession = 3
  Session = {s1, s2}
  Manager = {s1}
  Model = {m1, m2}
  Run = {1, 2}
  Nothing = Nothing
  MaxPress = 3
  MaxBreak = 1
  Request = {q1, q2}
  WithFiles = {1}
  MaxUpload = 1
  MaxApply = 2
  MaxTrouble = 2
SPECIFICATION Spec
SYMMETRY Symmetry
INVARIANTS
  AdministratorRemains
  InvitationMakesOneAccount
  ChallengesAreCurrent
  SessionsAreCurrent
  HistoryAgrees
  RestoreIsClean
PROPERTIES
  LateAnswersAreIgnored
  PasswordChangesAreAuthorised
  FilledInIsKept
CHECK_DEADLOCK FALSE

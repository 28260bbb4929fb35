SPECIFICATION FairSpec
CONSTANTS
  u1 = u1
  u2 = u2
  t1 = t1
  t2 = t2
  q1 = q1
  Users <- MCUsers
  Updates <- MCUpdates
  Logins = {q1}
  Changes = {q1}
  Idle = Idle
  Same = Same
  Requests <- MCRequests
  MaxVersion = 1
  MaxTokens = 1
INVARIANTS TypeOK AlwaysASteward LoginTokensAreCurrent
PROPERTIES NoRevival NoUpdateHangs ImplementsRules

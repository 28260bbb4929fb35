SPECIFICATION Spec
CONSTANTS
  u1 = u1
  u2 = u2
  t1 = t1
  t2 = t2
  q1 = q1
  Users = {u1}
  Updates = {t1}
  Logins = {q1}
  Changes = {q1}
  Idle = Idle
  Same = Same
  Requests <- MCRequests
  MaxVersion = 2
  MaxTokens = 2
INVARIANT SessionsMatchPassword

\* Three requests of one user, or one each of two, under one key; b2 asks for a secret.
CONSTANTS
  r1 = r1 r2 = r2 r3 = r3 u1 = u1 u2 = u2 b1 = b1
  None = None
  Requests = {r1, r2, r3}
  Users = {u1, u2}
  Keys = {k1}
  Bodies = {b1, b2}
  Secrets = {b2}
  ClaimStale = 1
  MaxHold = 1
  SlowClients = FALSE
  Retain = 2
SPECIFICATION MCSpec
INVARIANTS TypeOK OneRunPerKey AtMostOnce AnswersOwn
PROPERTIES ClaimableAgain

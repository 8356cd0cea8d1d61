\* As MCIdempotency, with two requests, when nothing limits the write of an answer to its client.
CONSTANTS
  None = None
  Requests = {r1, r2}
  Users = {u1}
  Keys = {k1}
  Bodies = {b1}
  Secrets = {}
  ClaimStale = 1
  MaxHold = 1
  SlowClients = TRUE
  Retain = 2
SPECIFICATION Spec
INVARIANTS AtMostOnce

--------------------------- MODULE MCIdempotency ---------------------------
(* Instances of Idempotency for TLC with two casts: three requests of one    *)
(* user, or one each of two users while the third stays away. Which request  *)
(* is which makes no difference: the bodies of the three come in order.      *)
EXTENDS Idempotency

CONSTANTS r1, r2, r3, u1, u2, b1

Alone == \A r \in Requests : req[r].user = u1
MCInit ==
  /\ Init
  /\ ~Alone => req[r1].user = u1 /\ req[r2].user = u2 /\ req[r3] = req[r2]
  /\ Alone => /\ req[r2].body = b1 => req[r1].body = b1
              /\ req[r3].body = b1 => req[r2].body = b1

MCNext == Next /\ (Alone \/ pc'[r3] = "idle")
MCSpec == MCInit /\ [][MCNext]_vars /\ Fairness
=============================================================================

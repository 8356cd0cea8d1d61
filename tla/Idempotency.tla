---------------------------- MODULE Idempotency ----------------------------
(***************************************************************************)
(* Keyed batch requests: POST /api/v1/batch with an Idempotency-Key        *)
(* (server/internal/obs/idempotency.go, IdempotencyStore.WrapAuthed around *)
(* the handler of api.Server.MountBatch).                                  *)
(*                                                                         *)
(* Two tables are shared by every request of every server process:         *)
(*   idempotency_claim     (user, key) -> claimed_at                       *)
(*   idempotency_response  (user, key) -> request hash, response           *)
(* A request moves through the statements of begin (lookup, claim, second  *)
(* lookup), the batch's transaction, the write of its answer to the client,*)
(* the store of the answer and the release of the claim; every statement   *)
(* is one step, and steps of different requests interleave.                *)
(*                                                                         *)
(* Times are kept as ages in ticks, saturating just past the last          *)
(* threshold the code compares them with, so the clock never has to stop.  *)
(***************************************************************************)
EXTENDS Integers, FiniteSets

CONSTANTS
  Requests,    \* the HTTP requests that arrive (a retry is another request)
  Users, Keys, \* the resolved user and the Idempotency-Key header
  Bodies,      \* request bodies; sha256 is taken to tell them apart
  Secrets,     \* the bodies that call a handler whose result is Secret
  ClaimStale,  \* claimStale: the age past which a claim may be taken over
  Retain,      \* Cleanup's 24 hours
  MaxHold,     \* the longest a live request keeps its claim, timed steps only
  SlowClients, \* TRUE: the write of the answer to the client is not timed
  None         \* no row, no answer

\* A row of idempotency_response: the body's hash, and whose run answered.
Rows == [hash : Bodies, by : Requests]

ASSUME IdempotencyAssumption ==
  /\ ClaimStale \in Nat /\ Retain \in Nat /\ MaxHold \in Nat
  /\ ClaimStale <= Retain
  /\ SlowClients \in BOOLEAN
  /\ Secrets \subseteq Bodies
  /\ None \notin Nat \cup Rows

VARIABLES
  pc,         \* where each request is
  req,        \* what it asks for: [user, key, body]
  claimed,    \* begin's local: this request's claim statement took the row
  held,       \* ticks since that statement
  claim,      \* idempotency_claim: the age of each slot's row, or None
  stored,     \* idempotency_response: each slot's row, or None
  storedAge,  \* and its age
  answer,     \* what the request wrote to its client
  committed,  \* the requests whose batch transaction committed
  lost        \* those of them whose answer the store does not (or no longer) keep

vars == <<pc, req, claimed, held, claim, stored, storedAge, answer, committed, lost>>

Slots == Users \X Keys
Asks == [user : Users, key : Keys, body : Bodies]

\* Mutant of Slot: the cache keyed outside the user resolver.
SlotOfSystemUser(r) == <<CHOOSE u \in Users : TRUE, req[r].key>>

\* What both tables are keyed by: the resolved user and the key.
Slot(r) == <<req[r].user, req[r].key>>

\* The steps at which a request that claimed its slot still has to release it.
Holding == {"recheck", "run", "respond", "store", "release"}
Live == {"lookup", "claim"} \cup Holding
PCs == Live \cup {"idle", "done", "dead"}

Holder(r) == claimed[r] /\ pc[r] \in Holding

\* Answers: the body of a run (named by the request that ran it), replayed or
\* not, or an error envelope.
Answers == [kind : {"ran", "replay"}, of : Requests]
           \cup [kind : {"mismatch", "in_progress", "error"}]

\* Mutant of Ran: an answer without a body.
RanEmpty(r) == [kind |-> "ran"]

Ran(r) == [kind |-> "ran", of |-> r]
Replay(s) == [kind |-> "replay", of |-> s]
Failed(why) == [kind |-> why]

Init ==
  /\ pc = [r \in Requests |-> "idle"]
  /\ req \in [Requests -> Asks]
  /\ claimed = [r \in Requests |-> FALSE]
  /\ held = [r \in Requests |-> 0]
  /\ claim = [s \in Slots |-> None]
  /\ stored = [s \in Slots |-> None]
  /\ storedAge = [s \in Slots |-> 0]
  /\ answer = [r \in Requests |-> None]
  /\ committed = {}
  /\ lost = {}

Goto(r, label) == pc' = [pc EXCEPT ![r] = label]
Reply(r, a) == answer' = [answer EXCEPT ![r] = a]

\* WrapAuthed up to begin: the key and the resolved user are known, the body
\* is read and hashed.
Arrive(r) ==
  /\ pc[r] = "idle"
  /\ Goto(r, "lookup")
  /\ UNCHANGED <<req, claimed, held, claim, stored, storedAge, answer, committed, lost>>

\* replay: what a stored row answers to request r.
ReplayAnswer(r) ==
  IF stored[Slot(r)].hash = req[r].body
    THEN Replay(stored[Slot(r)].by)
    ELSE Failed("mismatch")

\* begin's first lookup. An error fails closed.
FirstLookup(r) ==
  /\ pc[r] = "lookup"
  /\ \/ /\ stored[Slot(r)] # None
        /\ Reply(r, ReplayAnswer(r))
        /\ Goto(r, "done")
     \/ /\ stored[Slot(r)] = None
        /\ Goto(r, "claim")
        /\ UNCHANGED answer
     \/ /\ Reply(r, Failed("error"))
        /\ Goto(r, "done")
  /\ UNCHANGED <<req, claimed, held, claim, stored, storedAge, committed, lost>>

\* Mutants of Claimable: ON CONFLICT DO UPDATE without its WHERE, and ON
\* CONFLICT DO NOTHING.
ClaimableAlways(s) == s \in Slots
ClaimableNeverStale(s) == claim[s] = None

\* The claim statement's condition: no row, or one past claimStale.
Claimable(s) == claim[s] = None \/ claim[s] > ClaimStale

\* begin's claim: INSERT ... ON CONFLICT DO UPDATE ... WHERE stale.
TakeClaim(r) ==
  /\ pc[r] = "claim"
  /\ claimed' = [claimed EXCEPT ![r] = Claimable(Slot(r))]
  /\ claim' = [claim EXCEPT ![Slot(r)] = IF Claimable(Slot(r)) THEN 0 ELSE @]
  /\ held' = [held EXCEPT ![r] = 0]
  /\ Goto(r, "recheck")
  /\ UNCHANGED <<req, stored, storedAge, answer, committed, lost>>

\* The claim statement's error return: begin answers 500 and releases nothing,
\* although the statement may have taken effect in the database.
ClaimError(r) ==
  /\ pc[r] = "claim"
  /\ claim' \in {claim, [claim EXCEPT ![Slot(r)] = IF Claimable(Slot(r)) THEN 0 ELSE @]}
  /\ Reply(r, Failed("error"))
  /\ Goto(r, "done")
  /\ UNCHANGED <<req, claimed, held, stored, storedAge, committed, lost>>

\* Mutant of Recheck: begin without its second lookup.
NoRecheck(r) ==
  /\ pc[r] = "recheck"
  /\ \/ ~claimed[r] /\ Reply(r, Failed("in_progress")) /\ Goto(r, "done")
     \/ claimed[r] /\ Goto(r, "run") /\ UNCHANGED answer
  /\ UNCHANGED <<req, claimed, held, claim, stored, storedAge, committed, lost>>

\* begin's second lookup: a request that finished between the first lookup and
\* the claim is replayed after all; a claim just taken is given back.
Recheck(r) ==
  /\ pc[r] = "recheck"
  /\ \/ /\ stored[Slot(r)] # None
        /\ Reply(r, ReplayAnswer(r))
        /\ Goto(r, IF claimed[r] THEN "release" ELSE "done")
     \/ /\ Reply(r, Failed("error"))
        /\ Goto(r, IF claimed[r] THEN "release" ELSE "done")
     \/ /\ stored[Slot(r)] = None
        /\ ~claimed[r]
        /\ Reply(r, Failed("in_progress"))
        /\ Goto(r, "done")
     \/ /\ stored[Slot(r)] = None
        /\ claimed[r]
        /\ Goto(r, "run")
        /\ UNCHANGED answer
  /\ UNCHANGED <<req, claimed, held, claim, stored, storedAge, committed, lost>>

\* next(): the batch runs in one transaction and commits.
RunCommits(r) ==
  /\ pc[r] = "run"
  /\ committed' = committed \cup {r}
  /\ Goto(r, "respond")
  /\ UNCHANGED <<req, claimed, held, claim, stored, storedAge, answer, lost>>

\* next(): a sub-request fails and the transaction rolls back - or its COMMIT
\* reaches the database and only the answer to it is lost. Either way some
\* sub-response carries an error and batchSucceeded keeps the answer out.
RunFails(r) ==
  /\ pc[r] = "run"
  /\ \/ UNCHANGED <<committed, lost>>
     \/ committed' = committed \cup {r} /\ lost' = lost \cup {r}
  /\ Reply(r, Failed("error"))
  /\ Goto(r, "release")
  /\ UNCHANGED <<req, claimed, held, claim, stored, storedAge>>

\* writeJSONCompressed: the answer goes to the client before it is stored. A
\* batch with a Secret handler is not stored at all.
Respond(r) ==
  /\ pc[r] = "respond"
  /\ Reply(r, Ran(r))
  /\ IF req[r].body \in Secrets
       THEN Goto(r, "release") /\ lost' = lost \cup {r}
       ELSE Goto(r, "store") /\ UNCHANGED lost
  /\ UNCHANGED <<req, claimed, held, claim, stored, storedAge, committed>>

\* store: INSERT ... ON CONFLICT DO NOTHING, on a context of its own. An error
\* is only logged, and the statement may have taken effect all the same.
Store(r) ==
  /\ pc[r] = "store"
  /\ Goto(r, "release")
  /\ \/ /\ stored[Slot(r)] = None
        /\ stored' = [stored EXCEPT ![Slot(r)] = [hash |-> req[r].body, by |-> r]]
        /\ storedAge' = [storedAge EXCEPT ![Slot(r)] = 0]
        /\ UNCHANGED lost
     \/ /\ stored[Slot(r)] # None
        /\ UNCHANGED <<stored, storedAge, lost>>
     \/ /\ lost' = lost \cup {r}
        /\ UNCHANGED <<stored, storedAge>>
  /\ UNCHANGED <<req, claimed, held, claim, answer, committed>>

\* The deferred release: DELETE by (user, key), whoever's row that now is. An
\* error is only logged.
Release(r) ==
  /\ pc[r] = "release"
  /\ \/ claim' = [claim EXCEPT ![Slot(r)] = None]
     \/ UNCHANGED claim
  /\ Goto(r, "done")
  /\ UNCHANGED <<req, claimed, held, stored, storedAge, answer, committed, lost>>

\* The process serving r dies: no deferred call runs.
Die(r) ==
  /\ pc[r] \in Live
  /\ Goto(r, "dead")
  /\ lost' = IF r \in committed /\ pc[r] \in {"respond", "store"} THEN lost \cup {r} ELSE lost
  /\ UNCHANGED <<req, claimed, held, claim, stored, storedAge, answer, committed>>

\* Cleanup, the periodic sweep of both tables. Its two DELETEs are statements
\* of their own; either may fail.
CleanupResponse(s) ==
  /\ stored[s] # None
  /\ storedAge[s] > Retain
  /\ stored' = [stored EXCEPT ![s] = None]
  /\ lost' = lost \cup {stored[s].by}
  /\ UNCHANGED <<pc, req, claimed, held, claim, storedAge, answer, committed>>

CleanupClaim(s) ==
  /\ claim[s] # None
  /\ claim[s] > Retain
  /\ claim' = [claim EXCEPT ![s] = None]
  /\ UNCHANGED <<pc, req, claimed, held, stored, storedAge, answer, committed, lost>>

\* Ages saturate one past the largest threshold they are compared with.
Older(age) == IF age <= Retain THEN age + 1 ELSE age

\* The batch has its budget and store and release five seconds each. The write
\* of the answer has no limit: the server sets no WriteTimeout, so a client
\* that does not read holds it up.
Timed(r) == Holder(r) /\ (SlowClients => pc[r] # "respond")

Tick ==
  /\ \A r \in Requests : Timed(r) => held[r] < MaxHold
  /\ held' = [r \in Requests |-> IF Timed(r) THEN held[r] + 1 ELSE held[r]]
  /\ claim' = [s \in Slots |-> IF claim[s] = None THEN None ELSE Older(claim[s])]
  /\ storedAge' = [s \in Slots |-> IF stored[s] = None THEN storedAge[s] ELSE Older(storedAge[s])]
  /\ UNCHANGED <<pc, req, claimed, stored, answer, committed, lost>>

Step(r) ==
  \/ FirstLookup(r) \/ TakeClaim(r) \/ ClaimError(r) \/ Recheck(r)
  \/ RunCommits(r) \/ RunFails(r) \/ Respond(r) \/ Store(r) \/ Release(r)

Next ==
  \/ \E r \in Requests : Arrive(r) \/ Step(r) \/ Die(r)
  \/ \E s \in Slots : CleanupResponse(s) \/ CleanupClaim(s)
  \/ Tick

Spec == Init /\ [][Next]_vars

\* A live request's goroutine keeps running, and time passes.
Fairness == WF_vars(Tick) /\ \A r \in Requests : WF_vars(Step(r))
FairSpec == Spec /\ Fairness
-----------------------------------------------------------------------------
\* Every variable keeps to its type.
TypeOK ==
  /\ pc \in [Requests -> PCs]
  /\ req \in [Requests -> Asks]
  /\ claimed \in [Requests -> BOOLEAN]
  /\ held \in [Requests -> Nat]
  /\ claim \in [Slots -> Nat \cup {None}]
  /\ stored \in [Slots -> Rows \cup {None}]
  /\ storedAge \in [Slots -> Nat]
  /\ answer \in [Requests -> Answers \cup {None}]
  /\ committed \subseteq Requests
  /\ lost \subseteq Requests

\* One request per (user, key) runs at a time (DI-1): two requests never both
\* hold the slot's claim between taking it and releasing it.
OneRunPerKey ==
  \A r, s \in Requests :
    r # s /\ Holder(r) /\ Holder(s) => Slot(r) # Slot(s)

\* A key's mutation takes effect once: two batches of the same (user, key)
\* both commit only after the answer of one of them was lost (its process
\* died before the store, the store failed, its answer is a secret and never
\* kept, its COMMIT's reply was lost) or aged out.
AtMostOnce ==
  \A r, s \in committed \ lost : r # s => Slot(r) # Slot(s)

\* A replayed answer is the answer of a batch that committed for the same
\* user, under the same key, from the same body.
ReplayIsOwn ==
  \A r \in Requests :
    answer[r] # None /\ answer[r].kind = "replay" =>
      /\ answer[r].of \in committed
      /\ req[answer[r].of] = req[r]

\* A client told 422 reused its key: another body really committed under it.
MismatchIsReuse ==
  \A r \in Requests :
    answer[r] # None /\ answer[r].kind = "mismatch" =>
      \E s \in committed : Slot(s) = Slot(r) /\ req[s].body # req[r].body

\* What begin answers without running the batch is true of the caller's own
\* earlier request (replay).
AnswersOwn == ReplayIsOwn /\ MismatchIsReuse

\* A claim is never stuck: whatever fails, the slot becomes claimable again.
ClaimableAgain == \A s \in Slots : []<>Claimable(s)
=============================================================================

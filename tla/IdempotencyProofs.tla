------------------------- MODULE IdempotencyProofs -------------------------
(***************************************************************************)
(* Proofs about Idempotency, for any number of requests, users, keys and   *)
(* bodies and any time limits.                                             *)
(*                                                                         *)
(* OneRunPerKey and AtMostOnce are not inductive: what keeps a second      *)
(* request out is that a live holder's claim row is as old as its hold, and*)
(* a hold is never older than claimStale; what keeps a second run from     *)
(* committing is that a holder past its second lookup sees no stored row.  *)
(***************************************************************************)
EXTENDS Idempotency, TLAPS

\* The timing the claim relies on: no live request outlives its claim.
HoldsFit == ~SlowClients /\ MaxHold <= ClaimStale

\* A holder's row is its own: it is as old as the hold, which is not too old.
ClaimIsHeld ==
  \A r \in Requests : Holder(r) =>
    claim[Slot(r)] = held[r] /\ held[r] <= MaxHold

\* Only the request that took the claim gets past the second lookup.
RunnersHold ==
  \A r \in Requests :
    pc[r] \in {"run", "respond", "store", "release"} => claimed[r]

\* A stored row is the answer of a committed batch of that slot and body.
StoredIsCommitted ==
  \A s \in Slots : stored[s] # None =>
    /\ stored[s].by \in committed
    /\ Slot(stored[s].by) = s
    /\ stored[s].hash = req[stored[s].by].body

\* Between its second lookup and its store a request's slot has no stored row.
RunnersSeeNone ==
  \A r \in Requests :
    pc[r] \in {"run", "respond", "store"} => stored[Slot(r)] = None

\* Where in its life a request's batch has committed.
CommitPoint ==
  \A r \in Requests :
    /\ pc[r] \in {"respond", "store"} => r \in committed
    /\ pc[r] \in {"idle", "lookup", "claim", "recheck", "run"} => r \notin committed

\* A committed answer that is not lost is stored, or still in its request's hands.
CommittedIsKept ==
  \A r \in committed \ lost :
    \/ stored[Slot(r)] # None /\ stored[Slot(r)].by = r
    \/ pc[r] \in {"respond", "store"}

Inv ==
  /\ TypeOK /\ OneRunPerKey /\ ClaimIsHeld /\ RunnersHold /\ StoredIsCommitted
  /\ RunnersSeeNone /\ CommitPoint /\ CommittedIsKept /\ ReplayIsOwn /\ MismatchIsReuse
-----------------------------------------------------------------------------
\* A request's slot is one of the table's keys.
LEMMA SlotType == TypeOK => \A r \in Requests : Slot(r) \in Slots
BY DEF TypeOK, Slot, Slots, Asks

\* The variables are well typed whatever the timing.
THEOREM TypeCorrect == Spec => []TypeOK
<1>1. Init => TypeOK
  BY IdempotencyAssumption DEF Init, TypeOK, PCs
<1>2. TypeOK /\ [Next]_vars => TypeOK'
  <2> SUFFICES ASSUME TypeOK, [Next]_vars PROVE TypeOK'
    OBVIOUS
  <2> USE IdempotencyAssumption, SlotType
  <2>1. ASSUME NEW r \in Requests, Arrive(r) PROVE TypeOK'
    BY <2>1 DEF Arrive, TypeOK, Goto, PCs, Live, Holding
  <2>2. ASSUME NEW r \in Requests, FirstLookup(r) PROVE TypeOK'
    <3>1. stored[Slot(r)] # None => ReplayAnswer(r) \in Answers
      BY DEF TypeOK, ReplayAnswer, Replay, Failed, Answers, Rows
    <3>2. Failed("error") \in Answers
      BY DEF Failed, Answers
    <3> QED BY <2>2, <3>1, <3>2 DEF FirstLookup, TypeOK, Goto, Reply, PCs, Live, Holding
  <2>3. ASSUME NEW r \in Requests, TakeClaim(r) PROVE TypeOK'
    BY <2>3 DEF TakeClaim, Claimable, TypeOK, Goto, PCs, Live, Holding
  <2>4. ASSUME NEW r \in Requests, ClaimError(r) PROVE TypeOK'
    <3>1. Failed("error") \in Answers
      BY DEF Failed, Answers
    <3> QED BY <2>4, <3>1 DEF ClaimError, TypeOK, Goto, Reply, PCs, Live, Holding
  <2>5. ASSUME NEW r \in Requests, Recheck(r) PROVE TypeOK'
    <3>1. stored[Slot(r)] # None => ReplayAnswer(r) \in Answers
      BY DEF TypeOK, ReplayAnswer, Replay, Failed, Answers, Rows
    <3>2. Failed("error") \in Answers /\ Failed("in_progress") \in Answers
      BY DEF Failed, Answers
    <3> QED BY <2>5, <3>1, <3>2 DEF Recheck, TypeOK, Goto, Reply, PCs, Live, Holding
  <2>6. ASSUME NEW r \in Requests, RunCommits(r) PROVE TypeOK'
    BY <2>6 DEF RunCommits, TypeOK, Goto, PCs, Live, Holding
  <2>7. ASSUME NEW r \in Requests, RunFails(r) PROVE TypeOK'
    <3>1. Failed("error") \in Answers
      BY DEF Failed, Answers
    <3> QED BY <2>7, <3>1 DEF RunFails, TypeOK, Goto, Reply, PCs, Live, Holding
  <2>8. ASSUME NEW r \in Requests, Respond(r) PROVE TypeOK'
    <3>1. Ran(r) \in Answers
      BY DEF Ran, Answers
    <3> QED BY <2>8, <3>1 DEF Respond, TypeOK, Goto, Reply, PCs, Live, Holding
  <2>9. ASSUME NEW r \in Requests, Store(r) PROVE TypeOK'
    <3>1. [hash |-> req[r].body, by |-> r] \in Rows
      BY DEF TypeOK, Asks, Rows
    <3> QED BY <2>9, <3>1 DEF Store, TypeOK, Goto, PCs, Live, Holding
  <2>10. ASSUME NEW r \in Requests, Release(r) PROVE TypeOK'
    BY <2>10 DEF Release, TypeOK, Goto, PCs, Live, Holding
  <2>11. ASSUME NEW r \in Requests, Die(r) PROVE TypeOK'
    BY <2>11 DEF Die, TypeOK, Goto, PCs, Live, Holding
  <2>12. ASSUME NEW s \in Slots, CleanupResponse(s) PROVE TypeOK'
    BY <2>12 DEF CleanupResponse, TypeOK, Rows
  <2>13. ASSUME NEW s \in Slots, CleanupClaim(s) PROVE TypeOK'
    BY <2>13 DEF CleanupClaim, TypeOK
  <2>14. CASE Tick
    BY <2>14 DEF Tick, Older, TypeOK
  <2>15. CASE UNCHANGED vars
    BY <2>15 DEF vars, TypeOK
  <2> QED
    BY <2>1, <2>2, <2>3, <2>4, <2>5, <2>6, <2>7, <2>8, <2>9, <2>10, <2>11,
       <2>12, <2>13, <2>14, <2>15 DEF Next, Step
<1> QED BY <1>1, <1>2, PTL DEF Spec

\* Nothing rewrites a request: its slot is the same after every step.
LEMMA SlotConstant ==
  ASSUME [Next]_vars
  PROVE  req' = req /\ \A r : Slot(r)' = Slot(r)
BY DEF Next, vars, Step, Arrive, FirstLookup, TakeClaim, ClaimError, Recheck, RunCommits,
       RunFails, Respond, Store, Release, Die, CleanupResponse, CleanupClaim, Tick, Slot

\* A row found in r's slot answers r honestly.
LEMMA ReplayAnswerHonest ==
  ASSUME TypeOK, StoredIsCommitted, NEW r \in Requests, stored[Slot(r)] # None
  PROVE  /\ ReplayAnswer(r).kind = "replay" =>
              ReplayAnswer(r).of \in committed /\ req[ReplayAnswer(r).of] = req[r]
         /\ ReplayAnswer(r).kind = "mismatch" =>
              \E s \in committed : Slot(s) = Slot(r) /\ req[s].body # req[r].body
<1> DEFINE s == stored[Slot(r)].by
<1>1. s \in committed /\ s \in Requests /\ Slot(s) = Slot(r) /\ stored[Slot(r)].hash = req[s].body
  BY SlotType DEF StoredIsCommitted, TypeOK, Rows
<1>2. CASE stored[Slot(r)].hash = req[r].body
  <2>1. req[s] = req[r]
    <3>1. req[s] \in Asks /\ req[r] \in Asks
      BY <1>1 DEF TypeOK
    <3>2. req[s].user = req[r].user /\ req[s].key = req[r].key
      BY <1>1 DEF Slot
    <3>3. req[s].body = req[r].body
      BY <1>1, <1>2
    <3> QED BY <3>1, <3>2, <3>3 DEF Asks
  <2>2. ReplayAnswer(r) = [kind |-> "replay", of |-> s]
    BY <1>2 DEF ReplayAnswer, Replay
  <2> QED BY <1>1, <2>1, <2>2
<1>3. CASE stored[Slot(r)].hash # req[r].body
  <2>1. ReplayAnswer(r) = [kind |-> "mismatch"]
    BY <1>3 DEF ReplayAnswer, Failed
  <2> QED BY <1>1, <1>3, <2>1
<1> QED BY <1>2, <1>3

\* The other answers claim nothing about another request.
LEMMA PlainAnswers ==
  /\ Failed("error").kind = "error"
  /\ Failed("in_progress").kind = "in_progress"
  /\ \A r : Ran(r).kind = "ran"
BY DEF Failed, Ran

Honest == ReplayIsOwn /\ MismatchIsReuse

\* A step that writes at most r's answer, and that one honestly, keeps them so.
LEMMA HonestStep ==
  ASSUME TypeOK, Honest, [Next]_vars, committed \subseteq committed',
         NEW r \in Requests, NEW a,
         answer' = answer \/ Reply(r, a),
         a.kind = "replay" => a.of \in committed /\ req[a.of] = req[r],
         a.kind = "mismatch" => \E s \in committed : Slot(s) = Slot(r) /\ req[s].body # req[r].body
  PROVE  Honest'
BY SlotConstant DEF Honest, ReplayIsOwn, MismatchIsReuse, Reply, TypeOK

\* Inv holds initially.
LEMMA InvInit == Init => Inv
<1> SUFFICES ASSUME Init PROVE Inv
  OBVIOUS
<1>1. TypeOK
  BY IdempotencyAssumption DEF Init, TypeOK, PCs
<1>2. OneRunPerKey /\ ClaimIsHeld /\ RunnersHold /\ RunnersSeeNone
  BY DEF Init, OneRunPerKey, ClaimIsHeld, RunnersHold, RunnersSeeNone, Holder
<1>3. StoredIsCommitted /\ CommitPoint /\ CommittedIsKept
  BY DEF Init, StoredIsCommitted, CommitPoint, CommittedIsKept
<1>4. ReplayIsOwn /\ MismatchIsReuse
  BY DEF Init, ReplayIsOwn, MismatchIsReuse
<1> QED BY <1>1, <1>2, <1>3, <1>4 DEF Inv

\* Inv but for its types, which TypeCorrect takes care of, and for the answers.
Core ==
  /\ OneRunPerKey /\ ClaimIsHeld /\ RunnersHold /\ StoredIsCommitted
  /\ RunnersSeeNone /\ CommitPoint /\ CommittedIsKept

\* Every step preserves Inv when no live request outlives its claim.
LEMMA InvStep ==
  ASSUME HoldsFit, Inv, [Next]_vars, TypeOK'
  PROVE  Inv'
<1> USE IdempotencyAssumption, SlotType, SlotConstant
<1> SUFFICES Core' /\ Honest'
  BY DEF Inv, Core, Honest
<1>h. Honest
  BY DEF Inv, Honest
<1>1. ASSUME NEW r \in Requests, Arrive(r) PROVE Core' /\ Honest'
  <2>1. OneRunPerKey'
    BY <1>1 DEF Arrive, Inv, TypeOK, Goto, Holding, OneRunPerKey, Holder
  <2>2. ClaimIsHeld'
    BY <1>1 DEF Arrive, Inv, TypeOK, Goto, Holding, ClaimIsHeld, Holder
  <2>3. RunnersHold'
    BY <1>1 DEF Arrive, Inv, TypeOK, Goto, Holding, RunnersHold
  <2>4. StoredIsCommitted'
    BY <1>1 DEF Arrive, Inv, TypeOK, Goto, Holding, StoredIsCommitted
  <2>5. RunnersSeeNone'
    BY <1>1 DEF Arrive, Inv, TypeOK, Goto, Holding, RunnersSeeNone
  <2>6. CommitPoint'
    BY <1>1 DEF Arrive, Inv, TypeOK, Goto, Holding, CommitPoint
  <2>7. CommittedIsKept'
    BY <1>1 DEF Arrive, Inv, TypeOK, Goto, Holding, CommittedIsKept
  <2>h. Honest'
    BY <1>1, <1>h DEF Arrive, Inv, Honest, ReplayIsOwn, MismatchIsReuse
  <2> QED BY <2>1, <2>2, <2>3, <2>4, <2>5, <2>6, <2>7, <2>h DEF Core
<1>2. ASSUME NEW r \in Requests, FirstLookup(r) PROVE Core' /\ Honest'
  <2>1. OneRunPerKey'
    BY <1>2 DEF FirstLookup, Inv, TypeOK, Goto, Holding, OneRunPerKey, Holder
  <2>2. ClaimIsHeld'
    BY <1>2 DEF FirstLookup, Inv, TypeOK, Goto, Holding, ClaimIsHeld, Holder
  <2>3. RunnersHold'
    BY <1>2 DEF FirstLookup, Inv, TypeOK, Goto, Holding, RunnersHold
  <2>4. StoredIsCommitted'
    BY <1>2 DEF FirstLookup, Inv, TypeOK, Goto, Holding, StoredIsCommitted
  <2>5. RunnersSeeNone'
    BY <1>2 DEF FirstLookup, Inv, TypeOK, Goto, Holding, RunnersSeeNone
  <2>6. CommitPoint'
    BY <1>2 DEF FirstLookup, Inv, TypeOK, Goto, Holding, CommitPoint
  <2>7. CommittedIsKept'
    BY <1>2 DEF FirstLookup, Inv, TypeOK, Goto, Holding, CommittedIsKept
  <2>h. Honest'
    <3>1. answer' = answer \/ Reply(r, Failed("error")) \/ (stored[Slot(r)] # None /\ Reply(r, ReplayAnswer(r)))
      BY <1>2 DEF FirstLookup
    <3> QED BY <1>2, <1>h, <3>1, HonestStep, PlainAnswers, ReplayAnswerHonest DEF FirstLookup, Inv
  <2> QED BY <2>1, <2>2, <2>3, <2>4, <2>5, <2>6, <2>7, <2>h DEF Core
<1>3. ASSUME NEW r \in Requests, TakeClaim(r) PROVE Core' /\ Honest'
  <2>1. OneRunPerKey'
    <3>1. ASSUME Claimable(Slot(r)), NEW s \in Requests, s # r, Holder(s) PROVE Slot(s) # Slot(r)
      BY <3>1 DEF Claimable, Inv, ClaimIsHeld, HoldsFit, TypeOK
    <3> QED BY <1>3, <3>1 DEF TakeClaim, Inv, TypeOK, Goto, Holding, OneRunPerKey, Holder
  <2>2. ClaimIsHeld'
    <3>1. ASSUME Claimable(Slot(r)), NEW s \in Requests, s # r, Holder(s) PROVE Slot(s) # Slot(r)
      BY <3>1 DEF Claimable, Inv, ClaimIsHeld, HoldsFit, TypeOK
    <3> QED BY <1>3, <3>1 DEF TakeClaim, Inv, TypeOK, Goto, Holding, ClaimIsHeld, Holder
  <2>3. RunnersHold'
    BY <1>3 DEF TakeClaim, Inv, TypeOK, Goto, Holding, RunnersHold
  <2>4. StoredIsCommitted'
    BY <1>3 DEF TakeClaim, Inv, TypeOK, Goto, Holding, StoredIsCommitted
  <2>5. RunnersSeeNone'
    BY <1>3 DEF TakeClaim, Inv, TypeOK, Goto, Holding, RunnersSeeNone
  <2>6. CommitPoint'
    BY <1>3 DEF TakeClaim, Inv, TypeOK, Goto, Holding, CommitPoint
  <2>7. CommittedIsKept'
    BY <1>3 DEF TakeClaim, Inv, TypeOK, Goto, Holding, CommittedIsKept
  <2>h. Honest'
    BY <1>3, <1>h DEF TakeClaim, Inv, Honest, ReplayIsOwn, MismatchIsReuse
  <2> QED BY <2>1, <2>2, <2>3, <2>4, <2>5, <2>6, <2>7, <2>h DEF Core
<1>4. ASSUME NEW r \in Requests, ClaimError(r) PROVE Core' /\ Honest'
  <2>1. OneRunPerKey'
    BY <1>4 DEF ClaimError, Inv, TypeOK, Goto, Holding, OneRunPerKey, Holder
  <2>2. ClaimIsHeld'
    <3>1. ASSUME Claimable(Slot(r)), NEW s \in Requests, Holder(s) PROVE Slot(s) # Slot(r)
      BY <3>1 DEF Claimable, Inv, ClaimIsHeld, HoldsFit, TypeOK
    <3> QED BY <1>4, <3>1 DEF ClaimError, Inv, TypeOK, Goto, Holding, ClaimIsHeld, Holder
  <2>3. RunnersHold'
    BY <1>4 DEF ClaimError, Inv, TypeOK, Goto, Holding, RunnersHold
  <2>4. StoredIsCommitted'
    BY <1>4 DEF ClaimError, Inv, TypeOK, Goto, Holding, StoredIsCommitted
  <2>5. RunnersSeeNone'
    BY <1>4 DEF ClaimError, Inv, TypeOK, Goto, Holding, RunnersSeeNone
  <2>6. CommitPoint'
    BY <1>4 DEF ClaimError, Inv, TypeOK, Goto, Holding, CommitPoint
  <2>7. CommittedIsKept'
    BY <1>4 DEF ClaimError, Inv, TypeOK, Goto, Holding, CommittedIsKept
  <2>h. Honest'
    BY <1>4, <1>h, HonestStep, PlainAnswers DEF ClaimError, Inv
  <2> QED BY <2>1, <2>2, <2>3, <2>4, <2>5, <2>6, <2>7, <2>h DEF Core
<1>5. ASSUME NEW r \in Requests, Recheck(r) PROVE Core' /\ Honest'
  <2>1. OneRunPerKey'
    BY <1>5 DEF Recheck, Inv, TypeOK, Goto, Holding, OneRunPerKey, Holder
  <2>2. ClaimIsHeld'
    BY <1>5 DEF Recheck, Inv, TypeOK, Goto, Holding, ClaimIsHeld, Holder
  <2>3. RunnersHold'
    BY <1>5 DEF Recheck, Inv, TypeOK, Goto, Holding, RunnersHold
  <2>4. StoredIsCommitted'
    BY <1>5 DEF Recheck, Inv, TypeOK, Goto, Holding, StoredIsCommitted
  <2>5. RunnersSeeNone'
    BY <1>5 DEF Recheck, Inv, TypeOK, Goto, Holding, RunnersSeeNone
  <2>6. CommitPoint'
    BY <1>5 DEF Recheck, Inv, TypeOK, Goto, Holding, CommitPoint
  <2>7. CommittedIsKept'
    BY <1>5 DEF Recheck, Inv, TypeOK, Goto, Holding, CommittedIsKept
  <2>h. Honest'
    <3>1. \/ answer' = answer \/ Reply(r, Failed("error")) \/ Reply(r, Failed("in_progress"))
          \/ stored[Slot(r)] # None /\ Reply(r, ReplayAnswer(r))
      BY <1>5 DEF Recheck
    <3> QED BY <1>5, <1>h, <3>1, HonestStep, PlainAnswers, ReplayAnswerHonest DEF Recheck, Inv
  <2> QED BY <2>1, <2>2, <2>3, <2>4, <2>5, <2>6, <2>7, <2>h DEF Core
<1>6. ASSUME NEW r \in Requests, RunCommits(r) PROVE Core' /\ Honest'
  <2>1. OneRunPerKey'
    BY <1>6 DEF RunCommits, Inv, TypeOK, Goto, Holding, OneRunPerKey, Holder
  <2>2. ClaimIsHeld'
    BY <1>6 DEF RunCommits, Inv, TypeOK, Goto, Holding, ClaimIsHeld, Holder
  <2>3. RunnersHold'
    BY <1>6 DEF RunCommits, Inv, TypeOK, Goto, Holding, RunnersHold
  <2>4. StoredIsCommitted'
    BY <1>6 DEF RunCommits, Inv, TypeOK, Goto, Holding, StoredIsCommitted
  <2>5. RunnersSeeNone'
    BY <1>6 DEF RunCommits, Inv, TypeOK, Goto, Holding, RunnersSeeNone
  <2>6. CommitPoint'
    BY <1>6 DEF RunCommits, Inv, TypeOK, Goto, Holding, CommitPoint
  <2>7. CommittedIsKept'
    BY <1>6 DEF RunCommits, Inv, TypeOK, Goto, Holding, CommittedIsKept
  <2>h. Honest'
    BY <1>6, <1>h DEF RunCommits, Inv, Honest, ReplayIsOwn, MismatchIsReuse
  <2> QED BY <2>1, <2>2, <2>3, <2>4, <2>5, <2>6, <2>7, <2>h DEF Core
<1>7. ASSUME NEW r \in Requests, RunFails(r) PROVE Core' /\ Honest'
  <2>1. OneRunPerKey'
    BY <1>7 DEF RunFails, Inv, TypeOK, Goto, Holding, OneRunPerKey, Holder
  <2>2. ClaimIsHeld'
    BY <1>7 DEF RunFails, Inv, TypeOK, Goto, Holding, ClaimIsHeld, Holder
  <2>3. RunnersHold'
    BY <1>7 DEF RunFails, Inv, TypeOK, Goto, Holding, RunnersHold
  <2>4. StoredIsCommitted'
    BY <1>7 DEF RunFails, Inv, TypeOK, Goto, Holding, StoredIsCommitted
  <2>5. RunnersSeeNone'
    BY <1>7 DEF RunFails, Inv, TypeOK, Goto, Holding, RunnersSeeNone
  <2>6. CommitPoint'
    BY <1>7 DEF RunFails, Inv, TypeOK, Goto, Holding, CommitPoint
  <2>7. CommittedIsKept'
    BY <1>7 DEF RunFails, Inv, TypeOK, Goto, Holding, CommittedIsKept
  <2>h. Honest'
    BY <1>7, <1>h, HonestStep, PlainAnswers DEF RunFails, Inv
  <2> QED BY <2>1, <2>2, <2>3, <2>4, <2>5, <2>6, <2>7, <2>h DEF Core
<1>8. ASSUME NEW r \in Requests, Respond(r) PROVE Core' /\ Honest'
  <2>1. OneRunPerKey'
    BY <1>8 DEF Respond, Inv, TypeOK, Goto, Holding, OneRunPerKey, Holder
  <2>2. ClaimIsHeld'
    BY <1>8 DEF Respond, Inv, TypeOK, Goto, Holding, ClaimIsHeld, Holder
  <2>3. RunnersHold'
    BY <1>8 DEF Respond, Inv, TypeOK, Goto, Holding, RunnersHold
  <2>4. StoredIsCommitted'
    BY <1>8 DEF Respond, Inv, TypeOK, Goto, Holding, StoredIsCommitted
  <2>5. RunnersSeeNone'
    BY <1>8 DEF Respond, Inv, TypeOK, Goto, Holding, RunnersSeeNone
  <2>6. CommitPoint'
    BY <1>8 DEF Respond, Inv, TypeOK, Goto, Holding, CommitPoint
  <2>7. CommittedIsKept'
    BY <1>8 DEF Respond, Inv, TypeOK, Goto, Holding, CommittedIsKept
  <2>h. Honest'
    BY <1>8, <1>h, HonestStep, PlainAnswers DEF Respond, Inv
  <2> QED BY <2>1, <2>2, <2>3, <2>4, <2>5, <2>6, <2>7, <2>h DEF Core
<1>9. ASSUME NEW r \in Requests, Store(r) PROVE Core' /\ Honest'
  <2>1. OneRunPerKey'
    BY <1>9 DEF Store, Inv, TypeOK, Goto, Holding, OneRunPerKey, Holder
  <2>2. ClaimIsHeld'
    BY <1>9 DEF Store, Inv, TypeOK, Goto, Holding, ClaimIsHeld, Holder
  <2>3. RunnersHold'
    BY <1>9 DEF Store, Inv, TypeOK, Goto, Holding, RunnersHold
  <2>4. StoredIsCommitted'
    <3>1. r \in committed
      BY <1>9 DEF Store, Inv, CommitPoint
    <3> QED BY <1>9, <3>1 DEF Store, Inv, TypeOK, Rows, StoredIsCommitted
  <2>5. RunnersSeeNone'
    <3>1. Holder(r)
      BY <1>9 DEF Store, Inv, RunnersHold, Holder, Holding
    <3>2. ASSUME NEW s \in Requests, s # r, pc[s] \in {"run", "respond", "store"} PROVE Slot(s) # Slot(r)
      BY <3>1, <3>2 DEF Inv, OneRunPerKey, RunnersHold, Holder, Holding
    <3> QED BY <1>9, <3>2 DEF Store, Inv, TypeOK, Goto, RunnersSeeNone
  <2>6. CommitPoint'
    BY <1>9 DEF Store, Inv, TypeOK, Goto, Holding, CommitPoint
  <2>7. CommittedIsKept'
    <3>1. stored[Slot(r)] = None
      BY <1>9 DEF Store, Inv, RunnersSeeNone
    <3>2. [hash |-> req[r].body, by |-> r] # None
      BY DEF Inv, TypeOK, Asks, Rows
    <3> QED BY <1>9, <3>1, <3>2 DEF Store, Inv, TypeOK, Goto, CommittedIsKept
  <2>h. Honest'
    BY <1>9, <1>h DEF Store, Inv, Honest, ReplayIsOwn, MismatchIsReuse
  <2> QED BY <2>1, <2>2, <2>3, <2>4, <2>5, <2>6, <2>7, <2>h DEF Core
<1>10. ASSUME NEW r \in Requests, Release(r) PROVE Core' /\ Honest'
  <2>1. OneRunPerKey'
    BY <1>10 DEF Release, Inv, TypeOK, Goto, Holding, OneRunPerKey, Holder
  <2>2. ClaimIsHeld'
    <3>1. Holder(r)
      BY <1>10 DEF Release, Inv, RunnersHold, Holder, Holding
    <3>2. \A s \in Requests : s # r /\ Holder(s) => Slot(s) # Slot(r)
      BY <3>1 DEF Inv, OneRunPerKey
    <3> QED BY <1>10, <3>2 DEF Release, Inv, TypeOK, Goto, Holding, ClaimIsHeld, Holder
  <2>3. RunnersHold'
    BY <1>10 DEF Release, Inv, TypeOK, Goto, Holding, RunnersHold
  <2>4. StoredIsCommitted'
    BY <1>10 DEF Release, Inv, TypeOK, Goto, Holding, StoredIsCommitted
  <2>5. RunnersSeeNone'
    BY <1>10 DEF Release, Inv, TypeOK, Goto, Holding, RunnersSeeNone
  <2>6. CommitPoint'
    BY <1>10 DEF Release, Inv, TypeOK, Goto, Holding, CommitPoint
  <2>7. CommittedIsKept'
    BY <1>10 DEF Release, Inv, TypeOK, Goto, Holding, CommittedIsKept
  <2>h. Honest'
    BY <1>10, <1>h DEF Release, Inv, Honest, ReplayIsOwn, MismatchIsReuse
  <2> QED BY <2>1, <2>2, <2>3, <2>4, <2>5, <2>6, <2>7, <2>h DEF Core
<1>11. ASSUME NEW r \in Requests, Die(r) PROVE Core' /\ Honest'
  <2>1. OneRunPerKey'
    BY <1>11 DEF Die, Inv, TypeOK, Goto, Holding, OneRunPerKey, Holder
  <2>2. ClaimIsHeld'
    BY <1>11 DEF Die, Inv, TypeOK, Goto, Holding, ClaimIsHeld, Holder
  <2>3. RunnersHold'
    BY <1>11 DEF Die, Inv, TypeOK, Goto, Holding, RunnersHold
  <2>4. StoredIsCommitted'
    BY <1>11 DEF Die, Inv, TypeOK, Goto, Holding, StoredIsCommitted
  <2>5. RunnersSeeNone'
    BY <1>11 DEF Die, Inv, TypeOK, Goto, Holding, RunnersSeeNone
  <2>6. CommitPoint'
    BY <1>11 DEF Die, Inv, TypeOK, Goto, Holding, CommitPoint
  <2>7. CommittedIsKept'
    BY <1>11 DEF Die, Inv, TypeOK, Goto, Holding, CommittedIsKept
  <2>h. Honest'
    BY <1>11, <1>h DEF Die, Inv, Honest, ReplayIsOwn, MismatchIsReuse
  <2> QED BY <2>1, <2>2, <2>3, <2>4, <2>5, <2>6, <2>7, <2>h DEF Core
<1>12. ASSUME NEW s \in Slots, CleanupResponse(s) PROVE Core' /\ Honest'
  <2>1. OneRunPerKey'
    BY <1>12 DEF CleanupResponse, Inv, TypeOK, OneRunPerKey, Holder
  <2>2. ClaimIsHeld'
    BY <1>12 DEF CleanupResponse, Inv, TypeOK, ClaimIsHeld, Holder
  <2>3. RunnersHold'
    BY <1>12 DEF CleanupResponse, Inv, TypeOK, RunnersHold
  <2>4. StoredIsCommitted'
    BY <1>12 DEF CleanupResponse, Inv, TypeOK, StoredIsCommitted
  <2>5. RunnersSeeNone'
    BY <1>12 DEF CleanupResponse, Inv, TypeOK, RunnersSeeNone
  <2>6. CommitPoint'
    BY <1>12 DEF CleanupResponse, Inv, TypeOK, CommitPoint
  <2>7. CommittedIsKept'
    BY <1>12 DEF CleanupResponse, Inv, TypeOK, CommittedIsKept
  <2>h. Honest'
    BY <1>12, <1>h DEF CleanupResponse, Inv, Honest, ReplayIsOwn, MismatchIsReuse
  <2> QED BY <2>1, <2>2, <2>3, <2>4, <2>5, <2>6, <2>7, <2>h DEF Core
<1>13. ASSUME NEW s \in Slots, CleanupClaim(s) PROVE Core' /\ Honest'
  <2>1. OneRunPerKey'
    BY <1>13 DEF CleanupClaim, Inv, TypeOK, OneRunPerKey, Holder
  <2>2. ClaimIsHeld'
    BY <1>13 DEF CleanupClaim, Inv, TypeOK, ClaimIsHeld, Holder, HoldsFit
  <2>3. RunnersHold'
    BY <1>13 DEF CleanupClaim, Inv, TypeOK, RunnersHold
  <2>4. StoredIsCommitted'
    BY <1>13 DEF CleanupClaim, Inv, TypeOK, StoredIsCommitted
  <2>5. RunnersSeeNone'
    BY <1>13 DEF CleanupClaim, Inv, TypeOK, RunnersSeeNone
  <2>6. CommitPoint'
    BY <1>13 DEF CleanupClaim, Inv, TypeOK, CommitPoint
  <2>7. CommittedIsKept'
    BY <1>13 DEF CleanupClaim, Inv, TypeOK, CommittedIsKept
  <2>h. Honest'
    BY <1>13, <1>h DEF CleanupClaim, Inv, Honest, ReplayIsOwn, MismatchIsReuse
  <2> QED BY <2>1, <2>2, <2>3, <2>4, <2>5, <2>6, <2>7, <2>h DEF Core
<1>14. CASE Tick
  <2>1. OneRunPerKey'
    BY <1>14 DEF Tick, Timed, Older, HoldsFit, Inv, TypeOK, OneRunPerKey, Holder
  <2>2. ClaimIsHeld'
    BY <1>14 DEF Tick, Timed, Older, HoldsFit, Inv, TypeOK, ClaimIsHeld, Holder
  <2>3. RunnersHold'
    BY <1>14 DEF Tick, Timed, Older, HoldsFit, Inv, TypeOK, RunnersHold
  <2>4. StoredIsCommitted'
    BY <1>14 DEF Tick, Timed, Older, HoldsFit, Inv, TypeOK, StoredIsCommitted
  <2>5. RunnersSeeNone'
    BY <1>14 DEF Tick, Timed, Older, HoldsFit, Inv, TypeOK, RunnersSeeNone
  <2>6. CommitPoint'
    BY <1>14 DEF Tick, Timed, Older, HoldsFit, Inv, TypeOK, CommitPoint
  <2>7. CommittedIsKept'
    BY <1>14 DEF Tick, Timed, Older, HoldsFit, Inv, TypeOK, CommittedIsKept
  <2>h. Honest'
    BY <1>14, <1>h DEF Tick, Inv, Honest, ReplayIsOwn, MismatchIsReuse
  <2> QED BY <2>1, <2>2, <2>3, <2>4, <2>5, <2>6, <2>7, <2>h DEF Core
<1>15. CASE UNCHANGED vars
  BY <1>15, <1>h DEF vars, Inv, Core, Honest, Holder, OneRunPerKey, ClaimIsHeld, RunnersHold, StoredIsCommitted, RunnersSeeNone, CommitPoint, CommittedIsKept, ReplayIsOwn, MismatchIsReuse
<1> QED
  BY <1>1, <1>2, <1>3, <1>4, <1>5, <1>6, <1>7, <1>8, <1>9, <1>10, <1>11, <1>12, <1>13, <1>14, <1>15 DEF Next, Step

\* AtMostOnce is what Inv leaves possible.
LEMMA InvAtMostOnce == Inv => AtMostOnce
<1> SUFFICES ASSUME Inv, NEW r \in committed \ lost, NEW s \in committed \ lost,
                    r # s, Slot(r) = Slot(s)
             PROVE  FALSE
  BY DEF AtMostOnce
<1>1. r \in Requests /\ s \in Requests
  BY DEF Inv, TypeOK
<1>2. pc[r] \in {"respond", "store"} \/ pc[s] \in {"respond", "store"}
  BY <1>1 DEF Inv, CommittedIsKept
<1>3. stored[Slot(r)] = None
  BY <1>1, <1>2 DEF Inv, RunnersSeeNone
<1>4. pc[r] \in {"respond", "store"} /\ pc[s] \in {"respond", "store"}
  BY <1>1, <1>3 DEF Inv, CommittedIsKept
<1>5. Holder(r) /\ Holder(s)
  BY <1>1, <1>4 DEF Inv, RunnersHold, Holder, Holding
<1> QED BY <1>1, <1>5 DEF Inv, OneRunPerKey

\* Inv always holds when no live request outlives its claim.
LEMMA Invariance == ASSUME HoldsFit PROVE Spec => []Inv
<1>1. Inv /\ [Next]_vars /\ TypeOK' => Inv'
  BY InvStep
<1> QED BY <1>1, InvInit, TypeCorrect, PTL DEF Spec

\* One request per (user, key) runs at a time.
THEOREM MutualExclusion == ASSUME HoldsFit PROVE Spec => []OneRunPerKey
<1>1. Inv => OneRunPerKey
  BY DEF Inv
<1> QED BY <1>1, Invariance, PTL

\* A key's mutation commits once unless its answer is lost.
THEOREM RunsAtMostOnce == ASSUME HoldsFit PROVE Spec => []AtMostOnce
BY Invariance, InvAtMostOnce, PTL

\* What is replayed, or refused as a mismatch, is so for a batch that committed
\* for the same user under the same key.
THEOREM AnswersHonest == ASSUME HoldsFit PROVE Spec => []AnswersOwn
<1>1. Inv => AnswersOwn
  BY DEF Inv, AnswersOwn
<1> QED BY <1>1, Invariance, PTL
=============================================================================

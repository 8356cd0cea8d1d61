------------------------ MODULE MailSendQueueProofs ------------------------
(***************************************************************************)
(* Proofs about MailSendQueue, for any senders, messages and time limits   *)
(* that satisfy ClaimOutlastsSend.                                         *)
(*                                                                         *)
(* What makes the claim a lock is ClaimCovers: while a sender works on a   *)
(* message, the message's claim has more time left than the sender has.    *)
(* The rest follows: no other sender can claim it, no pruning touches its  *)
(* attempts, and only its sender can give it a result.                     *)
(***************************************************************************)
EXTENDS MailSendQueue, TLAPS

\* A working sender's claim outlasts the time it still has.
ClaimCovers ==
  \A s \in Senders :
    /\ Busy(s) => cur[s] \in Messages
    /\ pc[s] = "build" => claimLeft[cur[s]] > left[s] + ResultTimeout
    /\ pc[s] = "record" => claimLeft[cur[s]] > resultLeft[s]

\* The message it works on has no result yet, and as many tries as it saw.
WorkIsOpen ==
  \A s \in Senders : Busy(s) =>
    /\ status[cur[s]] \notin {"sent", "bounced"}
    /\ seen[s] = tries[cur[s]]

\* Sender s knows that m was taken and has yet to record it.
HasAccepted(s, m) == pc[s] = "record" /\ cur[s] = m /\ outcome[s] = "accepted"

\* What is known to have been taken is recorded or in its sender's hands, once.
HeardOnce ==
  \A m \in Messages :
    \/ heard[m] = 1 /\ (status[m] = "sent" \/ \E s \in Senders : HasAccepted(s, m))
    \/ heard[m] = 0 /\ status[m] # "sent" /\ \A s \in Senders : ~HasAccepted(s, m)

Inv ==
  /\ TypeOK /\ OneSender /\ ClaimCovers /\ WorkIsOpen /\ HeardOnce /\ TriesBounded

\* The limits are numbers, and None is none of the things it stands in for.
LEMMA LimitTypes ==
  /\ TickBudget \in Nat /\ SendTimeout \in Nat /\ ResultTimeout \in Nat /\ SendClaim \in Nat
  /\ MaxAttempts \in Nat /\ MaxAttempts > 0
  /\ None \notin Channels /\ None \notin Messages
BY MailSendAssumption

\* Adding up a sender's time: it never reaches the end of its claim.
LEMMA BudgetFits ==
  ASSUME NEW l \in 0..TickBudget
  PROVE  SendClaim > l + ResultTimeout
BY MailSendAssumption, ClaimOutlastsSend

\* While a sender works on a message its claim still stands.
LEMMA WorkIsClaimed ==
  ASSUME TypeOK, ClaimCovers, NEW s \in Senders, Busy(s)
  PROVE  cur[s] \in Messages /\ claimLeft[cur[s]] > 0
BY MailSendAssumption DEF TypeOK, ClaimCovers, Busy

\* Backoff gives a natural number of ticks for every number of tries.
LEMMA WaitType == ASSUME NEW n \in Nat PROVE Wait(n) \in Nat
<1>1. Len(Backoff) \in Nat /\ Len(Backoff) > 0 /\ \A i \in 1..Len(Backoff) : Backoff[i] \in Nat
  BY MailSendAssumption
<1> QED BY <1>1 DEF Wait

\* Inv holds initially.
LEMMA InvInit == Init => Inv
BY MailSendAssumption
   DEF Init, Inv, TypeOK, OneSender, ClaimCovers, WorkIsOpen, HeardOnce, HasAccepted, TriesBounded,
       Busy, Messages, Statuses

\* The message in a working sender's hands is in no other sender's.
LEMMA OthersElsewhere ==
  ASSUME OneSender, NEW s \in Senders, Busy(s)
  PROVE  \A t \in Senders : t # s /\ Busy(t) => cur[t] # cur[s]
BY DEF OneSender

\* A sender that lets go of its message leaves the others' work alone, whether it
\* finished the message, put it off or left it as it was.
LEMMA LetGoCovers ==
  ASSUME TypeOK, OneSender, ClaimCovers, NEW s \in Senders, Busy(s), NEW l \in {"idle", "scan"}, LetGo(s, l),
         \A m \in Messages : m # cur[s] => claimLeft'[m] = claimLeft[m]
  PROVE  ClaimCovers'
<1>1. pc' = [pc EXCEPT ![s] = l] /\ cur' = [cur EXCEPT ![s] = None] /\ left' = left
      /\ resultLeft' = [resultLeft EXCEPT ![s] = 0]
  BY DEF LetGo
<1>2. ASSUME NEW t \in Senders, t # s, Busy(t)
      PROVE  cur[t] \in Messages /\ claimLeft'[cur[t]] = claimLeft[cur[t]]
  BY <1>2, OthersElsewhere DEF ClaimCovers
<1>3. ASSUME NEW t \in Senders, Busy(t)'
      PROVE  t # s /\ Busy(t) /\ pc'[t] = pc[t] /\ cur'[t] = cur[t] /\ resultLeft'[t] = resultLeft[t]
  BY <1>1, <1>3 DEF TypeOK, Busy
<1>4. ASSUME NEW t \in Senders PROVE ClaimCovers!(t)'
  BY <1>1, <1>2, <1>3 DEF ClaimCovers, Busy
<1> QED BY <1>4 DEF ClaimCovers

LEMMA LetGoOpen ==
  ASSUME TypeOK, OneSender, ClaimCovers, WorkIsOpen, NEW s \in Senders, Busy(s), NEW l \in {"idle", "scan"}, LetGo(s, l),
         \A m \in Messages : m # cur[s] => status'[m] = status[m] /\ tries'[m] = tries[m]
  PROVE  WorkIsOpen'
<1>1. pc' = [pc EXCEPT ![s] = l] /\ cur' = [cur EXCEPT ![s] = None] /\ seen' = [seen EXCEPT ![s] = 0]
  BY DEF LetGo
<1>2. ASSUME NEW t \in Senders, t # s, Busy(t)
      PROVE  status'[cur[t]] = status[cur[t]] /\ tries'[cur[t]] = tries[cur[t]]
  BY <1>2, OthersElsewhere DEF ClaimCovers
<1>3. ASSUME NEW t \in Senders, Busy(t)'
      PROVE  t # s /\ Busy(t) /\ cur'[t] = cur[t] /\ seen'[t] = seen[t]
  BY <1>1, <1>3 DEF TypeOK, Busy
<1> QED BY <1>2, <1>3 DEF WorkIsOpen

\* Nothing changes for a message but the one let go of.
LEMMA LetGoHeard ==
  ASSUME TypeOK, HeardOnce, NEW s \in Senders, Busy(s), NEW l \in {"idle", "scan"}, LetGo(s, l),
         \A m \in Messages : m # cur[s] => status'[m] = status[m] /\ heard'[m] = heard[m],
         cur[s] \in Messages =>
           \/ heard'[cur[s]] = 1 /\ status'[cur[s]] = "sent"
           \/ /\ heard'[cur[s]] = 0 /\ status'[cur[s]] # "sent"
              /\ \A t \in Senders : t # s => ~HasAccepted(t, cur[s])
  PROVE  HeardOnce'
<1>1. pc' = [pc EXCEPT ![s] = l] /\ cur' = [cur EXCEPT ![s] = None] /\ outcome' = [outcome EXCEPT ![s] = None]
  BY DEF LetGo
<1>2. ASSUME NEW t \in Senders, NEW m \in Messages
      PROVE  HasAccepted(t, m)' <=> t # s /\ HasAccepted(t, m)
  BY <1>1 DEF TypeOK, HasAccepted
<1>3. ASSUME NEW m \in Messages, m # cur[s] PROVE ~HasAccepted(s, m)
  BY <1>3 DEF HasAccepted
<1>4. ASSUME NEW m \in Messages PROVE HeardOnce!(m)'
  <2>1. CASE m # cur[s]
    BY <1>2, <1>3, <2>1 DEF HeardOnce
  <2>2. CASE m = cur[s]
    BY <1>2, <2>2
  <2> QED BY <2>1, <2>2
<1> QED BY <1>4 DEF HeardOnce

\* What a working sender knows of its own message.
LEMMA WorkHeard ==
  ASSUME TypeOK, HeardOnce, OneSender, WorkIsOpen, NEW s \in Senders, Busy(s), cur[s] \in Messages
  PROVE  /\ heard[cur[s]] = IF HasAccepted(s, cur[s]) THEN 1 ELSE 0
         /\ \A t \in Senders : t # s => ~HasAccepted(t, cur[s])
<1>1. \A t \in Senders : t # s => ~HasAccepted(t, cur[s])
  BY OthersElsewhere DEF HasAccepted, Busy
<1>2. status[cur[s]] # "sent"
  BY DEF WorkIsOpen
<1> QED BY <1>1, <1>2 DEF HeardOnce

\* Every step preserves Inv.
LEMMA InvStep == ASSUME Inv, [Next]_vars PROVE Inv'
<1> USE LimitTypes
<1>w. ASSUME NEW s \in Senders, Busy(s) PROVE cur[s] \in Messages /\ claimLeft[cur[s]] > 0
  BY <1>w, WorkIsClaimed DEF Inv
<1>1. ASSUME NEW s \in Senders, StartTick(s) PROVE Inv'
  <2>1. TypeOK'
    BY <1>w, <1>1 DEF StartTick, dbVars, senderVars, Inv, TypeOK, Statuses, Outcomes, Due, FirstOf
  <2>2. OneSender'
    BY <1>w, <1>1 DEF StartTick, dbVars, senderVars, Inv, OneSender, Busy, TypeOK, Due, FirstOf
  <2>3. ClaimCovers'
    BY <1>w, <1>1 DEF StartTick, dbVars, senderVars, Inv, ClaimCovers, Busy, TypeOK, Due, FirstOf
  <2>4. WorkIsOpen'
    BY <1>w, <1>1 DEF StartTick, dbVars, senderVars, Inv, WorkIsOpen, Busy, TypeOK, Due, FirstOf
  <2>5. HeardOnce'
    BY <1>w, <1>1 DEF StartTick, dbVars, senderVars, Inv, HeardOnce, HasAccepted, TypeOK, Due, FirstOf
  <2>6. TriesBounded'
    BY <1>w, <1>1 DEF StartTick, dbVars, senderVars, Inv, TriesBounded, TypeOK, Due, FirstOf
  <2> QED BY <2>1, <2>2, <2>3, <2>4, <2>5, <2>6 DEF Inv
<1>2. ASSUME NEW s \in Senders, EndTick(s) PROVE Inv'
  <2>1. TypeOK'
    BY <1>w, <1>2 DEF EndTick, dbVars, senderVars, Inv, TypeOK, Statuses, Outcomes
  <2>2. OneSender'
    BY <1>w, <1>2 DEF EndTick, dbVars, senderVars, Inv, OneSender, Busy, TypeOK
  <2>3. ClaimCovers'
    BY <1>w, <1>2 DEF EndTick, dbVars, senderVars, Inv, ClaimCovers, Busy, TypeOK
  <2>4. WorkIsOpen'
    BY <1>w, <1>2 DEF EndTick, dbVars, senderVars, Inv, WorkIsOpen, Busy, TypeOK
  <2>5. HeardOnce'
    BY <1>w, <1>2 DEF EndTick, dbVars, senderVars, Inv, HeardOnce, HasAccepted, TypeOK
  <2>6. TriesBounded'
    BY <1>w, <1>2 DEF EndTick, dbVars, senderVars, Inv, TriesBounded, TypeOK
  <2> QED BY <2>1, <2>2, <2>3, <2>4, <2>5, <2>6 DEF Inv
<1>3. ASSUME NEW s \in Senders, NEW m \in Messages, Claim(s, m) PROVE Inv'
  <2>1. TypeOK'
    BY <1>w, <1>3 DEF Claim, dbVars, senderVars, Inv, TypeOK, Statuses, Outcomes, ComesTo, Claimable, Sendable, Unclaimed
  <2>2. OneSender'
    BY <1>w, <1>3 DEF Claim, dbVars, senderVars, Inv, OneSender, Busy, TypeOK, ComesTo, Claimable, Sendable, Unclaimed
  <2>3. ClaimCovers'
    <3>1. SendClaim > left[s] + ResultTimeout
      BY BudgetFits DEF Inv, TypeOK
    <3>2. ASSUME NEW t \in Senders, t # s, Busy(t) PROVE cur[t] # m
      BY <1>w, <1>3, <3>2 DEF Claim, Claimable, Unclaimed
    <3> QED BY <1>3, <3>1, <3>2 DEF Claim, Inv, TypeOK, ClaimCovers, Busy
  <2>4. WorkIsOpen'
    BY <1>w, <1>3 DEF Claim, dbVars, senderVars, Inv, WorkIsOpen, Busy, TypeOK, ComesTo, Claimable, Sendable, Unclaimed
  <2>5. HeardOnce'
    BY <1>w, <1>3 DEF Claim, dbVars, senderVars, Inv, HeardOnce, HasAccepted, TypeOK, ComesTo, Claimable, Sendable, Unclaimed
  <2>6. TriesBounded'
    BY <1>w, <1>3 DEF Claim, dbVars, senderVars, Inv, TriesBounded, TypeOK, ComesTo, Claimable, Sendable, Unclaimed
  <2> QED BY <2>1, <2>2, <2>3, <2>4, <2>5, <2>6 DEF Inv
<1>4. ASSUME NEW s \in Senders, NEW m \in Messages, SkipClaim(s, m) PROVE Inv'
  <2>1. TypeOK'
    BY <1>w, <1>4 DEF SkipClaim, dbVars, senderVars, Inv, TypeOK, Statuses, Outcomes, ComesTo, Claimable, Sendable, Unclaimed
  <2>2. OneSender'
    BY <1>w, <1>4 DEF SkipClaim, dbVars, senderVars, Inv, OneSender, Busy, TypeOK, ComesTo, Claimable, Sendable, Unclaimed
  <2>3. ClaimCovers'
    BY <1>w, <1>4 DEF SkipClaim, dbVars, senderVars, Inv, ClaimCovers, Busy, TypeOK, ComesTo, Claimable, Sendable, Unclaimed
  <2>4. WorkIsOpen'
    BY <1>w, <1>4 DEF SkipClaim, dbVars, senderVars, Inv, WorkIsOpen, Busy, TypeOK, ComesTo, Claimable, Sendable, Unclaimed
  <2>5. HeardOnce'
    BY <1>w, <1>4 DEF SkipClaim, dbVars, senderVars, Inv, HeardOnce, HasAccepted, TypeOK, ComesTo, Claimable, Sendable, Unclaimed
  <2>6. TriesBounded'
    BY <1>w, <1>4 DEF SkipClaim, dbVars, senderVars, Inv, TriesBounded, TypeOK, ComesTo, Claimable, Sendable, Unclaimed
  <2> QED BY <2>1, <2>2, <2>3, <2>4, <2>5, <2>6 DEF Inv
<1>5. ASSUME NEW s \in Senders, Abandon(s) PROVE Inv'
  <2>1. TypeOK'
    BY <1>w, <1>5 DEF Abandon, dbVars, senderVars, Inv, TypeOK, Statuses, Outcomes, LetGo
  <2>2. OneSender'
    BY <1>w, <1>5 DEF Abandon, dbVars, senderVars, Inv, OneSender, Busy, TypeOK, LetGo
  <2>3. ClaimCovers'
    BY <1>w, <1>5 DEF Abandon, dbVars, senderVars, Inv, ClaimCovers, Busy, TypeOK, LetGo
  <2>4. WorkIsOpen'
    BY <1>w, <1>5 DEF Abandon, dbVars, senderVars, Inv, WorkIsOpen, Busy, TypeOK, LetGo
  <2>5. HeardOnce'
    BY <1>w, <1>5 DEF Abandon, dbVars, senderVars, Inv, HeardOnce, HasAccepted, TypeOK, LetGo
  <2>6. TriesBounded'
    BY <1>w, <1>5 DEF Abandon, dbVars, senderVars, Inv, TriesBounded, TypeOK, LetGo
  <2> QED BY <2>1, <2>2, <2>3, <2>4, <2>5, <2>6 DEF Inv
<1>6. ASSUME NEW s \in Senders, FailUnsent(s) PROVE Inv'
  <2>a. Busy(s) /\ cur[s] \in Messages /\ ~HasAccepted(s, cur[s]) /\ LetGo(s, "scan")
    BY <1>w, <1>6 DEF FailUnsent, Busy, HasAccepted
  <2>b. /\ \A m \in Messages : m # cur[s] =>
              claimLeft'[m] = claimLeft[m] /\ status'[m] = status[m] /\ tries'[m] = tries[m]
        /\ heard' = heard /\ (status'[cur[s]] = "failed" \/ status' = status)
    BY <1>6, <2>a DEF FailUnsent, Finish, dbVars, Inv, TypeOK
  <2>c. heard[cur[s]] = 0 /\ status[cur[s]] # "sent" /\ \A t \in Senders : t # s => ~HasAccepted(t, cur[s])
    BY <2>a, WorkHeard DEF Inv, WorkIsOpen
  <2>d. /\ status' \in [Messages -> Statuses]
        /\ claimLeft' \in [Messages -> Nat] /\ waitLeft' \in [Messages -> Nat]
        /\ tries' \in [Messages -> Nat]
        /\ UNCHANGED <<channel, hold, enabled, heard, batch>>
    BY <1>6 DEF FailUnsent, dbVars, Inv, TypeOK, Statuses, Finish
  <2>1. TypeOK'
    BY <1>w, <2>a, <2>d DEF Inv, TypeOK, LetGo
  <2>2. OneSender'
    BY <2>a DEF Inv, OneSender, Busy, TypeOK, LetGo
  <2>3. ClaimCovers'
    BY <2>a, <2>b, LetGoCovers DEF Inv
  <2>4. WorkIsOpen'
    BY <2>a, <2>b, LetGoOpen DEF Inv
  <2>5. HeardOnce'
    BY <2>a, <2>b, <2>c, LetGoHeard DEF Inv
  <2>6. TriesBounded'
    BY <1>w, <1>6 DEF FailUnsent, dbVars, senderVars, Inv, TriesBounded, TypeOK, LetGo, Finish
  <2> QED BY <2>1, <2>2, <2>3, <2>4, <2>5, <2>6 DEF Inv
<1>7. ASSUME NEW s \in Senders, Deliver(s) PROVE Inv'
  <2>1. TypeOK'
    <3>1. heard' \in [Messages -> Int]
      BY <1>w, <1>7 DEF Deliver, Busy, Inv, TypeOK
    <3>2. outcome' \in [Senders -> Outcomes \cup {None}]
      BY <1>7 DEF Deliver, Inv, TypeOK
    <3> QED BY <1>7, <3>1, <3>2 DEF Deliver, dbVars, Inv, TypeOK
  <2>2. OneSender'
    BY <1>w, <1>7 DEF Deliver, dbVars, senderVars, Inv, OneSender, Busy, TypeOK
  <2>3. ClaimCovers'
    BY <1>w, <1>7 DEF Deliver, dbVars, senderVars, Inv, ClaimCovers, Busy, TypeOK
  <2>4. WorkIsOpen'
    BY <1>w, <1>7 DEF Deliver, dbVars, senderVars, Inv, WorkIsOpen, Busy, TypeOK
  <2>5. HeardOnce'
    <3>1. Busy(s) /\ cur[s] \in Messages /\ ~HasAccepted(s, cur[s]) /\ status[cur[s]] # "sent"
      BY <1>w, <1>7 DEF Deliver, Busy, HasAccepted, Inv, WorkIsOpen
    <3>2. heard[cur[s]] = 0 /\ \A t \in Senders : ~HasAccepted(t, cur[s])
      BY <3>1, WorkHeard DEF Inv
    <3>3. PICK o \in Outcomes : /\ outcome' = [outcome EXCEPT ![s] = o]
                             /\ heard' = IF o = "accepted" THEN [heard EXCEPT ![cur[s]] = @ + 1] ELSE heard
      BY <1>7 DEF Deliver
    <3>4. cur' = cur /\ status' = status /\ pc' = [pc EXCEPT ![s] = "record"]
      BY <1>7 DEF Deliver, dbVars
    <3>5. ASSUME NEW t \in Senders, NEW m \in Messages
          PROVE  HasAccepted(t, m)' <=> HasAccepted(t, m) \/ (t = s /\ m = cur[s] /\ o = "accepted")
      BY <3>2, <3>3, <3>4 DEF HasAccepted, Inv, TypeOK
    <3>6. ASSUME NEW m \in Messages PROVE HeardOnce!(m)'
      <4>1. CASE m = cur[s] /\ o = "accepted"
        <5>1. heard'[m] = 1
          BY <3>2, <3>3, <4>1 DEF Inv, TypeOK
        <5> QED BY <3>5, <4>1, <5>1
      <4>2. CASE ~(m = cur[s] /\ o = "accepted")
        <5>1. heard'[m] = heard[m]
          BY <3>3, <4>2 DEF Inv, TypeOK
        <5> QED BY <3>4, <3>5, <4>2, <5>1 DEF Inv, HeardOnce
      <4> QED BY <4>1, <4>2
    <3> QED BY <3>6 DEF HeardOnce
  <2>6. TriesBounded'
    BY <1>w, <1>7 DEF Deliver, dbVars, senderVars, Inv, TriesBounded, TypeOK
  <2> QED BY <2>1, <2>2, <2>3, <2>4, <2>5, <2>6 DEF Inv
<1>8. ASSUME NEW s \in Senders, Record(s) PROVE Inv'
  <2>a. Busy(s) /\ cur[s] \in Messages /\ LetGo(s, "scan") /\ UNCHANGED <<heard, batch>>
    BY <1>w, <1>8 DEF Record, Busy
  <2>b. \/ MayRetry(seen[s], outcome[s]) /\ RetryLater(cur[s], seen[s])
        \/ Finish(cur[s], FinalStatus(outcome[s]))
    BY <1>8 DEF Record
  <2>c. \A m \in Messages : m # cur[s] =>
          claimLeft'[m] = claimLeft[m] /\ status'[m] = status[m] /\ tries'[m] = tries[m]
    BY <2>a, <2>b DEF RetryLater, Finish, Inv, TypeOK
  <2>d. /\ status' \in [Messages -> Statuses]
        /\ claimLeft' \in [Messages -> Nat] /\ waitLeft' \in [Messages -> Nat]
        /\ tries' \in [Messages -> Nat]
        /\ UNCHANGED <<channel, hold, enabled>>
    <3>1. CASE RetryLater(cur[s], seen[s])
      <4>1. Wait(seen[s]) \in Nat /\ tries[cur[s]] + 1 \in Nat
        BY <2>a, WaitType DEF Inv, TypeOK
      <4>2. UNCHANGED <<status, channel, hold, enabled>> /\ status \in [Messages -> Statuses]
        BY <3>1 DEF RetryLater, Inv, TypeOK
      <4>3. tries' \in [Messages -> Nat]
        BY <3>1, <4>1 DEF RetryLater, Inv, TypeOK
      <4>4. claimLeft' \in [Messages -> Nat] /\ waitLeft' \in [Messages -> Nat]
        BY <3>1, <4>1 DEF RetryLater, Inv, TypeOK
      <4> QED BY <4>2, <4>3, <4>4
    <3>2. CASE Finish(cur[s], FinalStatus(outcome[s]))
      <4>1. FinalStatus(outcome[s]) \in Statuses
        BY DEF FinalStatus, Statuses
      <4> QED BY <3>2, <4>1 DEF Finish, Inv, TypeOK
    <3> QED BY <2>b, <3>1, <3>2
  <2>1. TypeOK'
    BY <1>w, <2>a, <2>d DEF Inv, TypeOK, LetGo
  <2>2. OneSender'
    BY <2>a DEF Inv, OneSender, Busy, TypeOK, LetGo
  <2>3. ClaimCovers'
    BY <2>a, <2>c, LetGoCovers DEF Inv
  <2>4. WorkIsOpen'
    BY <2>a, <2>c, LetGoOpen DEF Inv
  <2>5. HeardOnce'
    <3>1. /\ heard[cur[s]] = IF outcome[s] = "accepted" THEN 1 ELSE 0
          /\ status[cur[s]] # "sent" /\ \A t \in Senders : t # s => ~HasAccepted(t, cur[s])
      BY <1>8, <2>a, WorkHeard DEF Record, HasAccepted, Inv, WorkIsOpen
    <3>2. (status'[cur[s]] = "sent") <=> (outcome[s] = "accepted")
      BY <2>a, <2>b, <3>1 DEF MayRetry, RetryLater, Finish, FinalStatus, Inv, TypeOK
    <3> QED BY <2>a, <2>c, <3>1, <3>2, LetGoHeard DEF Inv
  <2>6. TriesBounded'
    <3>1. CASE MayRetry(seen[s], outcome[s]) /\ RetryLater(cur[s], seen[s])
      <4>1. seen[s] = tries[cur[s]]
        BY <2>a DEF Inv, WorkIsOpen
      <4> QED BY <2>a, <3>1, <4>1 DEF MayRetry, RetryLater, Inv, TypeOK, TriesBounded
    <3>2. CASE Finish(cur[s], FinalStatus(outcome[s]))
      BY <2>a, <3>2 DEF Finish, Inv, TypeOK, TriesBounded
    <3> QED BY <2>b, <3>1, <3>2
  <2> QED BY <2>1, <2>2, <2>3, <2>4, <2>5, <2>6 DEF Inv
<1>9. ASSUME NEW s \in Senders, RecordError(s) PROVE Inv'
  <2>1. TypeOK'
    <3>1. heard' \in [Messages -> Int]
      BY <1>w, <1>9 DEF RecordError, Forget, Busy, Inv, TypeOK
    <3> QED BY <1>9, <3>1 DEF RecordError, LetGo, dbVars, Inv, TypeOK
  <2>2. OneSender'
    BY <1>w, <1>9 DEF RecordError, dbVars, senderVars, Inv, OneSender, Busy, TypeOK, LetGo, Forget
  <2>3. ClaimCovers'
    BY <1>w, <1>9 DEF RecordError, dbVars, senderVars, Inv, ClaimCovers, Busy, TypeOK, LetGo, Forget
  <2>4. WorkIsOpen'
    BY <1>w, <1>9 DEF RecordError, dbVars, senderVars, Inv, WorkIsOpen, Busy, TypeOK, LetGo, Forget
  <2>5. HeardOnce'
    <3>1. Busy(s) /\ cur[s] \in Messages /\ LetGo(s, "scan") /\ status' = status
      BY <1>w, <1>9 DEF RecordError, Busy, dbVars
    <3>2. status[cur[s]] # "sent" /\ \A t \in Senders : t # s => ~HasAccepted(t, cur[s])
      BY <3>1, WorkHeard DEF Inv, WorkIsOpen
    <3>3. heard[cur[s]] = IF outcome[s] = "accepted" THEN 1 ELSE 0
      BY <1>9, <3>1, WorkHeard DEF RecordError, HasAccepted, Inv
    <3>4. heard'[cur[s]] = 0 /\ \A m \in Messages : m # cur[s] => heard'[m] = heard[m]
      BY <1>9, <3>1, <3>3 DEF RecordError, Forget, Inv, TypeOK
    <3> QED BY <3>1, <3>2, <3>4, LetGoHeard DEF Inv
  <2>6. TriesBounded'
    BY <1>w, <1>9 DEF RecordError, dbVars, senderVars, Inv, TriesBounded, TypeOK, LetGo, Forget
  <2> QED BY <2>1, <2>2, <2>3, <2>4, <2>5, <2>6 DEF Inv
<1>10. ASSUME NEW s \in Senders, Crash(s) PROVE Inv'
  <2>1. TypeOK'
    <3>1. heard' \in [Messages -> Int]
      BY <1>w, <1>10 DEF Crash, Forget, Busy, Inv, TypeOK
    <3> QED BY <1>10, <3>1 DEF Crash, LetGo, dbVars, Inv, TypeOK
  <2>2. OneSender'
    BY <1>w, <1>10 DEF Crash, dbVars, senderVars, Inv, OneSender, Busy, TypeOK, LetGo, Forget
  <2>3. ClaimCovers'
    BY <1>w, <1>10 DEF Crash, dbVars, senderVars, Inv, ClaimCovers, Busy, TypeOK, LetGo, Forget
  <2>4. WorkIsOpen'
    BY <1>w, <1>10 DEF Crash, dbVars, senderVars, Inv, WorkIsOpen, Busy, TypeOK, LetGo, Forget
  <2>5. HeardOnce'
    <3>0. LetGo(s, "idle") /\ status' = status
      BY <1>10 DEF Crash, dbVars
    <3>1. CASE Busy(s)
      <4>1. cur[s] \in Messages
        BY <1>w, <3>1
      <4>2. status[cur[s]] # "sent" /\ \A t \in Senders : t # s => ~HasAccepted(t, cur[s])
        BY <3>1, <4>1, WorkHeard DEF Inv, WorkIsOpen
      <4>3. heard[cur[s]] = IF pc[s] = "record" /\ outcome[s] = "accepted" THEN 1 ELSE 0
        BY <3>1, <4>1, WorkHeard DEF HasAccepted, Inv
      <4>4. heard'[cur[s]] = 0 /\ \A m \in Messages : m # cur[s] => heard'[m] = heard[m]
        BY <1>10, <4>1, <4>3 DEF Crash, Forget, Inv, TypeOK
      <4> QED BY <3>0, <3>1, <4>2, <4>4, LetGoHeard DEF Inv
    <3>2. CASE ~Busy(s)
      <4>1. heard' = heard
        BY <1>10, <3>2 DEF Crash, Forget, Busy
      <4>2. ASSUME NEW t \in Senders, NEW m \in Messages PROVE HasAccepted(t, m)' <=> HasAccepted(t, m)
        BY <3>0, <3>2 DEF LetGo, HasAccepted, Busy, Inv, TypeOK
      <4> QED BY <3>0, <4>1, <4>2 DEF Inv, HeardOnce
    <3> QED BY <3>1, <3>2
  <2>6. TriesBounded'
    BY <1>w, <1>10 DEF Crash, dbVars, senderVars, Inv, TriesBounded, TypeOK, LetGo, Forget
  <2> QED BY <2>1, <2>2, <2>3, <2>4, <2>5, <2>6 DEF Inv
<1>11. ASSUME NEW c \in Channels, ToggleChannel(c) PROVE Inv'
  <2>1. TypeOK'
    BY <1>w, <1>11 DEF ToggleChannel, dbVars, senderVars, Inv, TypeOK, Statuses, Outcomes
  <2>2. OneSender'
    BY <1>w, <1>11 DEF ToggleChannel, dbVars, senderVars, Inv, OneSender, Busy, TypeOK
  <2>3. ClaimCovers'
    BY <1>w, <1>11 DEF ToggleChannel, dbVars, senderVars, Inv, ClaimCovers, Busy, TypeOK
  <2>4. WorkIsOpen'
    BY <1>w, <1>11 DEF ToggleChannel, dbVars, senderVars, Inv, WorkIsOpen, Busy, TypeOK
  <2>5. HeardOnce'
    BY <1>w, <1>11 DEF ToggleChannel, dbVars, senderVars, Inv, HeardOnce, HasAccepted, TypeOK
  <2>6. TriesBounded'
    BY <1>w, <1>11 DEF ToggleChannel, dbVars, senderVars, Inv, TriesBounded, TypeOK
  <2> QED BY <2>1, <2>2, <2>3, <2>4, <2>5, <2>6 DEF Inv
<1>12. ASSUME NEW m \in Messages, NEW h \in {"none"} \cup Holds, SetHold(m, h) PROVE Inv'
  <2>1. TypeOK'
    BY <1>w, <1>12 DEF SetHold, dbVars, senderVars, Inv, TypeOK, Statuses, Outcomes
  <2>2. OneSender'
    BY <1>w, <1>12 DEF SetHold, dbVars, senderVars, Inv, OneSender, Busy, TypeOK
  <2>3. ClaimCovers'
    BY <1>w, <1>12 DEF SetHold, dbVars, senderVars, Inv, ClaimCovers, Busy, TypeOK
  <2>4. WorkIsOpen'
    BY <1>w, <1>12 DEF SetHold, dbVars, senderVars, Inv, WorkIsOpen, Busy, TypeOK
  <2>5. HeardOnce'
    BY <1>w, <1>12 DEF SetHold, dbVars, senderVars, Inv, HeardOnce, HasAccepted, TypeOK
  <2>6. TriesBounded'
    BY <1>w, <1>12 DEF SetHold, dbVars, senderVars, Inv, TriesBounded, TypeOK
  <2> QED BY <2>1, <2>2, <2>3, <2>4, <2>5, <2>6 DEF Inv
<1>13. ASSUME NEW m \in Messages, NEW c \in Channels \cup {None}, Move(m, c) PROVE Inv'
  <2>1. TypeOK'
    BY <1>w, <1>13 DEF Move, dbVars, senderVars, Inv, TypeOK, Statuses, Outcomes
  <2>2. OneSender'
    BY <1>w, <1>13 DEF Move, dbVars, senderVars, Inv, OneSender, Busy, TypeOK
  <2>3. ClaimCovers'
    BY <1>w, <1>13 DEF Move, dbVars, senderVars, Inv, ClaimCovers, Busy, TypeOK
  <2>4. WorkIsOpen'
    BY <1>w, <1>13 DEF Move, dbVars, senderVars, Inv, WorkIsOpen, Busy, TypeOK
  <2>5. HeardOnce'
    BY <1>w, <1>13 DEF Move, dbVars, senderVars, Inv, HeardOnce, HasAccepted, TypeOK
  <2>6. TriesBounded'
    BY <1>w, <1>13 DEF Move, dbVars, senderVars, Inv, TriesBounded, TypeOK
  <2> QED BY <2>1, <2>2, <2>3, <2>4, <2>5, <2>6 DEF Inv
<1>14. ASSUME NEW m \in Messages, Prune(m) PROVE Inv'
  <2>1. TypeOK'
    BY <1>w, <1>14 DEF Prune, dbVars, senderVars, Inv, TypeOK, Statuses, Outcomes
  <2>2. OneSender'
    BY <1>w, <1>14 DEF Prune, dbVars, senderVars, Inv, OneSender, Busy, TypeOK
  <2>3. ClaimCovers'
    BY <1>w, <1>14 DEF Prune, dbVars, senderVars, Inv, ClaimCovers, Busy, TypeOK
  <2>4. WorkIsOpen'
    BY <1>w, <1>14 DEF Prune, dbVars, senderVars, Inv, WorkIsOpen, Busy, TypeOK
  <2>5. HeardOnce'
    BY <1>w, <1>14 DEF Prune, dbVars, senderVars, Inv, HeardOnce, HasAccepted, TypeOK
  <2>6. TriesBounded'
    BY <1>w, <1>14 DEF Prune, dbVars, senderVars, Inv, TriesBounded, TypeOK
  <2> QED BY <2>1, <2>2, <2>3, <2>4, <2>5, <2>6 DEF Inv
<1>15. CASE Tick
  <2>1. TypeOK'
    BY <1>w, <1>15 DEF Tick, Less, Inv, TypeOK, Statuses, Outcomes
  <2>2. OneSender'
    BY <1>w, <1>15 DEF Tick, Less, Inv, OneSender, Busy, TypeOK
  <2>3. ClaimCovers'
    BY <1>w, <1>15 DEF Tick, Less, Inv, ClaimCovers, Busy, TypeOK
  <2>4. WorkIsOpen'
    BY <1>w, <1>15 DEF Tick, Less, Inv, WorkIsOpen, Busy, TypeOK
  <2>5. HeardOnce'
    BY <1>w, <1>15 DEF Tick, Less, Inv, HeardOnce, HasAccepted, TypeOK
  <2>6. TriesBounded'
    BY <1>w, <1>15 DEF Tick, Less, Inv, TriesBounded, TypeOK
  <2> QED BY <2>1, <2>2, <2>3, <2>4, <2>5, <2>6 DEF Inv
<1>16. CASE UNCHANGED vars
  BY <1>16 DEF vars, dbVars, senderVars, Inv, TypeOK, Statuses, Outcomes, OneSender, Busy, ClaimCovers, Busy, WorkIsOpen, Busy, HeardOnce, HasAccepted, TriesBounded
<1> QED
  BY <1>1, <1>2, <1>3, <1>4, <1>5, <1>6, <1>7, <1>8, <1>9, <1>10, <1>11, <1>12, <1>13, <1>14, <1>15, <1>16 DEF Next, Manage, Send, Fault

\* Inv always holds.
LEMMA Invariance == Spec => []Inv
BY InvInit, InvStep, PTL DEF Spec

\* The queue and its senders keep to their types.
THEOREM TypeCorrect == Spec => []TypeOK
<1>1. Inv => TypeOK
  BY DEF Inv
<1> QED BY <1>1, Invariance, PTL

\* A message has one sender at a time, however many processes there are.
THEOREM OneSenderAlways == Spec => []OneSender
<1>1. Inv => OneSender
  BY DEF Inv
<1> QED BY <1>1, Invariance, PTL

\* A message known to have been taken isn't handed to a server again, and is
\* shown as sent exactly when it was.
THEOREM SentOnceAndTrue == Spec => []SentOnce
<1>1. Inv => SentOnce
  BY DEF Inv, HeardOnce, HasAccepted, SentOnce, NotSentAgain, SentIsTrue, Working, Busy
<1> QED BY <1>1, Invariance, PTL

\* No message is left pending after its last try.
THEOREM TriesAreBounded == Spec => []TriesBounded
<1>1. Inv => TriesBounded
  BY DEF Inv
<1> QED BY <1>1, Invariance, PTL

\* Sent and bounced are final.
THEOREM ResultsStay == Spec => ResultStays
<1>1. ASSUME Inv, [Next]_vars, NEW m \in Messages, status[m] \in {"sent", "bounced"}
      PROVE  status'[m] = status[m]
  <2>1. \A s \in Senders : Busy(s) => cur[s] # m
    BY <1>1 DEF Inv, WorkIsOpen
  <2>2. ASSUME NEW s \in Senders, FailUnsent(s) \/ Record(s) PROVE status'[m] = status[m]
    BY <1>1, <2>1, <2>2 DEF FailUnsent, Record, RetryLater, Finish, Busy, dbVars, Inv, TypeOK
  <2>3. ASSUME NEW n \in Messages, NEW c \in Channels \cup {None}, Move(n, c) PROVE status'[m] = status[m]
    BY <1>1, <2>3 DEF Move, Inv, TypeOK
  <2> QED
    BY <1>1, <2>2, <2>3 DEF Next, Tick, Manage, Prune, Send, Fault, StartTick, EndTick, Deliver, Claim, SkipClaim,
       Abandon, RecordError, Crash, ToggleChannel, SetHold, vars, dbVars
<1>2. Inv /\ [Next]_vars => [\A m \in Messages : status[m] \in {"sent", "bounced"} => status'[m] = status[m]]_vars
  BY <1>1
<1> QED BY <1>2, Invariance, PTL DEF Spec, ResultStays
-----------------------------------------------------------------------------
\* The refinement: what a sender has in hand.
Hand(s) == [msg |-> cur[s], answer |-> outcome[s]]

\* A sender has an answer just while it is to record one.
AnswerFits == \A s \in Senders : pc[s] = "record" <=> outcome[s] # None

\* AnswerFits always holds.
LEMMA AnswersFit == Spec => []AnswerFits
<1>1. Init => AnswerFits
  BY DEF Init, AnswerFits
<1>2. Inv /\ AnswerFits /\ [Next]_vars => AnswerFits'
  <2> SUFFICES ASSUME Inv, AnswerFits, [Next]_vars PROVE AnswerFits'
    OBVIOUS
  <2>1. ASSUME NEW s \in Senders, NEW l \in {"idle", "scan"}, LetGo(s, l) PROVE AnswerFits'
    BY <2>1 DEF LetGo, AnswerFits, Inv, TypeOK
  <2>2. ASSUME NEW s \in Senders, Deliver(s) PROVE AnswerFits'
    <3>1. PICK o \in Outcomes : outcome' = [outcome EXCEPT ![s] = o]
      BY <2>2 DEF Deliver
    <3>2. o # None
      BY MailSendAssumption
    <3> QED BY <2>2, <3>1, <3>2 DEF Deliver, AnswerFits, Inv, TypeOK
  <2>3. ASSUME NEW s \in Senders, StartTick(s) \/ EndTick(s) \/ \E m \in Messages : Claim(s, m) \/ SkipClaim(s, m)
        PROVE  AnswerFits'
    BY <2>3 DEF StartTick, EndTick, Claim, SkipClaim, ComesTo, AnswerFits, Inv, TypeOK
  <2>4. ASSUME pc' = pc, outcome' = outcome PROVE AnswerFits'
    BY <2>4 DEF AnswerFits
  <2>5. ASSUME NEW s \in Senders, Record(s) \/ Fault(s) PROVE AnswerFits'
    BY <2>1, <2>5 DEF Record, Fault, Abandon, FailUnsent, RecordError, Crash
  <2>6. CASE Tick \/ Manage \/ (\E m \in Messages : Prune(m)) \/ UNCHANGED vars
    BY <2>4, <2>6 DEF Tick, Manage, ToggleChannel, SetHold, Move, Prune, vars, senderVars
  <2> QED BY <2>2, <2>3, <2>5, <2>6 DEF Next, Send
<1> QED BY <1>1, <1>2, Invariance, PTL DEF Spec

\* Nothing is taken up or put down.
LEMMA HandsSame ==
  ASSUME \A t \in Senders : Busy(t)' <=> Busy(t), UNCHANGED <<cur, outcome>>
  PROVE  InHand' = InHand
BY DEF InHand

\* A sender that lets go of its message puts down that one only.
LEMMA HandsLetGo ==
  ASSUME Inv, NEW s \in Senders, Busy(s), NEW l \in {"idle", "scan"}, LetGo(s, l)
  PROVE  Hand(s) \in InHand /\ InHand' = InHand \ {Hand(s)}
<1>1. Hand(s) \in InHand
  BY DEF InHand, Hand
<1>2. \A t \in Senders : Busy(t)' <=> Busy(t) /\ t # s
  BY DEF LetGo, Busy, Inv, TypeOK
<1>3. \A t \in Senders : t # s => cur'[t] = cur[t] /\ outcome'[t] = outcome[t]
  BY DEF LetGo, Inv, TypeOK
<1>4. \A t \in Senders : Busy(t) /\ t # s => Hand(t) # Hand(s)
  BY DEF Inv, OneSender, Hand
<1>5. InHand = {Hand(t) : t \in {u \in Senders : Busy(u)}}
  BY DEF InHand, Hand
<1>6. InHand' = {Hand(t) : t \in {u \in Senders : Busy(u) /\ u # s}}
  BY <1>2, <1>3 DEF InHand, Hand
<1> QED BY <1>1, <1>4, <1>5, <1>6

\* Every step of the queue is a step of the outbox, or none.
LEMMA StepRefines ==
  ASSUME Inv, AnswerFits, [Next]_vars
  PROVE  [Abstract!Next]_<<status, InHand>>
<1> USE LimitTypes
<1>w. ASSUME NEW s \in Senders, Busy(s) PROVE cur[s] \in Messages /\ claimLeft[cur[s]] > 0
  BY <1>w, WorkIsClaimed DEF Inv
<1>p. ASSUME NEW s \in Senders, Busy(s), NEW l \in {"idle", "scan"}, LetGo(s, l), status' = status
      PROVE  Abstract!Next
  <2>1. Hand(s) \in InHand /\ InHand' = InHand \ {Hand(s)}
    BY <1>p, HandsLetGo
  <2>2. Abstract!PutBack(Hand(s))
    BY <1>p, <2>1 DEF Abstract!PutBack
  <2> QED BY <2>1, <2>2 DEF Abstract!Next
<1>c. ASSUME NEW s \in Senders, Busy(s), LetGo(s, "scan"),
             Finish(cur[s], IF outcome[s] = None THEN "failed" ELSE FinalStatus(outcome[s]))
      PROVE  Abstract!Next
  <2>1. Hand(s) \in InHand /\ InHand' = InHand \ {Hand(s)}
    BY <1>c, HandsLetGo
  <2>2. None \notin Outcomes
    BY MailSendAssumption
  <2>3. Abstract!ResultOf(outcome[s]) = IF outcome[s] = None THEN "failed" ELSE FinalStatus(outcome[s])
    BY <2>2 DEF Abstract!ResultOf, FinalStatus, Outcomes
  <2>4. Abstract!Conclude(Hand(s))
    BY <1>c, <2>1, <2>3 DEF Abstract!Conclude, Finish, Hand
  <2> QED BY <2>1, <2>4 DEF Abstract!Next
<1>1. ASSUME NEW s \in Senders, NEW m \in Messages, Claim(s, m) PROVE Abstract!Next
  <2>1. status[m] = "pending" /\ status' = status /\ claimLeft[m] = 0
    BY <1>1 DEF Claim, Claimable, Sendable, Unclaimed
  <2>2. \A t \in Senders : Busy(t) => cur[t] # m
    BY <1>w, <2>1
  <2>3. /\ \A t \in Senders : Busy(t)' <=> Busy(t) \/ t = s
        /\ ~Busy(s) /\ outcome[s] = None /\ cur'[s] = m /\ outcome' = outcome
        /\ \A t \in Senders : t # s => cur'[t] = cur[t]
    BY <1>1 DEF Claim, ComesTo, Busy, Inv, TypeOK, AnswerFits
  <2>4. InHand' = InHand \cup {[msg |-> m, answer |-> None]}
    BY <2>3 DEF InHand
  <2>5. ~Abstract!Held(m)
    BY <2>2 DEF Abstract!Held, InHand
  <2> QED BY <2>1, <2>4, <2>5 DEF Abstract!Next, Abstract!TakeUp
<1>2. ASSUME NEW s \in Senders, Deliver(s) PROVE Abstract!Next
  <2>1. PICK o \in Outcomes : outcome' = [outcome EXCEPT ![s] = o]
    BY <1>2 DEF Deliver
  <2>2. /\ Busy(s) /\ outcome[s] = None /\ outcome'[s] = o /\ cur' = cur /\ status' = status
        /\ \A t \in Senders : (Busy(t)' <=> Busy(t)) /\ (t # s => outcome'[t] = outcome[t])
    BY <1>2, <2>1 DEF Deliver, Busy, dbVars, Inv, TypeOK, AnswerFits
  <2>3. \A t \in Senders : Busy(t) /\ t # s => Hand(t) # Hand(s)
    BY <2>2 DEF Inv, OneSender, Hand
  <2>4. Hand(s) \in InHand /\ InHand' = (InHand \ {Hand(s)}) \cup {[msg |-> cur[s], answer |-> o]}
    BY <2>2, <2>3 DEF InHand, Hand
  <2>5. Abstract!Answer(Hand(s), o) /\ o \in Abstract!Answers
    BY <2>1, <2>2, <2>4 DEF Abstract!Answer, Abstract!Answers, Outcomes, Hand
  <2> QED BY <2>4, <2>5 DEF Abstract!Next
<1>3. ASSUME NEW s \in Senders, Record(s) PROVE Abstract!Next
  <2>1. Busy(s) /\ LetGo(s, "scan") /\ outcome[s] # None
    BY <1>3 DEF Record, Busy, AnswerFits
  <2>2. CASE RetryLater(cur[s], seen[s])
    BY <2>1, <2>2, <1>p DEF RetryLater
  <2>3. CASE Finish(cur[s], FinalStatus(outcome[s]))
    BY <2>1, <2>3, <1>c
  <2> QED BY <1>3, <2>2, <2>3 DEF Record
<1>4. ASSUME NEW s \in Senders, FailUnsent(s) PROVE Abstract!Next
  <2>1. Busy(s) /\ LetGo(s, "scan") /\ outcome[s] = None
    BY <1>4 DEF FailUnsent, Busy, AnswerFits
  <2>2. CASE Finish(cur[s], "failed")
    BY <2>1, <2>2, <1>c
  <2>3. CASE UNCHANGED dbVars
    BY <2>1, <2>3, <1>p DEF dbVars
  <2> QED BY <1>4, <2>2, <2>3 DEF FailUnsent
<1>5. ASSUME NEW s \in Senders, Abandon(s) \/ RecordError(s) PROVE Abstract!Next
  BY <1>5, <1>p DEF Abandon, RecordError, Busy, dbVars
<1>6. ASSUME NEW s \in Senders, Crash(s) PROVE [Abstract!Next]_<<status, InHand>>
  <2>1. LetGo(s, "idle") /\ status' = status
    BY <1>6 DEF Crash, dbVars
  <2>2. CASE Busy(s)
    BY <2>1, <2>2, <1>p
  <2>3. CASE ~Busy(s)
    <3>1. \A t \in Senders : (Busy(t)' <=> Busy(t)) /\ (Busy(t) => cur'[t] = cur[t] /\ outcome'[t] = outcome[t])
      BY <2>1, <2>3 DEF LetGo, Busy, Inv, TypeOK
    <3>2. InHand' = InHand
      BY <3>1 DEF InHand
    <3> QED BY <2>1, <3>2
  <2> QED BY <2>2, <2>3
<1>7. ASSUME NEW m \in Messages, NEW c \in Channels \cup {None}, Move(m, c)
      PROVE  [Abstract!Next]_<<status, InHand>>
  <2>1. InHand' = InHand
    BY <1>7, HandsSame DEF Move, senderVars, Busy
  <2>2. CASE c = None /\ status[m] = "pending"
    <3>1. Abstract!Cancel(m)
      BY <1>7, <2>1, <2>2 DEF Move, Abstract!Cancel
    <3> QED BY <3>1 DEF Abstract!Next
  <2>3. CASE ~(c = None /\ status[m] = "pending")
    BY <1>7, <2>1, <2>3 DEF Move
  <2> QED BY <2>2, <2>3
<1>8. ASSUME NEW s \in Senders, StartTick(s) \/ EndTick(s) \/ \E m \in Messages : SkipClaim(s, m)
      PROVE  UNCHANGED <<status, InHand>>
  <2>1. status' = status /\ cur' = cur /\ outcome' = outcome
    BY <1>8 DEF StartTick, EndTick, SkipClaim, dbVars
  <2>2. \A t \in Senders : Busy(t)' <=> Busy(t)
    BY <1>8 DEF StartTick, EndTick, SkipClaim, Busy, Inv, TypeOK
  <2> QED BY <2>1, <2>2, HandsSame
<1>9. CASE \/ Tick \/ \E c \in Channels : ToggleChannel(c)
           \/ \E m \in Messages : Prune(m) \/ \E h \in {"none"} \cup Holds : SetHold(m, h)
           \/ UNCHANGED vars
  <2>1. UNCHANGED <<status, pc, cur, outcome>>
    BY <1>9 DEF Tick, ToggleChannel, Prune, SetHold, vars, dbVars, senderVars
  <2> QED BY <2>1, HandsSame DEF Busy
<1> QED BY <1>1, <1>2, <1>3, <1>4, <1>5, <1>6, <1>7, <1>8, <1>9 DEF Next, Manage, Send, Fault

\* However many processes send, and whatever fails, the queue keeps the outbox's
\* promise: nothing is taken up twice at once or after its result, and a result
\* is what the server answered to the one who had the message.
THEOREM Implements == Spec => SendsAsOne
<1>1. Init => Abstract!Init
  BY DEF Init, Abstract!Init, InHand, Busy
<1>2. Inv /\ AnswerFits /\ [Next]_vars => [Abstract!Next]_<<status, InHand>>
  BY StepRefines
<1> QED BY <1>1, <1>2, Invariance, AnswersFit, PTL DEF Spec, SendsAsOne, Abstract!Spec
=============================================================================

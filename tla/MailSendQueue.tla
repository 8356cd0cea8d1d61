---------------------------- MODULE MailSendQueue ----------------------------
(***************************************************************************)
(* The outbound mail queue of a comm channel                               *)
(* (server/internal/dom/comm/smtp.go: SMTPSender.RunOnce, claim,           *)
(* processOne, retryLater, recordResult).                                  *)
(*                                                                         *)
(* A queued message is a reply_body card whose delivery_status is pending. *)
(* Senders - one per channel in each kitpd process - read a batch of them, *)
(* claim each one for sendClaim in comm_send_attempt, hand it to the       *)
(* server, and record the result on a context of its own. Nothing but the  *)
(* claim keeps two processes from sending a message twice; a process may   *)
(* end, and a statement fail, between any two steps, while people disable  *)
(* accounts, delete and restore threads and move tasks to other projects.  *)
(*                                                                         *)
(* Deadlines are kept as ticks left (0: passed), so time needs no bound.   *)
(***************************************************************************)
EXTENDS Integers, Sequences, FiniteSets

CONSTANTS
  N,              \* messages are 1..N, in the order loadPending reads them
  Senders,        \* SMTPSender values: one per process and channel
  Channels,       \* comm_channel cards
  ChannelOf,      \* the channel of each sender
  BatchLimit,     \* loadPending's limit
  TickBudget,     \* sendTickBudget
  SendTimeout,    \* sendTimeout
  ResultTimeout,  \* resultTimeout
  SendClaim,      \* sendClaim
  MaxAttempts,    \* maxSendAttempts
  Backoff,        \* sendBackoff
  Holds,          \* how a message may be held back: "deleted", itself or with
                  \* its thread, or "above", by a card above or its area
  None            \* no channel, no message, no result

Messages == 1..N
Outcomes == {"accepted", "bounce", "transient", "no_way_out"}

ASSUME MailSendAssumption ==
  /\ N \in Nat /\ BatchLimit \in Nat
  /\ ChannelOf \in [Senders -> Channels]
  /\ None \notin Channels /\ None \notin Messages /\ None \notin Outcomes
  /\ {TickBudget, SendTimeout, ResultTimeout, SendClaim} \subseteq Nat
  /\ MaxAttempts \in Nat \ {0}
  /\ Backoff \in Seq(Nat) /\ Backoff # <<>>

\* A sender's hold on a message, its whole tick and the write of its result,
\* ends before its claim does.
ASSUME ClaimOutlastsSend == TickBudget + ResultTimeout < SendClaim

VARIABLES
  \* the database
  status,     \* delivery_status of each message
  channel,    \* the channel_ref of its thread, or None
  hold,       \* why it waits: its card is deleted, or something above it is off
  enabled,    \* channels whose channel_status is enabled
  claimLeft,  \* comm_send_attempt.claimed_until (0: NULL or passed)
  waitLeft,   \* comm_send_attempt.next_attempt_at
  tries,      \* comm_send_attempt.attempts
  \* the senders
  pc,
  batch,      \* the messages it read and has yet to come to
  cur,        \* the one it has claimed
  left,       \* of its tick's budget
  resultLeft, \* of its result's
  seen,       \* the attempts its claim returned
  outcome,    \* what Deliver returned
  \* ghost
  heard       \* times the server took the message and kitp knows it did

dbVars == <<status, channel, hold, enabled, claimLeft, waitLeft, tries>>
senderVars == <<pc, batch, cur, left, resultLeft, seen, outcome>>
vars == <<dbVars, senderVars, heard>>

Statuses == {"pending", "sent", "bounced", "failed"}

\* Between its claim of a message and the record of its result.
Busy(s) == pc[s] \in {"build", "record"}
Working(s, m) == Busy(s) /\ cur[s] = m

Init ==
  /\ status = [m \in Messages |-> "pending"]
  /\ channel \in [Messages -> Channels]
  /\ hold = [m \in Messages |-> "none"]
  /\ enabled = Channels
  /\ claimLeft = [m \in Messages |-> 0]
  /\ waitLeft = [m \in Messages |-> 0]
  /\ tries = [m \in Messages |-> 0]
  /\ pc = [s \in Senders |-> "idle"]
  /\ batch = [s \in Senders |-> {}]
  /\ cur = [s \in Senders |-> None]
  /\ left = [s \in Senders |-> 0]
  /\ resultLeft = [s \in Senders |-> 0]
  /\ seen = [s \in Senders |-> 0]
  /\ outcome = [s \in Senders |-> None]
  /\ heard = [m \in Messages |-> 0]
-----------------------------------------------------------------------------
\* What both loadPending and claim require of the message itself.
Sendable(m, c) ==
  status[m] = "pending" /\ channel[m] = c /\ hold[m] = "none" /\ c \in enabled

\* Mutant of Unclaimed: only the backoff is looked at.
UnclaimedByBackoff(m) == waitLeft[m] = 0

\* What both require of its comm_send_attempt row.
Unclaimed(m) == claimLeft[m] = 0 /\ waitLeft[m] = 0

\* Mutant of Due: loadPending also reads the messages that wait on a deleted card
\* or an area that is off, which claim then refuses.
DueHeldToo(c) == {m \in Messages : status[m] = "pending" /\ channel[m] = c /\ c \in enabled /\ Unclaimed(m)}

Due(c) == {m \in Messages : Sendable(m, c) /\ Unclaimed(m)}

\* ORDER BY rb.id LIMIT :limit.
FirstOf(S, k) == {m \in S : Cardinality({n \in S : n <= m}) <= k}

\* RunOnce: the channel is enabled and something is due. (A tick that finds
\* nothing changes nothing.)
StartTick(s) ==
  /\ pc[s] = "idle"
  /\ Due(ChannelOf[s]) # {}
  /\ batch' = [batch EXCEPT ![s] = FirstOf(Due(ChannelOf[s]), BatchLimit)]
  /\ left' = [left EXCEPT ![s] = TickBudget]
  /\ pc' = [pc EXCEPT ![s] = "scan"]
  /\ UNCHANGED <<dbVars, cur, resultLeft, seen, outcome, heard>>

\* RunOnce: the batch is done, or a whole send no longer fits the budget.
EndTick(s) ==
  /\ pc[s] = "scan"
  /\ batch[s] = {} \/ left[s] < SendTimeout
  /\ batch' = [batch EXCEPT ![s] = {}]
  /\ pc' = [pc EXCEPT ![s] = "idle"]
  /\ UNCHANGED <<dbVars, cur, left, resultLeft, seen, outcome, heard>>

\* Mutant of Claimable: the claim looks only at its own table, not again at
\* the message.
ClaimableUnseen(m, c) == Unclaimed(m)

Claimable(m, c) == Sendable(m, c) /\ Unclaimed(m)

\* RunOnce comes to the next message of the batch, with a whole send's time left.
ComesTo(s, m) ==
  /\ pc[s] = "scan" /\ left[s] >= SendTimeout
  /\ m \in batch[s] /\ \A n \in batch[s] : m <= n

\* claim: the message is still as loadPending chose it and nobody holds it.
Claim(s, m) ==
  /\ ComesTo(s, m)
  /\ Claimable(m, ChannelOf[s])
  /\ claimLeft' = [claimLeft EXCEPT ![m] = SendClaim]
  /\ seen' = [seen EXCEPT ![s] = tries[m]]
  /\ cur' = [cur EXCEPT ![s] = m]
  /\ batch' = [batch EXCEPT ![s] = @ \ {m}]
  /\ pc' = [pc EXCEPT ![s] = "build"]
  /\ UNCHANGED <<status, channel, hold, enabled, waitLeft, tries, left, resultLeft, outcome, heard>>

\* claim answers no, or fails - before or after it took effect.
SkipClaim(s, m) ==
  /\ ComesTo(s, m)
  /\ \/ UNCHANGED claimLeft
     \/ /\ Claimable(m, ChannelOf[s])
        /\ claimLeft' = [claimLeft EXCEPT ![m] = SendClaim]
  /\ batch' = [batch EXCEPT ![s] = @ \ {m}]
  /\ UNCHANGED <<status, channel, hold, enabled, waitLeft, tries, pc, cur, left, resultLeft, seen, outcome, heard>>

\* processOne is through with the message, one way or another.
LetGo(s, label) ==
  /\ pc' = [pc EXCEPT ![s] = label]
  /\ cur' = [cur EXCEPT ![s] = None]
  /\ outcome' = [outcome EXCEPT ![s] = None]
  /\ resultLeft' = [resultLeft EXCEPT ![s] = 0]
  /\ seen' = [seen EXCEPT ![s] = 0]
  /\ UNCHANGED left

\* processOne can't read the attachment sizes: it returns, claim and all.
Abandon(s) ==
  /\ pc[s] = "build"
  /\ LetGo(s, "scan") /\ UNCHANGED batch
  /\ UNCHANGED <<dbVars, heard>>

\* recordResult: the status, and the comm_send_attempt row goes.
Finish(m, st) ==
  /\ status' = [status EXCEPT ![m] = st]
  /\ claimLeft' = [claimLeft EXCEPT ![m] = 0]
  /\ waitLeft' = [waitLeft EXCEPT ![m] = 0]
  /\ tries' = [tries EXCEPT ![m] = 0]
  /\ UNCHANGED <<channel, hold, enabled>>

\* processOne: attachments too large or unreadable. recordFailure's own failure
\* is only logged, and leaves the claim.
FailUnsent(s) ==
  /\ pc[s] = "build"
  /\ Finish(cur[s], "failed") \/ UNCHANGED dbVars
  /\ LetGo(s, "scan") /\ UNCHANGED batch
  /\ UNCHANGED heard

\* Deliver: the server's answer, as the sender sees it. An answer that never
\* comes is transient, whether or not the server took the message; one taken
\* but for some refused recipients counts as accepted.
Deliver(s) ==
  /\ pc[s] = "build"
  /\ \E o \in Outcomes :
       /\ outcome' = [outcome EXCEPT ![s] = o]
       /\ heard' = IF o = "accepted"
                     THEN [heard EXCEPT ![cur[s]] = @ + 1] ELSE heard
  /\ resultLeft' = [resultLeft EXCEPT ![s] = ResultTimeout]
  /\ pc' = [pc EXCEPT ![s] = "record"]
  /\ UNCHANGED <<dbVars, batch, cur, left, seen>>

\* sendBackoff[min(attempts, len - 1)].
Wait(n) == Backoff[IF n < Len(Backoff) THEN n + 1 ELSE Len(Backoff)]

\* retryLater: the claim is dropped, the try counted, the backoff starts.
RetryLater(m, n) ==
  /\ claimLeft' = [claimLeft EXCEPT ![m] = 0]
  /\ tries' = [tries EXCEPT ![m] = @ + 1]
  /\ waitLeft' = [waitLeft EXCEPT ![m] = Wait(n)]
  /\ UNCHANGED <<status, channel, hold, enabled>>

\* classifySendResult and the choice between a retry and the last try.
FinalStatus(o) == CASE o = "accepted" -> "sent" [] o = "bounce" -> "bounced" [] OTHER -> "failed"

\* Mutant of MayRetry: the last try is retried too.
RetryOnceMore(n, o) == o = "transient" /\ n < MaxAttempts

MayRetry(n, o) == o = "transient" /\ n + 1 < MaxAttempts

\* processOne: the result is written.
Record(s) ==
  /\ pc[s] = "record"
  /\ LET m == cur[s] IN
       IF MayRetry(seen[s], outcome[s]) THEN RetryLater(m, seen[s]) ELSE Finish(m, FinalStatus(outcome[s]))
  /\ LetGo(s, "scan") /\ UNCHANGED batch
  /\ UNCHANGED heard

\* The result is lost with its sender.
Forget(s) ==
  heard' = IF pc[s] = "record" /\ outcome[s] = "accepted"
             THEN [heard EXCEPT ![cur[s]] = @ - 1] ELSE heard

\* The write of the result fails: the claim stays until it runs out.
RecordError(s) ==
  /\ pc[s] = "record"
  /\ Forget(s)
  /\ LetGo(s, "scan") /\ UNCHANGED batch
  /\ UNCHANGED dbVars

\* kitpd ends.
Crash(s) ==
  /\ pc[s] # "idle"
  /\ Forget(s)
  /\ LetGo(s, "idle")
  /\ batch' = [batch EXCEPT ![s] = {}]
  /\ UNCHANGED dbVars
-----------------------------------------------------------------------------
\* An account is paused, resumed or disabled by its faults.
ToggleChannel(c) ==
  /\ enabled' = IF c \in enabled THEN enabled \ {c} ELSE enabled \cup {c}
  /\ UNCHANGED <<status, channel, hold, claimLeft, waitLeft, tries, senderVars, heard>>

\* The message or its thread is deleted or restored; a card above it is, or
\* its area is switched off or on.
SetHold(m, h) ==
  /\ hold[m] # h
  /\ hold' = [hold EXCEPT ![m] = h]
  /\ UNCHANGED <<status, channel, enabled, claimLeft, waitLeft, tries, senderVars, heard>>

\* Mutant of Move: whatever the thread's messages have come to, they fail.
MoveFailsAll(m, c) ==
  /\ channel[m] # c
  /\ channel' = [channel EXCEPT ![m] = c]
  /\ status' = IF c = None THEN [status EXCEPT ![m] = "failed"] ELSE status
  /\ UNCHANGED <<hold, enabled, claimLeft, waitLeft, tries, senderVars, heard>>

\* task.move: the thread sends from the new project's account; with none, what
\* is queued on it fails.
Move(m, c) ==
  /\ channel[m] # c
  /\ channel' = [channel EXCEPT ![m] = c]
  /\ status' = IF c = None /\ status[m] = "pending" THEN [status EXCEPT ![m] = "failed"] ELSE status
  /\ UNCHANGED <<hold, enabled, claimLeft, waitLeft, tries, senderVars, heard>>

\* Mutant of Prune: it drops the claim of a sender that has the message in hand.
PruneHeld(m) ==
  /\ status[m] # "pending" \/ hold[m] = "deleted"
  /\ claimLeft' = [claimLeft EXCEPT ![m] = 0]
  /\ waitLeft' = [waitLeft EXCEPT ![m] = 0]
  /\ tries' = [tries EXCEPT ![m] = 0]
  /\ UNCHANGED <<status, channel, hold, enabled, senderVars, heard>>

\* The retention job drops the attempts of a message nobody holds and that no
\* longer waits to go.
Prune(m) ==
  /\ claimLeft[m] = 0
  /\ status[m] # "pending" \/ hold[m] = "deleted"
  /\ waitLeft' = [waitLeft EXCEPT ![m] = 0]
  /\ tries' = [tries EXCEPT ![m] = 0]
  /\ UNCHANGED <<status, channel, hold, enabled, claimLeft, senderVars, heard>>

\* Mutant of Less: a deadline runs on below zero.
LessUnfloored(n) == n - 1

Less(n) == IF n > 0 THEN n - 1 ELSE 0

\* A tick passes. Every context a sender works on has a deadline: the tick's
\* budget until the server has answered, the result's own after.
Tick ==
  /\ \A s \in Senders : pc[s] \in {"scan", "build"} => left[s] > 0
  /\ \A s \in Senders : pc[s] = "record" => resultLeft[s] > 0
  /\ claimLeft' = [m \in Messages |-> Less(claimLeft[m])]
  /\ waitLeft' = [m \in Messages |-> Less(waitLeft[m])]
  /\ left' = [s \in Senders |-> Less(left[s])]
  /\ resultLeft' = [s \in Senders |-> Less(resultLeft[s])]
  /\ UNCHANGED <<status, channel, hold, enabled, tries, pc, batch, cur, seen, outcome, heard>>

Send(s) ==
  \/ StartTick(s) \/ EndTick(s) \/ Deliver(s) \/ Record(s)
  \/ \E m \in Messages : Claim(s, m) \/ SkipClaim(s, m)
Fault(s) == Abandon(s) \/ FailUnsent(s) \/ RecordError(s) \/ Crash(s)
Manage ==
  \/ \E c \in Channels : ToggleChannel(c)
  \/ \E m \in Messages, h \in {"none"} \cup Holds : SetHold(m, h)
  \/ \E m \in Messages, c \in Channels \cup {None} : Move(m, c)

Next == Tick \/ Manage \/ (\E m \in Messages : Prune(m)) \/ \E s \in Senders : Send(s) \/ Fault(s)

Spec == Init /\ [][Next]_vars

\* Faults do not hit every time: a claim, an answer and the write of a result
\* that keep coming up for a message get through in the end.
Fairness ==
  /\ WF_vars(Tick)
  /\ \A s \in Senders :
       /\ WF_vars(StartTick(s)) /\ WF_vars(EndTick(s))
       /\ WF_vars(\E m \in Messages : SkipClaim(s, m))
       /\ \A m \in Messages :
            /\ SF_vars(Claim(s, m))
            /\ SF_vars(cur[s] = m /\ Deliver(s))
            /\ SF_vars(cur[s] = m /\ Record(s))
FairSpec == Spec /\ Fairness
-----------------------------------------------------------------------------
TypeOK ==
  /\ status \in [Messages -> Statuses]
  /\ channel \in [Messages -> Channels \cup {None}]
  /\ hold \in [Messages -> {"none"} \cup Holds]
  /\ enabled \subseteq Channels
  /\ claimLeft \in [Messages -> Nat]
  /\ waitLeft \in [Messages -> Nat]
  /\ tries \in [Messages -> Nat]
  /\ pc \in [Senders -> {"idle", "scan", "build", "record"}]
  /\ batch \in [Senders -> SUBSET Messages]
  /\ cur \in [Senders -> Messages \cup {None}]
  /\ left \in [Senders -> 0..TickBudget]
  /\ resultLeft \in [Senders -> 0..ResultTimeout]
  /\ seen \in [Senders -> Nat]
  /\ outcome \in [Senders -> Outcomes \cup {None}]
  /\ heard \in [Messages -> Int]

\* A message has one sender at a time: no two senders, of any process, are
\* between the claim and the result of the same message.
OneSender ==
  \A s, t \in Senders : s # t /\ Busy(s) /\ Busy(t) => cur[s] # cur[t]

\* Once kitp knows a server took a message it never hands that message to a
\* server again: a message goes out twice only if the answer, the record of it
\* or the sender that had it was lost.
NotSentAgain == \A m \in Messages : heard[m] <= 1

\* What a thread shows is what happened: a message is shown as sent exactly when
\* a server is known to have taken it - but while its sender records that.
SentIsTrue ==
  \A m \in Messages :
    /\ status[m] = "sent" => heard[m] = 1
    /\ heard[m] = 1 => \/ status[m] = "sent"
                       \/ \E s \in Senders : Working(s, m) /\ outcome[s] = "accepted"

\* A message goes out once, as far as kitp hears, and its thread says so
\* (processOne, recordResult).
SentOnce == NotSentAgain /\ SentIsTrue

\* A message gets at most maxSendAttempts tries that fail: one that has used
\* them is not pending.
TriesBounded == \A m \in Messages : tries[m] < MaxAttempts

\* A message known to be sent or bounced stays so, whatever moves, retries and
\* late senders do.
ResultStays ==
  [][\A m \in Messages : status[m] \in {"sent", "bounced"} => status'[m] = status[m]]_vars

\* No message waits for ever behind others, faults or an ended process: once
\* people leave accounts, threads and tasks alone, each one that may be sent
\* gets its result.
Settles ==
  <>[][~Manage]_vars =>
    \A m \in Messages : []<>~(\E s \in Senders : Sendable(m, ChannelOf[s]))

\* What the senders have in hand between claim and recordResult.
InHand == {[msg |-> cur[s], answer |-> outcome[s]] : s \in {t \in Senders : Busy(t)}}
Abstract == INSTANCE Outbox WITH result <- status, inHand <- InHand

\* The processes together send as one careful hand would (Outbox): whatever they
\* do at once, with crashes, retries and moves in between, claim hands a message
\* to one sender, and recordResult writes what that sender was answered.
SendsAsOne == Abstract!Spec
=============================================================================

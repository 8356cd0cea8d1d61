------------------------------- MODULE Outbox -------------------------------
(***************************************************************************)
(* What the mail queue promises whoever writes a reply, as if one careful  *)
(* hand sent everything: a message is taken up only while it is pending and*)
(* nobody has it in hand, and its result is what the server answered.      *)
(* Whoever has it may put it back at any time - to try again later, or by  *)
(* losing it, answer and all.                                              *)
(*                                                                         *)
(* MailSendQueue, with its claims that run out, its several processes and  *)
(* its deadlines, implements this.                                         *)
(***************************************************************************)
CONSTANTS Messages, None

VARIABLES
  result,  \* what each message has come to
  inHand   \* messages taken up: [msg, answer], the answer None while it is out

Answers == {"accepted", "bounce", "transient", "no_way_out"}
InHand == [msg : Messages, answer : Answers \cup {None}]

Init == result = [m \in Messages |-> "pending"] /\ inHand = {}

Held(m) == \E h \in inHand : h.msg = m

TakeUp(m) ==
  /\ result[m] = "pending" /\ ~Held(m)
  /\ inHand' = inHand \cup {[msg |-> m, answer |-> None]}
  /\ UNCHANGED result

Answer(h, a) ==
  /\ h \in inHand /\ h.answer = None
  /\ inHand' = (inHand \ {h}) \cup {[msg |-> h.msg, answer |-> a]}
  /\ UNCHANGED result

\* What an answer makes of a message: one not handed over at all has failed too.
ResultOf(a) == CASE a = "accepted" -> "sent" [] a = "bounce" -> "bounced" [] OTHER -> "failed"

Conclude(h) ==
  /\ h \in inHand
  /\ result' = [result EXCEPT ![h.msg] = ResultOf(h.answer)]
  /\ inHand' = inHand \ {h}

PutBack(h) == h \in inHand /\ inHand' = inHand \ {h} /\ UNCHANGED result

\* The task has moved to where nothing can be sent from.
Cancel(m) ==
  /\ result[m] = "pending"
  /\ result' = [result EXCEPT ![m] = "failed"]
  /\ UNCHANGED inHand

Next ==
  \/ \E m \in Messages : TakeUp(m) \/ Cancel(m)
  \/ \E h \in inHand : PutBack(h) \/ Conclude(h) \/ \E a \in Answers : Answer(h, a)

Spec == Init /\ [][Next]_<<result, inHand>>
=============================================================================

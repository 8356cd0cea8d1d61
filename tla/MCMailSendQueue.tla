-------------------------- MODULE MCMailSendQueue --------------------------
(* Instances of MailSendQueue for TLC. *)
EXTENDS MailSendQueue, TLC

CONSTANTS p1, p2, c1, c2

\* Two processes' senders of one account; one process's.
OneChannel == p1 :> c1 @@ p2 :> c1
Alone == p1 :> c1

ShortWaits == <<1>>

Symmetry == Permutations(Senders)
=============================================================================

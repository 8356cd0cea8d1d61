------------------------------ MODULE Approvals ------------------------------
(***************************************************************************)
(* A task's status steps and the votes on them: the transition bar             *)
(* (task-detail/transition-bar.ts), the approvals section                     *)
(* (task-detail/task-approvals.ts), how it groups requests and votes            *)
(* (task-detail/approval-model.ts), and how the server judges them for the      *)
(* lists (db/schema/functions/approval_*.sql).                               *)
(* All of it is read off the task's log: moves, requests and votes in the order  *)
(* they were made.  What a control shows is a prefix of the log.  The section     *)
(* and the bar share nothing else, so each behaviour follows one of them, or the  *)
(* log alone.                                                             *)
(***************************************************************************)
EXTENDS Integers, FiniteSets, Sequences, SequencesExt, FiniteSetsExt

CONSTANTS
    Statuses, Phase,    \* the statuses, and the phase of each: 1 triage, 2 active, 3 terminal
    Steps,              \* the flow: records [id, from, to, order, allowed]
    First,              \* the status the task starts in
    Asked,              \* the steps votes are asked for and given on: a set of <<from, to>>
    People, Me,         \* who can be asked and vote; the user is one; 0 is an agent
    MaxLog, MaxCalls,   \* bounds: entries of the log (two fewer with a control), calls
    Patient             \* whether the user and the refreshes wait for what is on its way

VARIABLES
    panel,      \* what is followed
    log,
    shown,      \* approvals section: the prefix of the log it shows
    form, text, \* the open form, and whether something is typed in it
    writing,    \* whether a write is on its way
    steps,      \* bar: the prefix of the log its steps were read at
    banner,     \* bar: a refused step, [at, to]: the prefix it was refused at, at -1 for none
    reading, firing, \* bar: whether it reads the steps, and whether it fires one
    calls, asked, missed,
    own         \* the last entry that is the user's doing

vars == <<panel, log, shown, form, text, writing, steps, banner, reading, firing, calls, asked, missed, own>>
formVars == <<form, text>>
barVars == <<steps, banner, reading, firing>>

-----------------------------------------------------------------------------
(* The log.                                                                *)
Is(L, i, kind) == i \in DOMAIN L /\ L[i].kind = kind
Latest(S) == IF S = {} THEN 0 ELSE Max(S)
statusOf(L) == IF \E i \in DOMAIN L : Is(L, i, "move") THEN L[Latest({i \in DOMAIN L : Is(L, i, "move")})].to ELSE First
approval_round_start(L, to) == Latest({i \in DOMAIN L : Is(L, i, "move") /\ L[i].to = to})
requests(L) == {i \in DOMAIN L : Is(L, i, "ask") /\ ~\E j \in DOMAIN L : Is(L, j, "remove") /\ L[j].of = i}
approvers(L, r) == L[Latest({r} \cup {j \in DOMAIN L : Is(L, j, "people") /\ L[j].of = r})].who
votes(L, e) == {i \in DOMAIN L : Is(L, i, "vote") /\ L[i].edge = e}

(* approval_open, approval_tally and approval_waiting_on.                     *)
approval_open(L) == {r \in requests(L) : approval_round_start(L, L[r].edge[2]) < r /\ Phase[statusOf(L)] # 3}
Round(L, e, p) == {i \in votes(L, e) : L[i].person = p /\ i > approval_round_start(L, e[2])}
approval_tally(L, r) ==
    LET verdict(d) == Cardinality({p \in approvers(L, r) : Round(L, L[r].edge, p) # {} /\ L[Max(Round(L, L[r].edge, p))].says = d})
    IN  [asked |-> Cardinality(approvers(L, r)), approve |-> verdict("approve"), reject |-> verdict("reject")]
approval_waiting_on(L, p) == \E r \in approval_open(L) : p \in approvers(L, r) /\ Round(L, L[r].edge, p) = {}

-----------------------------------------------------------------------------
(* approval-model.ts: what approval.list answers, grouped by step.            *)
settled(L, v) == v <= approval_round_start(L, L[v].edge[2])
reachedAt(L, r) == IF approval_round_start(L, L[r].edge[2]) >= r THEN approval_round_start(L, L[r].edge[2]) ELSE 0
voter(L, v) == IF L[v].person = 0 THEN <<"user", L[v].by>> ELSE <<"person", L[v].person>>
latestPerVoter(L, V) == {v \in V : \A w \in V : voter(L, w) = voter(L, v) => w <= v}
current(L, e) == {v \in votes(L, e) : ~settled(L, v)}
open(L, r) == reachedAt(L, r) = 0
answers(L, r) == latestPerVoter(L, IF open(L, r) THEN current(L, L[r].edge) ELSE {v \in votes(L, L[r].edge) : v <= reachedAt(L, r)})
request(L, r) ==
    LET counts(d) == Cardinality({p \in approvers(L, r) : \E v \in answers(L, r) : L[v].person = p /\ L[v].says = d})
    IN  [asked |-> Cardinality(approvers(L, r)), approve |-> counts("approve"), reject |-> counts("reject")]
others(L, e) ==
    {v \in latestPerVoter(L, current(L, e)) :
        ~\E r \in requests(L) : L[r].edge = e /\ open(L, r) /\ L[v].person \in approvers(L, r)}
mine(L, e) == {v \in current(L, e) : L[v].by = Me}
waitingOnMe(L, e) == mine(L, e) = {} /\ \E r \in requests(L) : L[r].edge = e /\ open(L, r) /\ Me \in approvers(L, r)

-----------------------------------------------------------------------------
(* Calls: the server answers a read with the log as it is, and a write by       *)
(* adding to it.                                                          *)
Free == Patient => calls = {}
Send(after, kind, entry) ==
    /\ asked < MaxCalls /\ asked' = asked + 1
    /\ calls' = after \cup {[n |-> asked', kind |-> kind, entry |-> entry, state |-> "sent", at |-> 0]}
Answered(c, kind) == c \in calls /\ c.kind = kind /\ c.state # "sent"
Ok(c) == c.state = "done"
Page == SubSeq(log, 1, shown)

load ==
    /\ panel = "section" /\ Free /\ Send(calls, "list", <<>>)
    /\ UNCHANGED <<panel, log, shown, formVars, writing, barVars, missed, own>>
(* The list that arrives is painted, and the open form with it, empty; the form *)
(* for a request that is gone is closed.                                    *)
landList(c) ==
    /\ Answered(c, "list") /\ calls' = calls \ {c} /\ missed' = ~Ok(c)
    /\ IF ~Ok(c) THEN UNCHANGED <<shown, formVars>>
       ELSE /\ shown' = c.at /\ text' = FALSE
            /\ form' = IF form.kind = "people" /\ form.of \notin requests(SubSeq(log, 1, c.at)) THEN [kind |-> "none", of |-> 0] ELSE form
    /\ UNCHANGED <<panel, log, writing, barVars, asked, own>>

openForm(kind, of) ==
    /\ panel = "section" /\ form' = [kind |-> kind, of |-> of] /\ form' # form /\ text' = FALSE
    /\ kind = "people" => of \in requests(Page) /\ open(Page, of)
    /\ UNCHANGED <<panel, log, shown, writing, barVars, calls, asked, missed, own>>
typeText ==
    /\ form.kind \in {"ask", "vote"} /\ ~text /\ text' = TRUE
    /\ UNCHANGED <<panel, log, shown, form, writing, barVars, calls, asked, missed, own>>

(* One write at a time; what is clicked meanwhile does nothing.               *)
write(entry) ==
    /\ panel = "section" /\ ~writing /\ Free /\ writing' = TRUE
    /\ Send(calls, "write", entry)
    /\ UNCHANGED <<panel, log, shown, formVars, barVars, missed, own>>
Vote(by, person, e, d) == [kind |-> "vote", by |-> by, person |-> person, edge |-> e, says |-> d]
doDecide(e, d) ==
    \* the button of a step that is shown, or the form
    /\ form.kind = "vote" \/ \E i \in DOMAIN Page : Page[i].kind \in {"ask", "vote"} /\ Page[i].edge = e
    /\ write(Vote(Me, Me, e, d))
ask(e, who) == form.kind = "ask" /\ who # {} /\ write([kind |-> "ask", edge |-> e, who |-> who])
changePeople(who) == form.kind = "people" /\ who # {} /\ write([kind |-> "people", of |-> form.of, who |-> who])
doRemove(r) == r \in requests(Page) /\ open(Page, r) /\ write([kind |-> "remove", of |-> r])
landWrite(c) ==
    /\ Answered(c, "write") /\ writing' = FALSE
    /\ IF Ok(c) THEN form' = [kind |-> "none", of |-> 0] /\ text' = FALSE /\ Send(calls \ {c}, "list", <<>>)
       ELSE calls' = calls \ {c} /\ UNCHANGED <<formVars, asked>>
    /\ UNCHANGED <<panel, log, shown, barVars, missed, own>>

-----------------------------------------------------------------------------
(* transition-bar.ts: the steps from the status the task was in, by bucket.    *)
Buckets == <<<<1, 1>>, <<1, 2>>, <<1, 3>>, <<2, 1>>, <<2, 2>>, <<2, 3>>, <<3, 1>>, <<3, 2>>, <<3, 3>>>>
bucketOf(s) == CHOOSE b \in 1..9 : Buckets[b] = <<Phase[s.from], Phase[s.to]>>
compareTransitions(s, t) ==
    \/ bucketOf(s) < bucketOf(t)
    \/ bucketOf(s) = bucketOf(t) /\ (s.order < t.order \/ (s.order = t.order /\ s.to < t.to))
groupByBucket(at) == SetToSortSeq({s \in Steps : s.from = statusOf(SubSeq(log, 1, at))}, compareTransitions)

loadTransitions ==
    /\ panel = "bar" /\ Free /\ reading' = TRUE /\ Send(calls, "steps", <<>>)
    /\ UNCHANGED <<panel, log, shown, formVars, writing, steps, banner, firing, missed, own>>
landTransitions(c) ==
    /\ Answered(c, "steps") /\ calls' = calls \ {c}
    /\ reading' = FALSE /\ missed' = ~Ok(c)
    /\ steps' = IF Ok(c) THEN c.at ELSE steps
    /\ UNCHANGED <<panel, log, shown, formVars, writing, banner, firing, asked, own>>
fire(s) ==
    /\ panel = "bar" /\ Free /\ ~firing /\ ~reading /\ s.allowed
    /\ firing' = TRUE /\ banner' = [at |-> -1, to |-> 0]
    /\ Send(calls, "fire", [kind |-> "move", to |-> s.to])
    /\ UNCHANGED <<panel, log, shown, formVars, writing, steps, reading, missed, own>>
fireStep == \E i \in DOMAIN groupByBucket(steps) : fire(groupByBucket(steps)[i])
(* A refusal says which steps there are; one of them is fired if the bar lists  *)
(* it, or one to the same status, and else the bar is read again.             *)
transitionFromAvailable(a) ==
    LET all == groupByBucket(steps)
        same == {i \in DOMAIN all : all[i].id = a.id}
        to == {i \in DOMAIN all : all[i].to = a.to}
    IN  IF same # {} THEN same ELSE IF to # {} THEN {Min(to)} ELSE {}
fireFromBanner(a) ==
    /\ banner.at # -1 /\ a.allowed /\ ~firing /\ a.from = statusOf(SubSeq(log, 1, banner.at))
    /\ IF transitionFromAvailable(a) = {} THEN loadTransitions
       ELSE \E i \in transitionFromAvailable(a) : fire(groupByBucket(steps)[i])
landFire(c) ==
    /\ Answered(c, "fire") /\ firing' = FALSE
    /\ IF Ok(c) THEN reading' = TRUE /\ Send(calls \ {c}, "steps", <<>>) /\ UNCHANGED banner
       ELSE /\ calls' = calls \ {c} /\ UNCHANGED <<reading, asked>>
            /\ banner' = IF c.state = "disallowed" THEN [at |-> c.at, to |-> c.entry.to] ELSE banner
    /\ UNCHANGED <<panel, log, shown, formVars, writing, steps, missed, own>>
dismiss ==
    /\ banner.at # -1 /\ banner' = [at |-> -1, to |-> 0]
    /\ UNCHANGED <<panel, log, shown, formVars, writing, steps, reading, firing, calls, asked, missed, own>>

-----------------------------------------------------------------------------
(* The server refuses a move that is no step from the status the task is in, a  *)
(* write on a request that is gone, and the vote already in force.            *)
Refuses(e) ==
    CASE e.kind = "move" -> ~\E s \in Steps : s.from = statusOf(log) /\ s.to = e.to
      [] e.kind \in {"people", "remove"} -> e.of \notin requests(log)
      [] OTHER -> FALSE
NoChange(e) == e.kind = "vote" /\ Round(log, e.edge, e.person) # {} /\ log[Max(Round(log, e.edge, e.person))].says = e.says
Room == Len(log) < IF panel = "log" THEN MaxLog ELSE MaxLog - 2
ServerRuns(c) ==
    /\ c \in calls /\ c.state = "sent"
    /\ IF c.kind \in {"list", "steps"} \/ Refuses(c.entry) \/ NoChange(c.entry)
       THEN UNCHANGED <<panel, log, own>>
       ELSE Room /\ log' = Append(log, c.entry) /\ own' = Len(log')
    /\ calls' = (calls \ {c}) \cup {[c EXCEPT !.at = Len(log'),
                    !.state = IF c.kind \in {"write", "fire"} /\ Refuses(c.entry) THEN "disallowed" ELSE "done"]}
    /\ UNCHANGED <<panel, shown, formVars, writing, barVars, asked, missed>>
Fails(c) ==
    /\ c \in calls /\ c.state = "sent" /\ calls' = (calls \ {c}) \cup {[c EXCEPT !.state = "failed"]}
    /\ UNCHANGED <<panel, log, shown, formVars, writing, barVars, asked, missed, own>>
(* Other people move the task, ask and vote, agents too.                      *)
Others(entry) ==
    /\ Room /\ ~Refuses(entry) /\ log' = Append(log, entry)
    /\ UNCHANGED <<panel, shown, formVars, writing, barVars, calls, asked, missed, own>>

Init ==
    /\ panel \in {"log", "section", "bar"}
    /\ log = <<>> /\ shown = 0 /\ steps = 0 /\ own = 0
    /\ form = [kind |-> "none", of |-> 0] /\ text = FALSE /\ writing = FALSE
    /\ banner = [at |-> -1, to |-> 0] /\ reading = FALSE /\ firing = FALSE
    /\ calls = {} /\ asked = 0 /\ missed = FALSE
Next ==
    \/ load \/ typeText \/ loadTransitions \/ fireStep \/ dismiss
    \/ \E k \in {"none", "ask", "vote"} : openForm(k, 0)
    \/ \E r \in 1..MaxLog : openForm("people", r) \/ doRemove(r)
    \/ \E e \in Asked : (\E d \in {"approve", "reject"} : doDecide(e, d)) \/ \E who \in SUBSET People : ask(e, who)
    \/ \E who \in SUBSET People : changePeople(who)
    \/ \E s \in Steps : fireFromBanner(s)
    \/ \E c \in calls : landList(c) \/ landWrite(c) \/ landTransitions(c) \/ landFire(c) \/ ServerRuns(c) \/ Fails(c)
    \/ \E t \in Statuses : Others([kind |-> "move", to |-> t])
    \/ \E e \in Asked, p \in People \cup {0}, d \in {"approve", "reject"} : Others(Vote(p, p, e, d))
    \/ \E e \in Asked, who \in SUBSET People \ {{}} : Others([kind |-> "ask", edge |-> e, who |-> who])
    \/ \E r \in 1..MaxLog : Others([kind |-> "remove", of |-> r])
    \/ \E r \in 1..MaxLog, who \in SUBSET People \ {{}} : Others([kind |-> "people", of |-> r, who |-> who])
Spec == Init /\ [][Next]_vars

-----------------------------------------------------------------------------
TypeOK ==
    /\ shown \in 0..Len(log) /\ steps \in 0..Len(log) /\ own \in 0..Len(log)
    /\ form.kind \in {"none", "ask", "vote", "people"} /\ {text, writing, reading, firing} \subseteq BOOLEAN
    /\ banner.at \in -1..Len(log)

(* The section counts votes and waits as the server does (approval-model.ts:7):   *)
(* for every request that is open, and for the user.                         *)
MirrorsServer ==
    /\ {r \in requests(log) : open(log, r)} = approval_open(log)
    /\ \A r \in approval_open(log) : request(log, r) = approval_tally(log, r)
    /\ (\E e \in Asked : waitingOnMe(log, e)) = approval_waiting_on(log, Me)

(* Every vote of the current round is somewhere on the page: with the request    *)
(* it answers or among the others' (approval-model.ts:16).                    *)
VotesPlaced ==
    \A e \in Asked : \A v \in latestPerVoter(log, current(log, e)) :
        \/ v \in others(log, e)
        \/ \E r \in requests(log) : log[r].edge = e /\ open(log, r) /\ log[v].person \in approvers(log, r) /\ v \in answers(log, r)

(* With nothing on its way and no read failed, what the user did is shown in     *)
(* the section and in the bar.                                             *)
OwnShown ==
    calls = {} /\ ~missed /\ own > 0 =>
        /\ log[own].kind = "move" => steps >= own
        /\ log[own].kind # "move" => shown >= own
        /\ ~writing /\ ~firing
=============================================================================

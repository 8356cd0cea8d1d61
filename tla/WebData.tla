------------------------------- MODULE WebData ------------------------------
(***************************************************************************)
(* The web client's data layer: controls that mount, read and write through *)
(* their binding tables (core/control.ts, core/data.ts), the tree they      *)
(* share (core/tree.ts), and the dispatcher that batches their calls into   *)
(* POSTs whose answers come in any order (core/dispatch.ts, core/api.ts).   *)
(*                                                                          *)
(* The tree is one leaf, a list read for a scope; a row of it is the call   *)
(* that wrote it.  The server is what the client can see of it: a batch runs *)
(* as a whole or not at all, and its answer may be lost.                     *)
(***************************************************************************)
EXTENDS Integers, Sequences, FiniteSets, SequencesExt

CONSTANTS
    Controls,   \* controls with a query that watches the scope, and an action
    Scopes,     \* values of the path the query watches
    None,       \* no scope yet
    MaxCalls,   \* bound: calls made
    Overlap     \* whether an action may start while another has no answer

VARIABLES
    life,       \* life[c]: new, live or dead
    scope,      \* the watched path
    woken,      \* controls whose query's effect waits for the signals' flush
    calls,      \* the calls made, in order
    queue,      \* calls that wait for the dispatcher's flush
    scheduled,  \* flushScheduled
    posts,      \* POSTs under way
    inFlight,   \* the dispatcher's count of calls without an answer
    leaf,       \* the tree's leaf
    db          \* writes the server has committed

vars == <<life, scope, woken, calls, queue, scheduled, posts, inFlight, leaf, db>>

Ids == 1 .. MaxCalls
Rows == SUBSET Ids
Leaf == [scope : Scopes \cup {None}, rows : Rows]
Call == [by : Controls, kind : {"query", "action"}, scope : Scopes \cup {None},
         before : Rows, state : {"open", "ok", "fault", "dropped"}]
Post == [ids : SUBSET Ids, ran : BOOLEAN, lost : BOOLEAN, rows : Rows]

Init ==
    /\ life = [c \in Controls |-> "new"]
    /\ scope = None
    /\ woken = {}
    /\ calls = <<>>
    /\ queue = <<>>
    /\ scheduled = FALSE
    /\ posts = {}
    /\ inFlight = 0
    /\ leaf = [scope |-> None, rows |-> {}]
    /\ db = {}

isAlive(c) == life[c] = "live"
Open(i) == calls[i].state = "open"
Writing == {i \in DOMAIN calls : calls[i].kind = "action" /\ Open(i)}

-----------------------------------------------------------------------------
(* A mutant of request: the flush is scheduled only when nothing is in      *)
(* flight.                                                                 *)
requestWhenIdle(new) ==
    /\ Len(calls) + Len(new) <= MaxCalls
    /\ calls' = calls \o new
    /\ queue' = queue \o [n \in 1 .. Len(new) |-> Len(calls) + n]
    /\ inFlight' = inFlight + Len(new)
    /\ scheduled' = (scheduled \/ (new # <<>> /\ inFlight = 0))

(* Dispatcher.request, once per new call: it waits in the queue, counts as *)
(* in flight, and one flush is scheduled for all that come before it.      *)
request(new) ==
    /\ Len(calls) + Len(new) <= MaxCalls
    /\ calls' = calls \o new
    /\ queue' = queue \o [n \in 1 .. Len(new) |-> Len(calls) + n]
    /\ inFlight' = inFlight + Len(new)
    /\ scheduled' = (scheduled \/ new # <<>>)

(* DataController.fireQuery of the controls cs, in any fixed order: input  *)
(* is read when it fires, and skipWhenNull keeps it idle without a scope.  *)
fireQuery(cs, s) ==
    LET order == SetToSeq(IF s = None THEN {} ELSE cs)
    IN  request([n \in 1 .. Len(order) |->
            [by |-> order[n], kind |-> "query", scope |-> s, before |-> {}, state |-> "open"]])

(* Control.mount: render, then wireQuery's effect runs for the first time. *)
mount(c) ==
    /\ life[c] = "new"
    /\ life' = [life EXCEPT ![c] = "live"]
    /\ fireQuery({c}, scope)
    /\ UNCHANGED <<scope, woken, posts, leaf, db>>

(* Someone sets the watched path; the effects that read it wait for the    *)
(* signals' own flush, and run once however often it was set before that.  *)
SetScope(s) ==
    /\ s # scope
    /\ scope' = s
    /\ woken' = {c \in Controls : isAlive(c)}
    /\ UNCHANGED <<life, calls, queue, scheduled, posts, inFlight, leaf, db>>

RunEffects ==
    /\ woken # {}
    /\ fireQuery(woken, scope)
    /\ woken' = {}
    /\ UNCHANGED <<life, scope, posts, leaf, db>>

(* DataController.fireAction: the optimistic patch, then the call.  The    *)
(* snapshot for a rollback is the leaf as it was.                          *)
fireAction(c) ==
    /\ isAlive(c)
    /\ Overlap \/ Writing = {}
    /\ request(<<[by |-> c, kind |-> "action", scope |-> None,
                  before |-> leaf.rows, state |-> "open"]>>)
    /\ leaf' = [leaf EXCEPT !.rows = leaf.rows \cup {Len(calls) + 1}]
    /\ UNCHANGED <<life, scope, woken, posts, db>>

(* A mutant of destroy: its effects are not disposed.                      *)
destroyKeepsEffects(c) ==
    /\ isAlive(c)
    /\ life' = [life EXCEPT ![c] = "dead"]
    /\ UNCHANGED <<scope, woken, calls, queue, scheduled, posts, inFlight, leaf, db>>

(* Control.destroy: disposes the effects; answers to its calls are dropped *)
(* when they come (alive).                                                 *)
destroy(c) ==
    /\ isAlive(c)
    /\ life' = [life EXCEPT ![c] = "dead"]
    /\ woken' = woken \ {c}
    /\ UNCHANGED <<scope, calls, queue, scheduled, posts, inFlight, leaf, db>>

-----------------------------------------------------------------------------
(* Identical reads of one flush fold into the first; only that one is sent. *)
Folds(i, j) ==
    calls[i].kind = "query" /\ calls[j].kind = "query" /\ calls[i].scope = calls[j].scope
Wire(ids) == {j \in ids : ~ \E i \in ids : i < j /\ Folds(i, j)}

(* Dispatcher.flush up to its await: takes the whole queue as one POST.    *)
flush ==
    /\ scheduled
    /\ scheduled' = FALSE
    /\ queue' = <<>>
    /\ posts' = IF queue = <<>> THEN posts
                ELSE posts \cup {[ids |-> ToSet(queue), ran |-> FALSE, lost |-> FALSE, rows |-> {}]}
    /\ UNCHANGED <<life, scope, woken, calls, inFlight, leaf, db>>

(* The server runs a batch in one transaction; a read sees the writes of   *)
(* its own batch and of those before.                                      *)
ServerRuns(p) ==
    /\ ~p.ran
    /\ db' = db \cup {i \in Wire(p.ids) : calls[i].kind = "action"}
    /\ posts' = (posts \ {p}) \cup {[p EXCEPT !.ran = TRUE, !.rows = db']}
    /\ UNCHANGED <<life, scope, woken, calls, queue, scheduled, inFlight, leaf>>

(* The network, the status or the body fails, before or after it ran; or   *)
(* one sub-request fails and the server aborts its siblings.               *)
Fails(p) ==
    /\ ~p.lost
    /\ posts' = (posts \ {p}) \cup {[p EXCEPT !.lost = TRUE]}
    /\ UNCHANGED <<life, scope, woken, calls, queue, scheduled, inFlight, leaf, db>>

(* Mutants of Lands: no rollback; no alive gate.                           *)
LandsNoRollback(i, p) == isAlive(calls[i].by) /\ calls[i].kind = "query" /\ ~p.lost
LandsAlways(i, p) == (calls[i].kind = "query") = ~p.lost

(* Whether one call's answer moves the leaf: a read that came, a write that  *)
(* failed.  A commit leaves the patch, a failed read the leaf as it is.      *)
Lands(i, p) == isAlive(calls[i].by) /\ (calls[i].kind = "query") = ~p.lost

(* What it makes of it: a result lands in the tree, a rollback restores the  *)
(* snapshot.                                                               *)
Landed(i, p) ==
    IF p.lost THEN [leaf EXCEPT !.rows = calls[i].before]
    ELSE [scope |-> calls[i].scope, rows |-> p.rows]

(* A mutant of Settled: a POST that failed is not told apart.              *)
SettledOk(i, p) == IF ~isAlive(calls[i].by) THEN "dropped" ELSE "ok"

Settled(i, p) ==
    IF ~isAlive(calls[i].by) THEN "dropped" ELSE IF p.lost THEN "fault" ELSE "ok"

(* A mutant of Released: the answers that are dropped are not counted.     *)
ReleasedAlive(p) == Cardinality({i \in p.ids : isAlive(calls[i].by)})
Released(p) == Cardinality(p.ids)

(* Dispatcher.flush after its await: the calls of the batch in their order, *)
(* so that the last one to land stays, then the count.                     *)
settle(p) ==
    /\ p.ran \/ p.lost
    /\ posts' = posts \ {p}
    /\ calls' = [i \in DOMAIN calls |->
                    IF i \in p.ids THEN [calls[i] EXCEPT !.state = Settled(i, p)] ELSE calls[i]]
    /\ LET landing == {i \in p.ids : Lands(i, p)} IN
       \/ landing = {} /\ UNCHANGED leaf
       \/ \E i \in landing : (\A j \in landing : j <= i) /\ leaf' = Landed(i, p)
    /\ inFlight' = inFlight - Released(p)
    /\ UNCHANGED <<life, scope, woken, queue, scheduled, db>>

-----------------------------------------------------------------------------
Answers == \E p \in posts : ServerRuns(p) \/ Fails(p)
Settles == \E p \in posts : settle(p)

Next ==
    \/ \E c \in Controls : mount(c) \/ fireAction(c) \/ destroy(c)
    \/ \E s \in Scopes : SetScope(s)
    \/ RunEffects
    \/ flush
    \/ Answers
    \/ Settles

Spec == Init /\ [][Next]_vars

(* Microtasks run; a POST is answered or fails in the end.                 *)
Fairness == WF_vars(flush) /\ WF_vars(RunEffects) /\ WF_vars(Answers) /\ WF_vars(Settles)
FairSpec == Spec /\ Fairness

-----------------------------------------------------------------------------
(* Properties.                                                             *)

TypeOK ==
    /\ life \in [Controls -> {"new", "live", "dead"}]
    /\ scope \in Scopes \cup {None}
    /\ woken \subseteq {c \in Controls : isAlive(c)}
    /\ calls \in Seq(Call) /\ Len(calls) <= MaxCalls
    /\ queue \in Seq(Ids)
    /\ scheduled \in BOOLEAN
    /\ posts \subseteq Post
    /\ inFlight \in Nat
    /\ leaf \in Leaf
    /\ db \subseteq Ids

(* The count behind the loading indicator is the number of calls without   *)
(* an answer, each of which is in the queue or in one POST: every path out *)
(* of flush releases what it took, and a call waiting in the queue has a   *)
(* flush that will take it.                                                *)
InFlightExact ==
    /\ inFlight = Cardinality({i \in DOMAIN calls : Open(i)})
    /\ {i \in DOMAIN calls : Open(i)} = ToSet(queue) \cup UNION {p.ids : p \in posts}
    /\ queue # <<>> => scheduled

(* A write that was answered with success was run by the server: folding   *)
(* identical calls into one never folds writes (dispatch.ts, dedup).       *)
WritesRun ==
    \A i \in DOMAIN calls : calls[i].kind = "action" /\ calls[i].state = "ok" => i \in db

(* A write that failed is not shown: the optimistic patch of an action     *)
(* "auto-rolls-back on fault" (data.ts), whatever reads land in between.   *)
RollsBack ==
    \A i \in DOMAIN calls : calls[i].state = "fault" /\ i \notin db => i \notin leaf.rows

(* What only destroyed controls asked for changes nothing when it comes    *)
(* (the alive gate), though the tree outlives them.                        *)
DeadStayDeadStep ==
    LET answered == {i \in DOMAIN calls : calls'[i].state # calls[i].state}
       IN  answered # {} /\ (\A i \in answered : ~isAlive(calls[i].by)) => leaf' = leaf
DeadStayDead == [][DeadStayDeadStep]_vars

(* Whoever waits for an answer gets one, or is told of a fault.            *)
Waits(i) == i \in DOMAIN calls /\ Open(i)
AllSettle == \A i \in Ids : Waits(i) ~> ~Waits(i)
=============================================================================

---------------------------- MODULE MasterDetail ----------------------------
(***************************************************************************)
(* The generic admin screen (admin/master-detail.ts): a list, the detail of  *)
(* its selected row with editable fields and relations, a create dialog, and  *)
(* for card lists a filter the server applies.  Edits, creates and deletes     *)
(* are shown at once; a fault puts back the list as it was before.            *)
(***************************************************************************)
EXTENDS Integers, FiniteSets

CONSTANTS
    Names,      \* what a row's field may say
    Filters,    \* predicates: sets of names
    None,
    MaxCalls,   \* bound: calls made
    HasFilter,  \* list.predicateFilter is configured
    Patient     \* whether the user waits for every answer

VARIABLES
    items,      \* <scopeKey>.items
    selected,   \* <scopeKey>.selectedId
    predicate,  \* <scopeKey>.predicate, projected to where / tree
    dialog,     \* the create dialog: None, or the name typed so far
    pending,    \* pendingCreateId
    temps,      \* ids nextOptimisticId has given out
    calls,      \* calls under way
    made,
    stale,      \* a list read failed since the last that did not
    server      \* the server's rows: id -> name and relation

vars == <<items, selected, predicate, dialog, pending, temps, calls, made, stale, server>>
viewVars == <<selected, predicate, dialog>>
createVars == <<pending, temps>>

RealIds == 1 .. MaxCalls + 1
TempIds == {-n : n \in 1 .. MaxCalls}
Row == [id : RealIds \cup TempIds, name : Names, linked : BOOLEAN]
isPendingId(id) == id < 0
Rows(cards, p) == {[id |-> n, name |-> cards[n].name, linked |-> cards[n].linked] :
                      n \in {m \in DOMAIN cards : cards[m].name \in p}}
NoFault == "answered"

First == CHOOSE n \in Names : TRUE
Init ==
    /\ items = {} /\ selected = None /\ predicate = Names /\ dialog = None
    /\ pending = None /\ temps = 0 /\ stale = FALSE
    /\ server = [n \in {1} |-> [name |-> First, linked |-> FALSE]]
    /\ calls = {[n |-> 1, op |-> "list", id |-> None, arg |-> Names, before |-> {}, answer |-> None]}
    /\ made = 1

-----------------------------------------------------------------------------
Call(op, id, arg) ==
    [n |-> made + 1, op |-> op, id |-> id, arg |-> arg, before |-> items, answer |-> None]
Send(left, c) == made < MaxCalls /\ made' = made + 1 /\ calls' = left \cup {c}
Free == Patient => calls = {}

(* applyPredicate and the bump of listVersion, which fires the list query.   *)
applyPredicate(p) ==
    /\ HasFilter /\ Free /\ p # predicate
    /\ predicate' = p
    /\ Send(calls, Call("list", None, p))
    /\ UNCHANGED <<items, selected, dialog, createVars, stale, server>>

(* A click on a row; the detail follows the selection and the list.          *)
select(r) ==
    /\ selected # r.id
    /\ selected' = r.id
    /\ UNCHANGED <<items, predicate, dialog, createVars, calls, made, stale, server>>
detail == {r \in items : r.id = selected}

(* A field or a select of the detail commits: the row is patched at once.    *)
fireEdit(r, name) ==
    /\ r \in detail /\ name # r.name /\ Free
    /\ items' = (items \ {r}) \cup {[r EXCEPT !.name = name]}
    /\ Send(calls, Call("edit", r.id, name))
    /\ UNCHANGED <<viewVars, createVars, stale, server>>

(* relationActions have no patch: a change of a relation loads the list again. *)
relation(r) ==
    /\ r \in detail /\ Free
    /\ Send(calls, Call("relation", r.id, ~r.linked))
    /\ UNCHANGED <<items, viewVars, createVars, stale, server>>

fireDelete(r) ==
    /\ r \in detail /\ ~isPendingId(r.id) /\ Free
    /\ selected' = None
    /\ items' = items \ {r}
    /\ Send(calls, Call("delete", r.id, None))
    /\ UNCHANGED <<predicate, dialog, createVars, stale, server>>

openDialog ==
    /\ dialog = None
    /\ dialog' = ""
    /\ UNCHANGED <<items, selected, predicate, createVars, calls, made, stale, server>>
cancel ==
    /\ dialog # None
    /\ dialog' = None
    /\ UNCHANGED <<items, selected, predicate, createVars, calls, made, stale, server>>

(* commit: a missing required field keeps the dialog open.                  *)
fireCreate(name) ==
    /\ dialog # None /\ Free
    /\ dialog' = None
    /\ temps' = temps + 1
    /\ pending' = -(temps + 1)
    /\ items' = items \cup {[id |-> -(temps + 1), name |-> name, linked |-> FALSE]}
    /\ Send(calls, Call("create", -(temps + 1), name))
    /\ UNCHANGED <<selected, predicate, stale, server>>

-----------------------------------------------------------------------------
(* Server.  A list answer is the rows of the predicate it was asked with.    *)
ServerRuns(c) ==
    /\ c.answer = None
    /\ server' =
        CASE c.op = "edit" /\ c.id \in DOMAIN server -> [server EXCEPT ![c.id].name = c.arg]
          [] c.op = "relation" /\ c.id \in DOMAIN server -> [server EXCEPT ![c.id].linked = c.arg]
          [] c.op = "delete" -> [n \in DOMAIN server \ {c.id} |-> server[n]]
          [] c.op = "create" -> [n \in DOMAIN server \cup {1 - c.id} |->
                                   IF n = 1 - c.id THEN [name |-> c.arg, linked |-> FALSE] ELSE server[n]]
          [] OTHER -> server
    /\ c.op \in {"edit", "relation"} => c.id \in DOMAIN server
    /\ calls' = (calls \ {c}) \cup
                {[c EXCEPT !.answer = IF c.op = "list" THEN Rows(server, c.arg) ELSE {}]}
    /\ UNCHANGED <<items, viewVars, createVars, made, stale>>

(* A refused write, and a list read with no answer: the fault shows inline.  *)
Refused(c) ==
    /\ c.answer = None
    /\ calls' = calls \ {c}
    /\ items' = IF c.op \in {"edit", "delete", "create"} THEN c.before ELSE items
    /\ stale' = (stale \/ c.op = "list")
    /\ UNCHANGED <<viewVars, createVars, made, server>>

landItems(c) ==
    /\ c.op = "list"
    /\ items' = c.answer
    /\ stale' = FALSE
    /\ calls' = calls \ {c}
    /\ UNCHANGED <<made, pending>>

(* Reads with list.input alone: no where, no tree.                          *)
reloadListFromServer(left) == Send(left, Call("list", None, Names))

(* The row of the newest temporary id gets the id, whichever create this     *)
(* answers.                                                                 *)
landCreated(c) ==
    /\ c.op = "create"
    /\ pending' = None
    /\ IF pending = None THEN items' = items /\ calls' = calls \ {c} /\ UNCHANGED made
       ELSE /\ items' = {IF r.id = pending THEN [r EXCEPT !.id = 1 - c.id] ELSE r : r \in items}
            /\ reloadListFromServer(calls \ {c})
    /\ UNCHANGED stale

(* afterWrite bumps refreshNonce, which other views watch; reloadList asks   *)
(* again with the predicate of now.                                         *)
landWrite(c) ==
    /\ c.op \in {"edit", "delete", "relation"}
    /\ IF c.op = "relation" THEN Send(calls \ {c}, Call("list", None, predicate))
                            ELSE calls' = calls \ {c} /\ UNCHANGED made
    /\ UNCHANGED <<items, pending, stale>>

land(c) ==
    /\ c.answer # None
    /\ landItems(c) \/ landCreated(c) \/ landWrite(c)
    /\ UNCHANGED <<viewVars, temps, server>>

Next ==
    \/ \E p \in Filters : applyPredicate(p)
    \/ \E r \in items : select(r) \/ relation(r) \/ fireDelete(r) \/ \E name \in Names : fireEdit(r, name)
    \/ openDialog \/ cancel \/ \E name \in Names : fireCreate(name)
    \/ \E c \in calls : ServerRuns(c) \/ Refused(c) \/ land(c)

Spec == Init /\ [][Next]_vars

-----------------------------------------------------------------------------
TypeOK ==
    /\ items \subseteq Row
    /\ Cardinality({r.id : r \in items}) = Cardinality(items)
    /\ selected \in {None} \cup RealIds \cup TempIds
    /\ made <= MaxCalls /\ temps <= made

(* With nothing under way and no read missing, every row listed is one the   *)
(* server has, as it has it; and none it has is missing.                     *)
ListTrue ==
    calls = {} /\ ~stale =>
        /\ \A r \in items : r \in Rows(server, Names)
        /\ \A r \in Rows(server, predicate) : r \in items

(* Every read of the list asks for the filter that is set: applyPredicate     *)
(* projects "the edited predicate to the list query's `where[]` / `tree`       *)
(* leaves".                                                                 *)
FilterAskedStep ==
    \A c \in calls' \ calls : c.op = "list" /\ c.answer = None => c.arg = predicate'
FilterAsked == [][FilterAskedStep]_vars
=============================================================================

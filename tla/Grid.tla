-------------------------------- MODULE Grid --------------------------------
(***************************************************************************)
(* The grid (grid/grid.ts) and its bulk bar (grid/bulk-action-bar.ts): rows    *)
(* the server filters and sorts, cells edited in place inside recycled rows,   *)
(* and operations on the selected rows sent as one POST together with the      *)
(* read that follows them.                                                   *)
(***************************************************************************)
EXTENDS Integers, FiniteSets

CONSTANTS
    Values,     \* what the edited attribute may hold
    None,
    MaxPosts,   \* bound: POSTs made
    Patient     \* whether the user waits for every answer

VARIABLES
    filter,     \* grid.where / grid.tree: the values that pass
    asc,        \* grid.order
    rows,       \* grid.tasks: task -> value, with the order they were read in
    selection, anchor,
    confirm,    \* the purge dialog: None, or the number it shows
    edit,       \* the open cell: None, or its task and row slot
    posts, made,
    stale,      \* a read failed since the last that did not
    db          \* the server's tasks of this project: task -> value

vars == <<filter, asc, rows, selection, anchor, confirm, edit, posts, made, stale, db>>
queryVars == <<filter, asc>>
selVars == <<selection, anchor>>

(* A chain: 2 is a subtask of 1 and 3 of 2.                                  *)
Tasks == 1 .. 3
Under(a) == {b \in Tasks : b > a}
Upto(b, listed) == IF b \notin listed \/ b = 1 THEN {} ELSE {b - 1}
Patch(r, ids, v) == [r EXCEPT !.of = [t \in DOMAIN r.of |-> IF t \in ids THEN v ELSE r.of[t]]]
Answer(cards, f, up) ==
    [asc |-> up, of |-> [t \in {u \in DOMAIN cards : cards[u] \in f} |-> cards[t]]]
Listed == DOMAIN rows.of
Slot(r, t) == Cardinality({u \in DOMAIN r.of : IF r.asc THEN u < t ELSE u > t})

One == CHOOSE v \in Values : TRUE
Post(kind, ids, v) ==
    [kind |-> kind, ids |-> ids, value |-> v, before |-> rows, filter |-> filter', asc |-> asc',
     n |-> made + 1, answer |-> None]
Send(left, p) == made < MaxPosts /\ made' = made + 1 /\ posts' = left \cup {p}
Free == Patient => posts = {}

(* The first read has landed.                                               *)
Init ==
    /\ filter = Values /\ asc = TRUE /\ db = [t \in Tasks |-> One]
    /\ rows = Answer(db, filter, asc)
    /\ selection = {} /\ anchor = None /\ confirm = None /\ edit = None
    /\ posts = {} /\ made = 0 /\ stale = FALSE

-----------------------------------------------------------------------------
(* The filter watch: projects the screen's predicate and asks again.  The    *)
(* selection is left as it is.                                              *)
applyFilter(f) ==
    /\ f # filter /\ Free
    /\ filter' = f
    /\ UNCHANGED asc
    /\ Send(posts, Post("read", {}, None))
    /\ UNCHANGED <<rows, selVars, confirm, edit, stale, db>>

(* applyOrder writes the order and the query is bumped; the rows keep theirs *)
(* until the answer.                                                       *)
onHeaderClick ==
    /\ Free
    /\ asc' = ~asc
    /\ UNCHANGED filter
    /\ Send(posts, Post("read", {}, None))
    /\ UNCHANGED <<rows, selVars, confirm, edit, stale, db>>

(* setSelection; shift adds the rows from the anchor to this one.            *)
toggleRowSelection(t, extend) ==
    /\ t \in Listed /\ edit = None
    /\ selection' =
        IF extend /\ anchor # None /\ anchor # t /\ anchor \in Listed
        THEN selection \cup {u \in Listed : (u - anchor) * (u - t) <= 0}
        ELSE (selection \ {t}) \cup ({t} \ selection)
    /\ anchor' = t
    /\ UNCHANGED <<queryVars, rows, confirm, edit, posts, made, stale, db>>

toggleSelectAll ==
    /\ edit = None
    /\ selection' = IF Listed # {} /\ Listed \subseteq selection THEN {} ELSE selection \cup Listed
    /\ UNCHANGED <<queryVars, rows, anchor, confirm, edit, posts, made, stale, db>>

(* The bar shows, with its buttons live, while something is selected.       *)
barShown == selection # {}
clearSelection ==
    /\ barShown
    /\ selection' = {} /\ confirm' = None
    /\ UNCHANGED <<queryVars, rows, anchor, edit, posts, made, stale, db>>

-----------------------------------------------------------------------------
(* The bar.  A burst is one POST: its writes, then the read.                 *)
burst(kind, ids, v, shown) ==
    /\ Free /\ ids # {}
    /\ UNCHANGED queryVars
    /\ Send(posts, Post(kind, ids, v))
    /\ rows' = shown
    /\ selection' = {} /\ confirm' = None
    /\ UNCHANGED <<anchor, edit, stale, db>>

(* applyUnassign is the same with no value.                                 *)
applyAssign(v) == burst("assign", selection, v, Patch(rows, selection, v))

(* Selected tasks below another selected one, found by following the parents *)
(* of the rows listed, are left to the move of that one.                     *)
Parents[b \in Tasks] ==
    Upto(b, Listed) \cup UNION {Parents[a] : a \in Upto(b, Listed)}
moveRoots(ids) == {t \in ids : Parents[t] \cap ids = {}}
onMovePicked == burst("move", moveRoots(selection), None, rows)

openPurgeConfirm ==
    /\ barShown
    /\ confirm' = Cardinality(selection)
    /\ UNCHANGED <<queryVars, rows, selVars, edit, posts, made, stale, db>>
closePurgeConfirm ==
    /\ confirm # None
    /\ confirm' = None
    /\ UNCHANGED <<queryVars, rows, selVars, edit, posts, made, stale, db>>
applyPurge == confirm # None /\ burst("purge", selection, None, rows)

-----------------------------------------------------------------------------
(* Cells.  Bound: one is open only while nothing is selected.               *)
beginCellEdit(t) ==
    /\ t \in Listed /\ selection = {}
    /\ edit' = [card |-> t, slot |-> Slot(rows, t)]
    /\ UNCHANGED <<queryVars, rows, selVars, confirm, posts, made, stale, db>>
cancelCellEdit ==
    /\ edit # None
    /\ edit' = None
    /\ UNCHANGED <<queryVars, rows, selVars, confirm, posts, made, stale, db>>

(* Enter or leaving the cell; nothing is sent for a row that is gone or an   *)
(* unchanged value.                                                        *)
commitCellEdit(v) ==
    /\ edit # None
    /\ edit' = None
    /\ UNCHANGED queryVars
    /\ IF edit.card \in Listed /\ rows.of[edit.card] # v
       THEN /\ Free
            /\ rows' = Patch(rows, {edit.card}, v)
            /\ Send(posts, Post("cell", {edit.card}, v))
       ELSE UNCHANGED <<rows, posts, made>>
    /\ UNCHANGED <<selVars, confirm, stale, db>>

-----------------------------------------------------------------------------
(* The server: a POST is one transaction.  A move takes the tasks below with *)
(* it, and refuses a task that is already there.                            *)
Writes(p) ==
    CASE p.kind \in {"assign", "cell"} -> [t \in DOMAIN db |-> IF t \in p.ids THEN p.value ELSE db[t]]
      [] p.kind \in {"move", "purge"} ->
            [t \in DOMAIN db \ (p.ids \cup IF p.kind = "move" THEN UNION {Under(a) : a \in p.ids} ELSE {})
               |-> db[t]]
      [] OTHER -> db
Redundant(p) == p.kind = "move" /\ \E t \in p.ids : p.ids \cap Under(t) # {}

ServerRuns(p) ==
    /\ p.answer = None /\ p.ids \subseteq DOMAIN db /\ ~Redundant(p)
    /\ db' = Writes(p)
    /\ posts' = (posts \ {p}) \cup {[p EXCEPT !.answer = Answer(db', p.filter, p.asc)]}
    /\ UNCHANGED <<queryVars, rows, selVars, confirm, edit, made, stale>>

(* A refused POST.  Each assignment puts back what was shown before it, so   *)
(* the last one puts back what the others had already changed; a refused     *)
(* cell asks for the rows again.                                           *)
Refused(p) ==
    /\ p.answer = None
    /\ UNCHANGED queryVars
    /\ IF p.kind = "cell" THEN Send(posts \ {p}, Post("read", {}, None)) /\ UNCHANGED stale
       ELSE posts' = posts \ {p} /\ stale' = TRUE /\ UNCHANGED made
    /\ IF p.kind = "assign" THEN \E last \in p.ids : rows' = Patch(p.before, p.ids \ {last}, p.value)
       ELSE UNCHANGED rows
    /\ UNCHANGED <<selVars, confirm, edit, db>>

(* The rows are painted into the same elements: a cell under edit stays open *)
(* only if its element still shows its task, or shows none.                 *)
landTasks(p) ==
    /\ p.answer # None
    /\ posts' = posts \ {p}
    /\ IF p.kind = "cell" THEN UNCHANGED <<rows, edit, stale>>
       ELSE /\ rows' = p.answer
            /\ stale' = FALSE
            /\ edit' = IF edit # None /\ \E t \in DOMAIN p.answer.of :
                            t # edit.card /\ Slot(p.answer, t) = edit.slot
                       THEN None ELSE edit
    /\ UNCHANGED <<queryVars, selVars, confirm, made, db>>

Next ==
    \/ \E f \in {Values, {One}} : applyFilter(f)
    \/ onHeaderClick \/ toggleSelectAll \/ clearSelection
    \/ \E t \in Tasks : beginCellEdit(t) \/ \E extend \in BOOLEAN : toggleRowSelection(t, extend)
    \/ \E v \in Values : applyAssign(v) \/ commitCellEdit(v)
    \/ onMovePicked \/ openPurgeConfirm \/ closePurgeConfirm \/ applyPurge
    \/ cancelCellEdit
    \/ \E p \in posts : ServerRuns(p) \/ Refused(p) \/ landTasks(p)

Spec == Init /\ [][Next]_vars

-----------------------------------------------------------------------------
TypeOK ==
    /\ filter \subseteq Values /\ selection \subseteq Tasks /\ DOMAIN db \subseteq Tasks
    /\ confirm \in {None} \cup Tasks
    /\ Listed \subseteq Tasks /\ \A t \in Listed : rows.of[t] \in Values
    /\ edit # None => edit.card \in Tasks

(* With nothing under way and no read missing, every row says what the       *)
(* server has, and no row that passes the filter is missing.                 *)
RowsTrue ==
    posts = {} /\ ~stale =>
        /\ \A t \in Listed : t \in DOMAIN db /\ rows.of[t] = db[t]
        /\ \A t \in DOMAIN db : db[t] \in filter => t \in Listed

(* An open cell is drawn in an element no other row is drawn in.            *)
CellInOwnRow == edit # None => \A t \in Listed : Slot(rows, t) = edit.slot => t = edit.card

(* A move names no task that the move of another already takes along:         *)
(* moveRoots drops "any selected card that's a `parent_task` descendant of    *)
(* another selected card".                                                 *)
MovesRoots == \A p \in posts : ~Redundant(p)

(* The dialog that was confirmed named as many tasks as are purged.         *)
PurgesCountedStep ==
    \A p \in posts' \ posts : p.kind = "purge" /\ p.answer = None =>
                        confirm = Cardinality(p.ids)
PurgesCounted == [][PurgesCountedStep]_vars

(* A refused assignment leaves no row with a value that was not saved:        *)
(* "Optimistic per row ... auto-rollback on fault".                         *)
RollsBackStep ==
    \A p \in posts \ posts' : p.kind = "assign" /\ p.answer = None =>
                    (\E q \in posts' : q.n = p.n) \/ rows' = p.before
RollsBack == [][RollsBackStep]_vars

-----------------------------------------------------------------------------
(* What holds at every step of a user who waits. CellInOwnRow is not inductive: a  *)
(* refused assignment puts rows back, so what it puts back must be the rows listed; *)
(* that it is, nobody having read others meanwhile, is what waiting gives.        *)
RowsShape(r) == r = [asc |-> r.asc, of |-> r.of] /\ r.asc \in BOOLEAN /\ DOMAIN r.of \subseteq Tasks
SameRows(r, s) == RowsShape(r) /\ r.asc = s.asc /\ DOMAIN r.of = DOMAIN s.of
PostShape(p) ==
    /\ p = [kind |-> p.kind, ids |-> p.ids, value |-> p.value, before |-> p.before,
            filter |-> p.filter, asc |-> p.asc, n |-> p.n, answer |-> p.answer]
    /\ p.asc \in BOOLEAN
    /\ p.answer # None => RowsShape(p.answer)
Shapes == asc \in BOOLEAN /\ DOMAIN db \subseteq Tasks /\ RowsShape(rows) /\ \A p \in posts : PostShape(p)
OnePost == \A p, q \in posts : p = q
BeforeListed == \A p \in posts : SameRows(p.before, rows)

Inv == Shapes /\ OnePost /\ BeforeListed /\ CellInOwnRow
=============================================================================

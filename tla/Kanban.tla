------------------------------- MODULE Kanban -------------------------------
(***************************************************************************)
(* The board (kanban/kanban.ts, kanban/kanban-helpers.ts): cards in columns    *)
(* and swim lanes, dropped or moved by key with every write shown at once, a    *)
(* cursor that names its card and cell, and the statuses of the project's flow,  *)
(* read in two steps.                                                       *)
(***************************************************************************)
EXTENDS Integers, FiniteSets

CONSTANTS
    Cards,      \* cards of the project, numbers
    Cols,       \* keys of the column axis, numbers from left to right
    Lanes,      \* keys of the lane axis
    None,
    MaxPosts,   \* bound: POSTs made
    Tagged,     \* whether both axes are tag prefixes
    Patient     \* whether the user waits for every answer

VARIABLES
    filter,     \* kanban.where / tree: the columns whose cards pass
    rows,       \* kanban.tasks: card -> column, lane, sort_order (0 for none)
    cursor,     \* None, or the card with the cell it was last seen in
    remembered, restored,
    dragging,   \* draggingCardId
    steps,      \* flow.list / flow_step.list answers under way, by project
    scope, workflow,
    posts, made,
    missed,     \* a read failed since the last that did not
    lost,       \* a refused drop of several writes since the last read
    db          \* the server's cards

vars == <<filter, rows, cursor, remembered, restored, dragging, steps, scope, workflow,
          posts, made, missed, lost, db>>
cursorVars == <<cursor, remembered, restored>>
flowVars == <<steps, scope, workflow>>
sendVars == <<posts, made>>

Task == [col : Cols, lane : Lanes, sort : 0 .. Cardinality(Cards)]
Read(cards, f, p) == [c \in {d \in Cards : p = 1 /\ cards[d].col \in f} |-> cards[c]]

(* sortByOrder within a cell: sort_order, none last, then id.               *)
Cell(r, k, l) == {c \in DOMAIN r : r[c].col = k /\ r[c].lane = l}
Before(r, c, d) ==
    IF r[c].sort = r[d].sort THEN c < d ELSE r[d].sort = 0 \/ (r[c].sort # 0 /\ r[c].sort < r[d].sort)
Place(r, cell, c) == Cardinality({d \in cell : Before(r, d, c)})
FirstOf(r, cell) == CHOOSE c \in cell : Place(r, cell, c) = 0

Lowest(S) == CHOOSE x \in S : \A y \in S : x <= y
Init ==
    /\ db = [c \in Cards |-> [col |-> Lowest(Cols), lane |-> Lowest(Lanes), sort |-> 0]]
    /\ filter = Cols /\ scope = 1 /\ rows = Read(db, filter, scope)
    /\ cursor = None /\ remembered \in {None, Lowest(Cards)} /\ restored = FALSE /\ dragging = None
    /\ steps = {} /\ workflow = 1
    /\ posts = {} /\ made = 0 /\ missed = FALSE /\ lost = FALSE

-----------------------------------------------------------------------------
Post(kind, ids, to, undo) ==
    [n |-> made + 1, kind |-> kind, ids |-> ids, to |-> to, undo |-> undo,
     filter |-> filter', scope |-> scope', answer |-> None]
Send(left, p) == made < MaxPosts /\ made' = made + 1 /\ posts' = left \cup {p}
Free == Patient => posts = {} /\ steps = {}

(* The board effect after a change of the rows: the cursor is put on its     *)
(* remembered card once, and follows its card to the cell it is in.          *)
At(r, c) == [card |-> c, col |-> r[c].col, lane |-> r[c].lane]
(* A mutant of renderBoard: the cursor stays where its card was.             *)
renderBoardStays(r) ==
    /\ rows' = r
    /\ restored' = (restored \/ DOMAIN r # {})
    /\ cursor' = IF ~restored /\ remembered \in DOMAIN r THEN At(r, remembered) ELSE cursor
renderBoard(r) ==
    /\ rows' = r
    /\ restored' = (restored \/ DOMAIN r # {})
    /\ cursor' = IF ~restored /\ remembered \in DOMAIN r THEN At(r, remembered)
                 ELSE IF cursor # None /\ cursor.card \in DOMAIN r THEN At(r, cursor.card)
                 ELSE cursor

applyFilter(f) ==
    /\ f # filter /\ Free
    /\ filter' = f
    /\ UNCHANGED flowVars
    /\ Send(posts, Post("read", {}, rows, rows))
    /\ UNCHANGED <<rows, cursorVars, dragging, missed, lost, db>>

(* A change of project reads the tasks and, in two calls, the statuses of    *)
(* its flow.                                                               *)
setScope(p) ==
    /\ p # scope /\ Free
    /\ scope' = p
    /\ steps' = steps \cup {[scope |-> p, call |-> "flow.list"]}
    /\ UNCHANGED <<filter, workflow>>
    /\ Send(posts, Post("read", {}, rows, rows))
    /\ UNCHANGED <<rows, cursorVars, dragging, missed, lost, db>>

loadWorkflowStatuses(s) ==
    /\ IF s.call = "flow.list"
       THEN steps' = (steps \ {s}) \cup {[s EXCEPT !.call = "flow_step.list"]} /\ UNCHANGED workflow
       ELSE steps' = steps \ {s} /\ workflow' = s.scope
    /\ UNCHANGED <<filter, rows, cursorVars, dragging, scope, sendVars, missed, lost, db>>

-----------------------------------------------------------------------------
(* The cursor.                                                             *)
revealCursor(c) == cursor' = At(rows, c) /\ remembered' = c
cursorToFirst ==
    /\ cursor = None
    /\ \E k \in Cols, l \in Lanes : Cell(rows, k, l) # {} /\ revealCursor(FirstOf(rows, Cell(rows, k, l)))
    /\ UNCHANGED <<filter, rows, restored, dragging, flowVars, sendVars, missed, lost, db>>
navCard(c) ==
    /\ cursor # None /\ c \in Cell(rows, cursor.col, cursor.lane)
    /\ cursor.card \in DOMAIN rows
    /\ LET cell == Cell(rows, cursor.col, cursor.lane) IN
       Place(rows, cell, c) - Place(rows, cell, cursor.card) \in {-1, 1}
    /\ revealCursor(c)
    /\ UNCHANGED <<filter, rows, restored, dragging, flowVars, sendVars, missed, lost, db>>

(* The next column of the lane that has a card; the card entered is the one  *)
(* last visited there, or the first.                                       *)
navColumn(c) ==
    /\ cursor # None /\ c \in DOMAIN rows
    /\ rows[c].lane = cursor.lane /\ rows[c].col # cursor.col
    /\ \A d \in DOMAIN rows : rows[d].lane = cursor.lane =>
         (rows[d].col - cursor.col) * (rows[d].col - rows[c].col) >= 0
    /\ revealCursor(c)
    /\ UNCHANGED <<filter, rows, restored, dragging, flowVars, sendVars, missed, lost, db>>

openCard(c) ==
    /\ c \in DOMAIN rows
    /\ revealCursor(c)
    /\ UNCHANGED <<filter, rows, restored, dragging, flowVars, sendVars, missed, lost, db>>

-----------------------------------------------------------------------------
(* Moves.  rekeyAxis writes one axis; on tag axes what is shown is the tags   *)
(* the card had before the drop with one replaced, so the second of two does  *)
(* not show the first.                                                     *)
RekeyLane(r, c, l) == [r EXCEPT ![c].lane = l]
RekeyCol(r, c, k) == [r EXCEPT ![c].col = k, ![c].lane = IF Tagged THEN rows[c].lane ELSE r[c].lane]

moveFocused(k) ==
    /\ cursor # None /\ cursor.card \in DOMAIN rows /\ Free
    /\ k - cursor.col \in {-1, 1} /\ k \in Cols
    /\ UNCHANGED <<filter, flowVars>>
    /\ renderBoard(RekeyCol(rows, cursor.card, k))
    /\ Send(posts, Post("move", {cursor.card}, RekeyCol(rows, cursor.card, k), rows))
    /\ remembered' = cursor.card
    /\ UNCHANGED <<dragging, missed, lost, db>>

dragstart(c) ==
    /\ c \in DOMAIN rows /\ dragging = None
    /\ dragging' = c
    /\ UNCHANGED <<filter, rows, cursorVars, flowVars, sendVars, missed, lost, db>>
dragend ==
    /\ dragging # None
    /\ dragging' = None
    /\ UNCHANGED <<filter, rows, cursorVars, flowVars, sendVars, missed, lost, db>>

(* planSortRewrite: every card of the cell gets its place; those whose order  *)
(* was another are written, from the top.                                   *)
Sorted(r, c, k, l, slot) ==
    LET rest == Cell(rows, k, l) \ {c}
        place(d) == Place(rows, rest, d)
        order(d) == IF d = c THEN slot + 1 ELSE IF place(d) < slot THEN place(d) + 1 ELSE place(d) + 2
    IN [d \in DOMAIN r |-> IF d \in rest \cup {c} THEN [r[d] EXCEPT !.sort = order(d)] ELSE r[d]]

(* onDropInto: lane, column, then the orders, all in one POST.  What a fault  *)
(* puts back last is what was shown before the last of those writes; the      *)
(* server is sent what each of them means.                                  *)
onDropInto(k, l, slot) ==
    /\ dragging # None /\ Free
    /\ dragging' = None
    /\ UNCHANGED <<filter, flowVars, remembered>>
    /\ IF dragging \notin DOMAIN rows THEN UNCHANGED <<rows, cursor, restored, sendVars>>
       ELSE LET c == dragging
                lane == RekeyLane(rows, c, l)
                keyed == IF rows[c].col = k THEN lane ELSE RekeyCol(lane, c, k)
                shown == Sorted(keyed, c, k, l, slot)
                written == {d \in DOMAIN rows : shown[d].sort # rows[d].sort}
                last == CHOOSE d \in written : \A e \in written : shown[e].sort <= shown[d].sort
                undo == CASE written # {} -> [shown EXCEPT ![last].sort = rows[last].sort]
                          [] written = {} /\ rows[c].col # k -> lane
                          [] OTHER -> rows
            IN /\ slot <= Cardinality(Cell(rows, k, l) \ {c})
               /\ IF shown = rows THEN UNCHANGED <<rows, cursor, restored, sendVars>>
                  ELSE /\ renderBoard(shown)
                       /\ Send(posts, Post("move", written \cup {c}, [shown EXCEPT ![c].lane = l], undo))
    /\ UNCHANGED <<missed, lost, db>>

-----------------------------------------------------------------------------
ServerRuns(p) ==
    /\ p.answer = None
    /\ db' = [c \in Cards |-> IF p.kind = "move" /\ c \in p.ids THEN p.to[c] ELSE db[c]]
    /\ posts' = (posts \ {p}) \cup {[p EXCEPT !.answer = Read(db, p.filter, p.scope)]}
    /\ UNCHANGED <<filter, rows, cursorVars, dragging, flowVars, made, missed, lost>>

Refused(p) ==
    /\ p.answer = None
    /\ posts' = posts \ {p}
    /\ IF p.kind = "read" THEN missed' = TRUE /\ UNCHANGED <<rows, cursor, restored, lost>>
       ELSE /\ renderBoard(p.undo)
            /\ lost' = (lost \/ \E c \in DOMAIN p.undo : p.undo[c] # db[c])
            /\ UNCHANGED missed
    /\ UNCHANGED <<filter, remembered, dragging, flowVars, made, db>>

landTasks(p) ==
    /\ p.answer # None
    /\ posts' = posts \ {p}
    /\ IF p.kind = "read" THEN renderBoard(p.answer) /\ missed' = FALSE /\ lost' = FALSE
       ELSE UNCHANGED <<rows, cursor, restored, missed, lost>>
    /\ UNCHANGED <<filter, remembered, dragging, flowVars, made, db>>

Next ==
    \/ \E f \in {Cols, {Lowest(Cols)}} : applyFilter(f)
    \/ \E p \in {1, 2} : setScope(p)
    \/ \E s \in steps : loadWorkflowStatuses(s)
    \/ cursorToFirst \/ dragend
    \/ \E c \in Cards : navCard(c) \/ navColumn(c) \/ openCard(c) \/ dragstart(c)
    \/ \E k \in Cols : moveFocused(k) \/ \E l \in Lanes, slot \in 0 .. Cardinality(Cards) : onDropInto(k, l, slot)
    \/ \E p \in posts : ServerRuns(p) \/ Refused(p) \/ landTasks(p)

Spec == Init /\ [][Next]_vars

-----------------------------------------------------------------------------
TypeOK ==
    /\ filter \subseteq Cols /\ scope \in {1, 2} /\ workflow \in {1, 2}
    /\ DOMAIN rows \subseteq Cards /\ \A c \in DOMAIN rows : rows[c] \in Task
    /\ cursor # None => cursor.card \in Cards
    /\ dragging \in Cards \cup {None} /\ db \in [Cards -> Task]

(* With nothing under way, the board shows each card in the cell and order    *)
(* the server has for it, and the columns are the flow's of this project;     *)
(* except after a failed read or a refused drop of several writes.           *)
BoardTrue ==
    /\ posts = {} /\ ~missed /\ ~lost =>
         /\ \A c \in DOMAIN rows : rows[c] = db[c]
         /\ \A c \in DOMAIN Read(db, filter, scope) : c \in DOMAIN rows
    /\ steps = {} => workflow = scope

(* The cursor is in the cell its card is shown in, through moves and          *)
(* rollbacks alike.                                                        *)
CursorWithCard == cursor # None /\ cursor.card \in DOMAIN rows => cursor = At(rows, cursor.card)

(* A refused drop leaves the board as it was: "on fault the tree transaction   *)
(* auto-rolls-back".                                                       *)
DropUndone == ~lost
=============================================================================

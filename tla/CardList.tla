------------------------------ MODULE CardList ------------------------------
(***************************************************************************)
(* The card list (cardlist/core.ts, cardlist/card-list.ts): rows under a        *)
(* personal order that keys and drags rewrite, a cursor that is an index, a     *)
(* toggle that filters, groups, and each row's agent.                         *)
(***************************************************************************)
EXTENDS Integers, FiniteSets

CONSTANTS
    N,          \* cards of the view
    Flagged,    \* those the toggle keeps
    Group,      \* each card's group
    Agents,
    None,
    MaxCalls,   \* bound: POSTs made
    Patient     \* whether the user waits for every answer

VARIABLES
    rows,       \* <p>.rows: card -> personal_sort_order in steps; 0 for none
    selectedIndex,
    remembered, restored,   \* session.cursor, cursorRestored
    flaggedOnly, grouped,
    routing,    \* <p>.routing: card -> agent
    drag,       \* the dragged row and the slot last drawn
    calls, made,
    missed,     \* a read failed since the last that did not
    lost,       \* a reorder was refused since the last read
    sort, route \* the server's personal order and agents

vars == <<rows, selectedIndex, remembered, restored, flaggedOnly, grouped, routing, drag,
          calls, made, missed, lost, sort, route>>
cursorVars == <<selectedIndex, remembered, restored>>
viewVars == <<flaggedOnly, grouped>>
serverVars == <<sort, route>>

Cards == 1 .. N
Unrouted == [c \in Cards |-> None]
Read(s, f) == [c \in IF f THEN Flagged ELSE Cards |-> s[c]]

(* comparePersonal under sortGrouped: group, then order, none last, then id. *)
Before(r, c, d) ==
    \/ grouped /\ Group[c] < Group[d]
    \/ /\ grouped => Group[c] = Group[d]
       /\ IF r[c] = r[d] THEN c < d ELSE r[d] = 0 \/ (r[c] # 0 /\ r[c] < r[d])
Place(r, c) == Cardinality({d \in DOMAIN r : Before(r, d, c)})
displayRows == [i \in 0 .. Cardinality(DOMAIN rows) - 1 |-> CHOOSE c \in DOMAIN rows : Place(rows, c) = i]
rowCount == Cardinality(DOMAIN rows)

Call(kind, arg) ==
    [n |-> made + 1, kind |-> kind, arg |-> arg, before |-> IF kind = "route" THEN routing ELSE rows',
     answer |-> None]
Send(left, c) == made < MaxCalls /\ made' = made + 1 /\ calls' = left \cup {c}
Free == Patient => calls = {}

Init ==
    /\ rows = [c \in {} |-> 0] /\ selectedIndex = 0 /\ remembered \in {None, N} /\ restored = FALSE
    /\ flaggedOnly = FALSE /\ grouped = FALSE /\ routing = Unrouted /\ drag = None
    /\ sort = [c \in Cards |-> 0] /\ route = Unrouted
    /\ calls = {[n |-> 1, kind |-> "read", arg |-> FALSE, before |-> rows, answer |-> None]}
    /\ made = 1 /\ missed = FALSE /\ lost = FALSE

-----------------------------------------------------------------------------
(* Cursor.                                                                 *)
moveSelection(delta) ==
    /\ rowCount > 0
    /\ LET i == selectedIndex + delta
           at == IF i < 0 THEN 0 ELSE IF i >= rowCount THEN rowCount - 1 ELSE i
       IN selectedIndex' = at /\ remembered' = displayRows[at]
    /\ UNCHANGED <<rows, restored, viewVars, routing, drag, calls, made, missed, lost, serverVars>>

openRowIndex(i) ==
    /\ i \in DOMAIN displayRows
    /\ selectedIndex' = i /\ remembered' = displayRows[i]
    /\ UNCHANGED <<rows, restored, viewVars, routing, drag, calls, made, missed, lost, serverVars>>

(* The toggle and the group axis: written into the query, which is bumped.   *)
applyFilterAndOrder(f, g) ==
    /\ <<f, g>> # <<flaggedOnly, grouped>> /\ Free
    /\ flaggedOnly' = f /\ grouped' = g
    /\ UNCHANGED rows
    /\ Send(calls, Call("read", f))
    /\ UNCHANGED <<cursorVars, routing, drag, missed, lost, serverVars>>

-----------------------------------------------------------------------------
(* Reordering: every row listed gets its place as its order, the rows are    *)
(* written, and each row that changed is sent; the optimistic write of the    *)
(* call itself then changes nothing.                                       *)
Moved(c, at) ==
    LET others == DOMAIN rows \ {c}
        slot(d) == Cardinality({e \in others : Before(rows, e, d)})
        to == IF at > Cardinality(others) THEN Cardinality(others) ELSE at
    IN [d \in DOMAIN rows |-> 1 + IF d = c THEN to ELSE IF slot(d) >= to THEN slot(d) + 1 ELSE slot(d)]
Updates(r) == {d \in DOMAIN r : rows[d] # r[d]}
reorderTo(c, at) ==
    LET r == Moved(c, at) IN
    /\ Free
    /\ rows' = r
    /\ IF Updates(r) = {} THEN UNCHANGED <<calls, made>>
       ELSE Send(calls, Call("reorder", [d \in Updates(r) |-> r[d]]))
    /\ UNCHANGED <<restored, viewVars, routing, missed, lost, serverVars>>

(* groupSpan: the places of the card's group.                              *)
Span(c) == {i \in DOMAIN displayRows : grouped => Group[displayRows[i]] = Group[c]}
reorderSelected(delta) ==
    /\ rowCount >= 2 /\ selectedIndex \in DOMAIN displayRows
    /\ LET c == displayRows[selectedIndex] IN
       /\ selectedIndex + delta \in Span(c)
       /\ selectedIndex' = selectedIndex + delta /\ remembered' = c
       /\ reorderTo(c, selectedIndex + delta)
    /\ UNCHANGED drag

dragover(c, at) ==
    /\ c \in DOMAIN rows /\ at \in Span(c)
    /\ drag # None => drag.card = c
    /\ drag' = [card |-> c, slot |-> at] /\ drag' # drag
    /\ UNCHANGED <<rows, cursorVars, viewVars, routing, calls, made, missed, lost, serverVars>>

(* The slot is the one drawn last, whatever rows were read since; a card     *)
(* that is no longer listed moves nothing.                                 *)
drop ==
    /\ drag # None
    /\ drag' = None
    /\ IF drag.card \in DOMAIN rows
       THEN /\ reorderTo(drag.card, drag.slot)
            /\ selectedIndex' = rows'[drag.card] - 1 /\ remembered' = drag.card
       ELSE UNCHANGED <<rows, cursorVars, viewVars, routing, calls, made, missed, lost, serverVars>>
dragend ==
    /\ drag # None
    /\ drag' = None
    /\ UNCHANGED <<rows, cursorVars, viewVars, routing, calls, made, missed, lost, serverVars>>

(* The agent of a row, or none: user_card_agent.set and .clear.              *)
delegateRow(c, a) ==
    /\ c \in DOMAIN rows /\ routing[c] # a /\ Free
    /\ routing' = [routing EXCEPT ![c] = a]
    /\ UNCHANGED rows
    /\ Send(calls, Call("route", [card |-> c, agent |-> a]))
    /\ UNCHANGED <<cursorVars, viewVars, drag, missed, lost, serverVars>>

-----------------------------------------------------------------------------
ServerRuns(c) ==
    /\ c.answer = None
    /\ sort' = IF c.kind = "reorder" THEN [d \in Cards |-> IF d \in DOMAIN c.arg THEN c.arg[d] ELSE sort[d]] ELSE sort
    /\ route' = IF c.kind = "route" THEN [route EXCEPT ![c.arg.card] = c.arg.agent] ELSE route
    /\ calls' = (calls \ {c}) \cup
                {[c EXCEPT !.answer = IF c.kind = "read" THEN Read(sort, c.arg) ELSE rows]}
    /\ UNCHANGED <<rows, cursorVars, viewVars, routing, drag, made, missed, lost>>

Refused(c) ==
    /\ c.answer = None
    /\ calls' = calls \ {c}
    /\ rows' = IF c.kind = "reorder" THEN c.before ELSE rows
    /\ routing' = IF c.kind = "route" THEN c.before ELSE routing
    /\ missed' = (missed \/ c.kind = "read")
    /\ lost' = (lost \/ c.kind = "reorder")
    /\ UNCHANGED <<cursorVars, viewVars, drag, made, serverVars>>

(* landCards: the first answer puts the cursor back on the remembered card;   *)
(* a later one keeps the index, pulled into range.                          *)
landCards(c) ==
    /\ c.answer # None
    /\ calls' = calls \ {c}
    /\ IF c.kind # "read" THEN UNCHANGED <<rows, cursorVars, missed, lost>>
       ELSE LET last == Cardinality(DOMAIN c.answer) - 1 IN
            /\ rows' = c.answer /\ missed' = FALSE /\ lost' = FALSE
            /\ restored' = TRUE
            /\ selectedIndex' =
                 IF ~restored /\ remembered \in DOMAIN c.answer THEN Place(c.answer, remembered)
                 ELSE IF selectedIndex > last THEN (IF last < 0 THEN 0 ELSE last) ELSE selectedIndex
            /\ UNCHANGED remembered
    /\ UNCHANGED <<viewVars, routing, drag, made, serverVars>>

Next ==
    \/ \E delta \in {-1, 1} : moveSelection(delta) \/ reorderSelected(delta)
    \/ \E f, g \in BOOLEAN : applyFilterAndOrder(f, g)
    \/ \E c \in Cards, i \in 0 .. N - 1 : dragover(c, i)
    \/ \E i \in 0 .. N - 1 : openRowIndex(i)
    \/ drop \/ dragend
    \/ \E c \in Cards, a \in Agents \cup {None} : delegateRow(c, a)
    \/ \E c \in calls : ServerRuns(c) \/ Refused(c) \/ landCards(c)

Spec == Init /\ [][Next]_vars

-----------------------------------------------------------------------------
TypeOK ==
    /\ DOMAIN rows \subseteq Cards /\ \A c \in DOMAIN rows : rows[c] \in 0 .. N
    /\ selectedIndex \in 0 .. N - 1 /\ rowCount > 0 => selectedIndex < rowCount
    /\ remembered \in Cards \cup {None}
    /\ routing \in [Cards -> Agents \cup {None}] /\ made <= MaxCalls

(* With nothing under way, the rows are in the order the server keeps for    *)
(* them and each shows the agent it is with; a failed read or a refused       *)
(* reorder excepted.                                                       *)
ListShown ==
    calls = {} =>
        /\ ~missed /\ ~lost => rows = Read(sort, flaggedOnly)
        /\ routing = route

(* A refused reorder is undone: applyPersonalReorder returns a new array and   *)
(* "callers keep the old one for rollback".                                 *)
ReorderUndone == calls = {} /\ ~missed => \A c \in DOMAIN rows : rows[c] = sort[c]
=============================================================================

-------------------------- MODULE WebAnswersProofs --------------------------
(* Proofs that a late answer is shown where it was asked for (OwnAnswers) and that    *)
(* what is submitted is made whole and once (MadeWhole), on every page of WebAnswers:  *)
(* each part's invariant is inductive, and holds its conjuncts of the two. The slots   *)
(* stand for the part's variables, in the order its INSTANCE names them.              *)
EXTENDS WebAnswers, FiniteSetTheorems, SequenceTheorems, TLAPS

-----------------------------------------------------------------------------
(* The grid (grid/grid.ts). At most one POST is out, asked of the rows now listed, so  *)
(* what lands under an open cell has the same tasks in the same order, or closes it.   *)
(* Here s1 is filter, s2 is asc, s3 is rows, s7 is edit, s8 is posts, s11 is db.     *)

(* Rows listed under the same tasks in the same order are in the same slots.   *)
LEMMA SlotsOfRows ==
    ASSUME NEW r, NEW s, Table!SameRows(r, s)
    PROVE  \A t : Table!Slot(r, t) = Table!Slot(s, t)
  BY DEF Table!Slot, Table!SameRows

(* A set's cardinality is the same in the grid's module.                              *)
LEMMA GridCount == ASSUME NEW S PROVE Table!Cardinality(S) = Cardinality(S)
  BY DEF Table!Cardinality, Cardinality

(* Two tasks of a list are not in one slot.                                  *)
LEMMA SlotsApart ==
    ASSUME NEW r, Table!RowsShape(r), NEW t \in DOMAIN r.of, NEW u \in DOMAIN r.of,
           Table!Slot(r, t) = Table!Slot(r, u)
    PROVE  t = u
<1> DEFINE Above(v) == {w \in DOMAIN r.of : IF r.asc THEN w < v ELSE w > v}
<1>1. DOMAIN r.of \subseteq 1 .. 3 /\ r.asc \in BOOLEAN
  BY DEF Table!RowsShape, Table!Tasks
<1>2. IsFiniteSet(DOMAIN r.of)
  <2>1. IsFiniteSet(1 .. 3)
    BY FS_Interval, 1 \in Int, 3 \in Int, Zenon
  <2> QED BY <1>1, <2>1, FS_Subset
<1>3. ASSUME NEW v \in DOMAIN r.of, NEW w \in DOMAIN r.of, IF r.asc THEN v < w ELSE v > w
      PROVE  Cardinality(Above(v)) # Cardinality(Above(w))
  <2>1. Above(v) \subseteq Above(w) /\ v \in Above(w) /\ v \notin Above(v)
    BY <1>1, <1>3
  <2>2. IsFiniteSet(Above(w))
    BY <1>2, FS_Subset
  <2> QED BY <2>1, <2>2, FS_Subset
<1>4. Cardinality(Above(t)) = Cardinality(Above(u))
  BY GridCount DEF Table!Slot
<1>5. ~(t < u) /\ ~(t > u)
  BY <1>1, <1>3, <1>4
<1> QED BY <1>1, <1>5

(* Patched rows are of the same tasks in the same order.                     *)
LEMMA PatchKeeps ==
    ASSUME NEW r, Table!RowsShape(r), NEW ids, NEW v
    PROVE  Table!RowsShape(Table!Patch(r, ids, v)) /\ Table!SameRows(Table!Patch(r, ids, v), r)
  BY DEF Table!RowsShape, Table!SameRows, Table!Patch

(* What a POST's read lists is a list of tasks.                                     *)
LEMMA AnswerRows ==
    ASSUME NEW cards, DOMAIN cards \subseteq Table!Tasks, NEW f, NEW up \in BOOLEAN
    PROVE  Table!RowsShape(Table!Answer(cards, f, up))
  BY DEF Table!RowsShape, Table!Answer

(* An open cell stays in its row when the same rows are listed.              *)
LEMMA CellStays ==
    ASSUME Table!CellInOwnRow, Table!SameRows(s3', s3), UNCHANGED s7
    PROVE  Table!CellInOwnRow'
<1>1. \A t : Table!Slot(s3', t) = Table!Slot(s3, t)
  BY SlotsOfRows
<1> QED BY <1>1 DEF Table!CellInOwnRow, Table!Listed, Table!SameRows

(* A POST made when none is out.                                            *)
LEMMA PostSent ==
    ASSUME Table!Inv, NEW left, left = {}, NEW kind, NEW ids, NEW v,
           Table!Send(left, Table!Post(kind, ids, v)), s2' \in BOOLEAN, Table!SameRows(s3', s3), UNCHANGED s11
    PROVE  Table!Shapes' /\ Table!OnePost' /\ Table!BeforeListed'
<1> DEFINE p == Table!Post(kind, ids, v)
<1>1. s8' = {p}
  BY DEF Table!Send
<1>2. p.before = s3 /\ p.answer = None /\ p.asc = s2'
      /\ p = [kind |-> p.kind, ids |-> p.ids, value |-> p.value, before |-> p.before,
            filter |-> p.filter, asc |-> p.asc, n |-> p.n, answer |-> p.answer]
  BY DEF Table!Post
<1> HIDE DEF p
<1>3. Table!PostShape(p)
  BY <1>2 DEF Table!PostShape
<1>4. Table!RowsShape(s3) /\ Table!RowsShape(s3') /\ Table!SameRows(s3, s3')
  BY DEF Table!Inv, Table!Shapes, Table!SameRows, Table!RowsShape
<1>5. Table!Shapes'
  BY <1>1, <1>3, <1>4 DEF Table!Inv, Table!Shapes, Table!PostShape, Table!RowsShape, Table!Tasks
<1>6. Table!BeforeListed'
  BY <1>1, <1>2, <1>4 DEF Table!BeforeListed, Table!SameRows, Table!RowsShape, Table!Tasks
<1> QED BY <1>1, <1>5, <1>6 DEF Table!OnePost

(* The grid opens with its invariant.                                               *)
LEMMA GridBegins == Table!Init => Table!Inv
<1> SUFFICES ASSUME Table!Init PROVE Table!Inv
  OBVIOUS
<1>1. DOMAIN s11 = Table!Tasks /\ s2 = TRUE
  BY DEF Table!Init
<1>2. Table!RowsShape(s3)
  BY <1>1, AnswerRows DEF Table!Init
<1> QED BY <1>1, <1>2 DEF Table!Init, Table!Inv, Table!Shapes, Table!OnePost, Table!BeforeListed, Table!CellInOwnRow

(* Nothing of the rows, the POSTs or the open cell changes, or the cell closes. *)
LEMMA GridQuiet ==
    ASSUME Table!Inv, UNCHANGED <<s2, s11, s3, s8>>, s7' = s7 \/ s7' = None
    PROVE  Table!Inv'
<1>1. Table!Shapes' /\ Table!OnePost' /\ Table!BeforeListed'
  BY DEF Table!Inv, Table!Shapes, Table!OnePost, Table!BeforeListed, Table!PostShape, Table!RowsShape,
       Table!SameRows, Table!Tasks
<1>2. CASE s7' = s7
  BY <1>1, <1>2 DEF Table!Inv, Table!CellInOwnRow, Table!Listed, Table!Slot
<1>3. CASE s7' = None
  BY <1>1, <1>3 DEF Table!Inv, Table!CellInOwnRow
<1> QED BY <1>2, <1>3

(* Assigning, moving and purging patch the rows before they are stored.             *)
LEMMA Burst ==
    ASSUME Table!Inv, NEW kind, NEW ids, NEW v, NEW shown, Table!SameRows(shown, s3),
           Table!burst(kind, ids, v, shown)
    PROVE  Table!Inv'
<1>1. /\ s8 = {} /\ s2' = s2 /\ Table!Send(s8, Table!Post(kind, ids, v))
      /\ s3' = shown /\ s7' = s7 /\ s11' = s11
  BY DEF Table!burst, Table!Free, Table!queryVars
<1>2. s2' \in BOOLEAN /\ Table!SameRows(s3', s3)
  BY <1>1 DEF Table!Inv, Table!Shapes
<1>3. Table!Shapes' /\ Table!OnePost' /\ Table!BeforeListed'
  BY <1>1, <1>2, PostSent
<1> QED BY <1>1, <1>2, <1>3, CellStays DEF Table!Inv

(* A cell's commit patches its own row and sends one POST.                          *)
LEMMA CellCommitted == ASSUME Table!Inv, NEW v, Table!commitCellEdit(v) PROVE Table!Inv'
<1>1. s7' = None /\ UNCHANGED <<s1, s2, s11>>
  BY DEF Table!commitCellEdit, Table!queryVars
<1>2. CASE s7.card \in Table!Listed /\ s3.of[s7.card] # v
  <2>1. /\ s8 = {} /\ s3' = Table!Patch(s3, {s7.card}, v)
        /\ Table!Send(s8, Table!Post("cell", {s7.card}, v))
    BY <1>2 DEF Table!commitCellEdit, Table!Free
  <2>2. Table!SameRows(s3', s3) /\ s2' \in BOOLEAN
    BY <1>1, <2>1, PatchKeeps DEF Table!Inv, Table!Shapes
  <2>3. Table!Shapes' /\ Table!OnePost' /\ Table!BeforeListed'
    BY <1>1, <2>1, <2>2, PostSent
  <2> QED BY <1>1, <2>3 DEF Table!Inv, Table!CellInOwnRow
<1>3. CASE ~(s7.card \in Table!Listed /\ s3.of[s7.card] # v)
  BY <1>1, <1>3, GridQuiet DEF Table!commitCellEdit
<1> QED BY <1>2, <1>3

(* The server's answer is of the POST's own filter and order.                       *)
LEMMA PostRun == ASSUME Table!Inv, NEW p \in s8, Table!ServerRuns(p) PROVE Table!Inv'
<1> DEFINE q == [p EXCEPT !.answer = Table!Answer(s11', p.filter, p.asc)]
<1>1. /\ s8' = (s8 \ {p}) \cup {q} /\ s11' = Table!Writes(p)
      /\ UNCHANGED <<s2, s3, s7>>
  BY DEF Table!ServerRuns, Table!queryVars
<1>2. s8 = {p} /\ s8' = {q}
  BY <1>1 DEF Table!Inv, Table!OnePost
<1>3. Table!PostShape(p) /\ Table!SameRows(p.before, s3) /\ DOMAIN s11 \subseteq Table!Tasks
  BY DEF Table!Inv, Table!Shapes, Table!BeforeListed
<1>4. DOMAIN s11' \subseteq Table!Tasks
  BY <1>1, <1>3 DEF Table!Writes
<1>5. Table!RowsShape(Table!Answer(s11', p.filter, p.asc))
  BY <1>3, <1>4, AnswerRows DEF Table!PostShape
<1>6. /\ q.before = p.before /\ q.answer = Table!Answer(s11', p.filter, p.asc) /\ q.asc = p.asc
      /\ q = [kind |-> q.kind, ids |-> q.ids, value |-> q.value, before |-> q.before,
              filter |-> q.filter, asc |-> q.asc, n |-> q.n, answer |-> q.answer]
  BY <1>3 DEF Table!PostShape
<1> HIDE DEF q
<1>7. Table!PostShape(q)
  BY <1>3, <1>5, <1>6 DEF Table!PostShape
<1>8. Table!Shapes'
  BY <1>1, <1>2, <1>4, <1>7 DEF Table!Inv, Table!Shapes, Table!PostShape, Table!RowsShape, Table!Tasks
<1>9. Table!BeforeListed'
  BY <1>1, <1>2, <1>3, <1>6 DEF Table!BeforeListed, Table!SameRows, Table!RowsShape, Table!Tasks
<1> QED BY <1>1, <1>2, <1>8, <1>9 DEF Table!Inv, Table!OnePost, Table!CellInOwnRow, Table!Listed, Table!Slot

(* A refusal puts rows back that are listed the same, and a cell's reads again.     *)
LEMMA PostRefused == ASSUME Table!Inv, NEW p \in s8, Table!Refused(p) PROVE Table!Inv'
<1>1. s8 = {p} /\ Table!SameRows(p.before, s3) /\ Table!PostShape(p) /\ s2 \in BOOLEAN /\ Table!RowsShape(s3)
  BY DEF Table!Inv, Table!OnePost, Table!BeforeListed, Table!Shapes
<1>2. UNCHANGED <<s2, s7, s11>>
  BY DEF Table!Refused, Table!queryVars
<1>3. Table!SameRows(s3', s3)
  <2>1. CASE p.kind = "assign"
    <3>1. PICK last \in p.ids : s3' = Table!Patch(p.before, p.ids \ {last}, p.value)
      BY <2>1 DEF Table!Refused
    <3>2. Table!SameRows(s3', p.before)
      BY <1>1, <3>1, PatchKeeps DEF Table!SameRows
    <3> QED BY <1>1, <3>2 DEF Table!SameRows
  <2>2. CASE p.kind # "assign"
    BY <1>1, <2>2 DEF Table!Refused, Table!SameRows
  <2> QED BY <2>1, <2>2
<1>4. Table!Shapes' /\ Table!OnePost' /\ Table!BeforeListed'
  <2>1. CASE p.kind = "cell"
    <3>1. s8 \ {p} = {} /\ Table!Send(s8 \ {p}, Table!Post("read", {}, None))
      BY <1>1, <2>1 DEF Table!Refused
    <3> QED BY <1>1, <1>2, <1>3, <3>1, PostSent
  <2>2. CASE p.kind # "cell"
    <3>1. s8' = {}
      BY <1>1, <2>2 DEF Table!Refused
    <3> QED BY <1>1, <1>2, <1>3, <3>1 DEF Table!Inv, Table!Shapes, Table!OnePost, Table!BeforeListed,
         Table!SameRows, Table!RowsShape, Table!Tasks
  <2> QED BY <2>1, <2>2
<1> QED BY <1>2, <1>3, <1>4, CellStays DEF Table!Inv

(* Rows that land close an open cell when another task takes its slot.              *)
LEMMA PostLanded == ASSUME Table!Inv, NEW p \in s8, Table!landTasks(p) PROVE Table!Inv'
<1>1. s8' = {} /\ UNCHANGED <<s2, s11>> /\ p.answer # None
  BY DEF Table!landTasks, Table!queryVars, Table!Inv, Table!OnePost
<1>2. Table!RowsShape(p.answer) /\ Table!RowsShape(s3) /\ s2 \in BOOLEAN /\ DOMAIN s11 \subseteq Table!Tasks
  BY <1>1 DEF Table!Inv, Table!Shapes, Table!PostShape
<1>3. CASE p.kind = "cell"
  BY <1>1, <1>2, <1>3 DEF Table!landTasks, Table!Inv, Table!Shapes, Table!OnePost, Table!BeforeListed,
       Table!CellInOwnRow, Table!Listed, Table!Slot, Table!RowsShape, Table!Tasks
<1>4. CASE p.kind # "cell"
  <2>1. s3' = p.answer
    BY <1>4 DEF Table!landTasks
  <2>2. s7' = IF s7 # None /\ \E t \in DOMAIN p.answer.of : t # s7.card /\ Table!Slot(p.answer, t) = s7.slot
                THEN None ELSE s7
    BY <1>4 DEF Table!landTasks
  <2>3. Table!Slot(s3, s7.card)' = Table!Slot(s3', s7.card') /\ \A t : Table!Slot(s3, t)' = Table!Slot(s3', t)
    BY DEF Table!Slot, Table!Listed
  <2>4. Table!CellInOwnRow'
    BY <2>1, <2>2, <2>3 DEF Table!CellInOwnRow, Table!Listed
  <2> QED BY <1>1, <1>2, <2>1, <2>4 DEF Table!Inv, Table!Shapes, Table!OnePost, Table!BeforeListed,
       Table!RowsShape, Table!Tasks
<1> QED BY <1>3, <1>4

(* Every step of the grid keeps its invariant.                                      *)
LEMMA GridStep == Table!Inv /\ [Table!Next]_(Table!vars) => Table!Inv'
<1> SUFFICES ASSUME Table!Inv, [Table!Next]_(Table!vars) PROVE Table!Inv'
  OBVIOUS
<1> USE DEF Table!queryVars, Table!selVars
<1>1. Table!RowsShape(s3) /\ Table!SameRows(s3, s3) /\ s2 \in BOOLEAN
  BY DEF Table!Inv, Table!Shapes, Table!SameRows
<1>2. ASSUME NEW f, Table!applyFilter(f) PROVE Table!Inv'
  <2>1. s8 = {} /\ Table!Send(s8, Table!Post("read", {}, None)) /\ UNCHANGED <<s2, s3, s7, s11>>
    BY <1>2 DEF Table!applyFilter, Table!Free
  <2>2. Table!Shapes' /\ Table!OnePost' /\ Table!BeforeListed'
    BY <1>1, <2>1, PostSent
  <2> QED BY <1>1, <2>1, <2>2, CellStays DEF Table!Inv
<1>3. CASE Table!onHeaderClick
  <2>1. s8 = {} /\ Table!Send(s8, Table!Post("read", {}, None)) /\ s2' = ~s2 /\ UNCHANGED <<s3, s7, s11>>
    BY <1>3 DEF Table!onHeaderClick, Table!Free
  <2>2. Table!Shapes' /\ Table!OnePost' /\ Table!BeforeListed'
    BY <1>1, <2>1, PostSent
  <2> QED BY <1>1, <2>1, <2>2, CellStays DEF Table!Inv
<1>4. ASSUME NEW t, Table!beginCellEdit(t) PROVE Table!Inv'
  <2>1. t \in Table!Listed /\ s7' = [card |-> t, slot |-> Table!Slot(s3, t)] /\ UNCHANGED <<s2, s3, s8, s11>>
    BY <1>4 DEF Table!beginCellEdit
  <2>2. \A u \in Table!Listed : Table!Slot(s3, u) = Table!Slot(s3, t) => u = t
    BY <1>1, <2>1, SlotsApart DEF Table!Listed
  <2>3. Table!CellInOwnRow'
    BY <2>1, <2>2 DEF Table!CellInOwnRow, Table!Listed, Table!Slot
  <2> QED BY <2>1, <2>3 DEF Table!Inv, Table!Shapes, Table!OnePost, Table!BeforeListed, Table!RowsShape,
       Table!SameRows, Table!PostShape, Table!Tasks
<1>5. ASSUME NEW v, Table!applyAssign(v) PROVE Table!Inv'
  BY <1>1, <1>5, PatchKeeps, Burst DEF Table!applyAssign
<1>6. CASE Table!onMovePicked
  BY <1>1, <1>6, Burst DEF Table!onMovePicked
<1>7. CASE Table!applyPurge
  BY <1>1, <1>7, Burst DEF Table!applyPurge
<1>8. ASSUME NEW v, Table!commitCellEdit(v) PROVE Table!Inv'
  BY <1>8, CellCommitted
<1>9. ASSUME NEW p \in s8, Table!ServerRuns(p) \/ Table!Refused(p) \/ Table!landTasks(p) PROVE Table!Inv'
  BY <1>9, PostRun, PostRefused, PostLanded
<1>10. ASSUME \/ Table!toggleSelectAll \/ Table!clearSelection \/ Table!openPurgeConfirm
              \/ Table!closePurgeConfirm \/ Table!cancelCellEdit
              \/ \E t \in Table!Tasks, extend \in BOOLEAN : Table!toggleRowSelection(t, extend)
       PROVE  Table!Inv'
  <2>1. UNCHANGED <<s2, s11, s3, s8>> /\ (s7' = s7 \/ s7' = None)
    BY <1>10 DEF Table!toggleSelectAll, Table!clearSelection, Table!openPurgeConfirm, Table!closePurgeConfirm,
         Table!cancelCellEdit,
       Table!toggleRowSelection
  <2> QED BY <2>1, GridQuiet
<1>11. CASE UNCHANGED Table!vars
  BY <1>11, GridQuiet DEF Table!vars
<1> QED BY <1>2, <1>3, <1>4, <1>5, <1>6, <1>7, <1>8, <1>9, <1>10, <1>11 DEF Table!Next

-----------------------------------------------------------------------------
(* The board (kanban/kanban.ts): whatever the rows become, the board effect puts the   *)
(* cursor where its card is, or drops it.                                              *)
(* Here s2 is rows, s3 is cursor, s4 is remembered, s5 is restored, s7 is steps, s10 *)
(* is posts.                                                                         *)

(* However the rows change, the board effect leaves the cursor with its card.   *)
LEMMA EffectFollows ==
    ASSUME Board!CursorWithCard, NEW r, Board!renderBoard(r)
    PROVE  Board!CursorWithCard'
<1>1. s2' = r
  BY DEF Board!renderBoard
<1>2. CASE ~s5 /\ s4 \in DOMAIN r
  <2>1. s3' = Board!At(r, s4) /\ s3'.card = s4
    BY <1>2 DEF Board!renderBoard, Board!At
  <2> QED BY <1>1, <2>1 DEF Board!CursorWithCard, Board!At
<1>3. CASE ~(~s5 /\ s4 \in DOMAIN r) /\ s3 # None /\ s3.card \in DOMAIN r
  <2>1. s3' = Board!At(r, s3.card) /\ s3'.card = s3.card
    BY <1>3 DEF Board!renderBoard, Board!At
  <2> QED BY <1>1, <2>1 DEF Board!CursorWithCard, Board!At
<1>4. CASE ~(~s5 /\ s4 \in DOMAIN r) /\ ~(s3 # None /\ s3.card \in DOMAIN r)
  BY <1>1, <1>4 DEF Board!renderBoard, Board!CursorWithCard
<1> QED BY <1>2, <1>3, <1>4

(* A cursor set by hand is where its card is.                                       *)
LEMMA RevealFollows == ASSUME NEW c, Board!revealCursor(c), s2' = s2 PROVE Board!CursorWithCard'
<1>1. s3' = Board!At(s2, c) /\ s3'.card = c
  BY DEF Board!revealCursor, Board!At
<1> QED BY <1>1 DEF Board!CursorWithCard, Board!At

(* Nor does a step move it that changes no row.                                     *)
LEMMA StillFollows == ASSUME Board!CursorWithCard, UNCHANGED <<s2, s3>> PROVE Board!CursorWithCard'
  BY DEF Board!CursorWithCard, Board!At

(* A drop renders the rows it patched, or does nothing.                             *)
LEMMA DropFollows ==
    ASSUME Board!CursorWithCard, NEW k, NEW l, NEW slot, Board!onDropInto(k, l, slot)
    PROVE  Board!CursorWithCard'
<1>1. UNCHANGED <<s2, s3>> \/ \E r : Board!renderBoard(r)
  BY DEF Board!onDropInto
<1> QED BY <1>1, EffectFollows, StillFollows

(* The board opens with no cursor.                                                  *)
LEMMA BoardBegins == Board!Init => Board!CursorWithCard
  BY DEF Board!Init, Board!CursorWithCard

(* Every step of the board leaves the cursor with its card.                         *)
LEMMA BoardStep == Board!CursorWithCard /\ [Board!Next]_(Board!vars) => Board!CursorWithCard'
<1> SUFFICES ASSUME Board!CursorWithCard, [Board!Next]_(Board!vars) PROVE Board!CursorWithCard'
  OBVIOUS
<1> USE DEF Board!cursorVars
<1>1. ASSUME \/ \E f \in {BoardCols, {Board!Lowest(BoardCols)}} : Board!applyFilter(f)
             \/ \E p \in {1, 2} : Board!setScope(p)
             \/ \E s \in s7 : Board!loadWorkflowStatuses(s)
             \/ \E c \in BoardCards : Board!dragstart(c)
             \/ Board!dragend
             \/ \E p \in s10 : Board!ServerRuns(p)
             \/ UNCHANGED Board!vars
      PROVE  Board!CursorWithCard'
  BY <1>1, StillFollows DEF Board!applyFilter, Board!setScope, Board!loadWorkflowStatuses, Board!dragstart,
       Board!dragend, Board!ServerRuns, Board!vars
<1>2. ASSUME Board!cursorToFirst \/ \E c \in BoardCards : Board!navCard(c) \/ Board!navColumn(c)
             \/ Board!openCard(c)
      PROVE  Board!CursorWithCard'
  BY <1>2, RevealFollows DEF Board!cursorToFirst, Board!navCard, Board!navColumn, Board!openCard
<1>3. ASSUME NEW k, Board!moveFocused(k) PROVE Board!CursorWithCard'
  BY <1>3, EffectFollows DEF Board!moveFocused
<1>4. ASSUME NEW p \in s10, Board!Refused(p) PROVE Board!CursorWithCard'
  BY <1>4, EffectFollows, StillFollows DEF Board!Refused
<1>5. ASSUME NEW p \in s10, Board!landTasks(p) PROVE Board!CursorWithCard'
  BY <1>5, EffectFollows, StillFollows DEF Board!landTasks
<1> QED BY <1>1, <1>2, <1>3, <1>4, <1>5, DropFollows DEF Board!Next

-----------------------------------------------------------------------------
(* The same of a board whose user does not wait.                                       *)
(* Here s2 is rows, s3 is cursor, s4 is remembered, s5 is restored, s7 is steps, s10 *)
(* is posts.                                                                         *)

(* However the rows change, the board effect leaves the cursor with its card.   *)
LEMMA HastyEffectFollows ==
    ASSUME HastyBoard!CursorWithCard, NEW r, HastyBoard!renderBoard(r)
    PROVE  HastyBoard!CursorWithCard'
<1>1. s2' = r
  BY DEF HastyBoard!renderBoard
<1>2. CASE ~s5 /\ s4 \in DOMAIN r
  <2>1. s3' = HastyBoard!At(r, s4) /\ s3'.card = s4
    BY <1>2 DEF HastyBoard!renderBoard, HastyBoard!At
  <2> QED BY <1>1, <2>1 DEF HastyBoard!CursorWithCard, HastyBoard!At
<1>3. CASE ~(~s5 /\ s4 \in DOMAIN r) /\ s3 # None /\ s3.card \in DOMAIN r
  <2>1. s3' = HastyBoard!At(r, s3.card) /\ s3'.card = s3.card
    BY <1>3 DEF HastyBoard!renderBoard, HastyBoard!At
  <2> QED BY <1>1, <2>1 DEF HastyBoard!CursorWithCard, HastyBoard!At
<1>4. CASE ~(~s5 /\ s4 \in DOMAIN r) /\ ~(s3 # None /\ s3.card \in DOMAIN r)
  BY <1>1, <1>4 DEF HastyBoard!renderBoard, HastyBoard!CursorWithCard
<1> QED BY <1>2, <1>3, <1>4

(* A cursor set by hand is where its card is.                                       *)
LEMMA HastyRevealFollows ==
    ASSUME NEW c, HastyBoard!revealCursor(c), s2' = s2
    PROVE  HastyBoard!CursorWithCard'
<1>1. s3' = HastyBoard!At(s2, c) /\ s3'.card = c
  BY DEF HastyBoard!revealCursor, HastyBoard!At
<1> QED BY <1>1 DEF HastyBoard!CursorWithCard, HastyBoard!At

(* Nor does a step move it that changes no row.                                     *)
LEMMA HastyStillFollows ==
    ASSUME HastyBoard!CursorWithCard, UNCHANGED <<s2, s3>>
    PROVE  HastyBoard!CursorWithCard'
  BY DEF HastyBoard!CursorWithCard, HastyBoard!At

(* A drop renders the rows it patched, or does nothing.                             *)
LEMMA HastyDropFollows ==
    ASSUME HastyBoard!CursorWithCard, NEW k, NEW l, NEW slot, HastyBoard!onDropInto(k, l, slot)
    PROVE  HastyBoard!CursorWithCard'
<1>1. UNCHANGED <<s2, s3>> \/ \E r : HastyBoard!renderBoard(r)
  BY DEF HastyBoard!onDropInto
<1> QED BY <1>1, HastyEffectFollows, HastyStillFollows

(* The board opens with no cursor.                                                  *)
LEMMA HastyBoardBegins == HastyBoard!Init => HastyBoard!CursorWithCard
  BY DEF HastyBoard!Init, HastyBoard!CursorWithCard

(* Every step of the hasty board leaves the cursor with its card.                   *)
LEMMA HastyBoardStep ==
    HastyBoard!CursorWithCard /\ [HastyBoard!Next]_(HastyBoard!vars) => HastyBoard!CursorWithCard'
<1> SUFFICES ASSUME HastyBoard!CursorWithCard, [HastyBoard!Next]_(HastyBoard!vars)
             PROVE  HastyBoard!CursorWithCard'
  OBVIOUS
<1> USE DEF HastyBoard!cursorVars
<1>1. ASSUME \/ \E f \in {BoardCols, {HastyBoard!Lowest(BoardCols)}} : HastyBoard!applyFilter(f)
             \/ \E p \in {1, 2} : HastyBoard!setScope(p)
             \/ \E s \in s7 : HastyBoard!loadWorkflowStatuses(s)
             \/ \E c \in BoardCards : HastyBoard!dragstart(c)
             \/ HastyBoard!dragend
             \/ \E p \in s10 : HastyBoard!ServerRuns(p)
             \/ UNCHANGED HastyBoard!vars
      PROVE  HastyBoard!CursorWithCard'
  BY <1>1, HastyStillFollows DEF HastyBoard!applyFilter, HastyBoard!setScope, HastyBoard!loadWorkflowStatuses,
       HastyBoard!dragstart, HastyBoard!dragend, HastyBoard!ServerRuns, HastyBoard!vars
<1>2. ASSUME HastyBoard!cursorToFirst \/ \E c \in BoardCards : HastyBoard!navCard(c) \/ HastyBoard!navColumn(c)
             \/ HastyBoard!openCard(c)
      PROVE  HastyBoard!CursorWithCard'
  BY <1>2, HastyRevealFollows DEF HastyBoard!cursorToFirst, HastyBoard!navCard, HastyBoard!navColumn,
       HastyBoard!openCard
<1>3. ASSUME NEW k, HastyBoard!moveFocused(k) PROVE HastyBoard!CursorWithCard'
  BY <1>3, HastyEffectFollows DEF HastyBoard!moveFocused
<1>4. ASSUME NEW p \in s10, HastyBoard!Refused(p) PROVE HastyBoard!CursorWithCard'
  BY <1>4, HastyEffectFollows, HastyStillFollows DEF HastyBoard!Refused
<1>5. ASSUME NEW p \in s10, HastyBoard!landTasks(p) PROVE HastyBoard!CursorWithCard'
  BY <1>5, HastyEffectFollows, HastyStillFollows DEF HastyBoard!landTasks
<1> QED BY <1>1, <1>2, <1>3, <1>4, <1>5, HastyDropFollows DEF HastyBoard!Next

-----------------------------------------------------------------------------
(* A project's page (areas/area-switches.ts): a switch's call is of the project shown, *)
(* since another is picked with no call out.                                           *)
(* Here s1 is panel, s2 is calls, s3 is asked, s9 is search, s10 is pred, s14 is     *)
(* schema, s16 is text, s18 is scope, s23 is errs.                                   *)

(* A batch sent keeps the invariant when no call is left of another project.   *)
LEMMA BatchSent ==
    ASSUME OneProject!SetsHere, NEW after, after \subseteq s2, s18' = s18 \/ after = {}, NEW cs,
           OneProject!Send(after, cs),
           \A i \in DOMAIN cs : OneProject!CallShape(cs[i]) /\ (cs[i].kind = "set" => cs[i].to = s18')
    PROVE  OneProject!SetsHere'
<1>1. \A c \in s2' : c \in after \/ \E i \in DOMAIN cs : c = [cs[i] EXCEPT !.n = s3 + i]
  BY DEF OneProject!Send
<1>2. ASSUME NEW i \in DOMAIN cs PROVE LET c == [cs[i] EXCEPT !.n = s3 + i]
                                       IN  OneProject!CallShape(c) /\ (c.kind = "set" => c.to = s18')
  BY <1>2 DEF OneProject!CallShape
<1>3. \A c \in after : OneProject!CallShape(c) /\ (c.kind = "set" => c.to = s18')
  BY DEF OneProject!SetsHere
<1>4. ASSUME NEW c \in s2' PROVE OneProject!CallShape(c) /\ (c.kind = "set" => c.to = s18')
  BY <1>1, <1>2, <1>3
<1> QED BY <1>4 DEF OneProject!SetsHere, OneProject!CallShape

(* A call that is over leaves the others as they were.                              *)
LEMMA CallsOver == ASSUME OneProject!SetsHere, s2' \subseteq s2, s18' = s18 PROVE OneProject!SetsHere'
  BY DEF OneProject!SetsHere, OneProject!CallShape

(* A call keeps its kind and, but for the project, its addressee.              *)
LEMMA BatchFieldSet ==
    ASSUME NEW c, OneProject!CallShape(c), NEW v
    PROVE  /\ OneProject!CallShape([c EXCEPT !.n = v]) /\ [c EXCEPT !.n = v].kind = c.kind
           /\ [c EXCEPT !.n = v].to = c.to
           /\ OneProject!CallShape([c EXCEPT !.state = v]) /\ [c EXCEPT !.state = v].kind = c.kind
           /\ [c EXCEPT !.state = v].to = c.to
           /\ OneProject!CallShape([c EXCEPT !.proj = v]) /\ [c EXCEPT !.proj = v].kind = c.kind
           /\ [c EXCEPT !.proj = v].to = c.to
           /\ OneProject!CallShape([c EXCEPT !.got = v]) /\ [c EXCEPT !.got = v].kind = c.kind
           /\ [c EXCEPT !.got = v].to = c.to
  BY DEF OneProject!CallShape

(* A call is made with its kind and its project.                                    *)
LEMMA BatchMade ==
    ASSUME NEW kind, NEW attr, NEW to, NEW prev
    PROVE  LET c == OneProject!Call(kind, attr, to, prev) IN OneProject!CallShape(c) /\ c.kind = kind /\ c.to = to
  BY DEF OneProject!CallShape, OneProject!Call

(* One call sent keeps the invariant,                                               *)
LEMMA OneCall ==
    ASSUME OneProject!SetsHere, NEW after, after \subseteq s2, s18' = s18 \/ after = {}, NEW c,
           OneProject!Send(after, <<c>>),
           OneProject!CallShape(c), c.kind = "set" => c.to = s18'
    PROVE  OneProject!SetsHere'
<1>1. \A i \in DOMAIN <<c>> : <<c>>[i] = c
  OBVIOUS
<1> QED BY <1>1, BatchSent

(* and so does none,                                                                *)
LEMMA NoCall ==
    ASSUME OneProject!SetsHere, NEW after, after \subseteq s2, s18' = s18, OneProject!Send(after, <<>>)
    PROVE  OneProject!SetsHere'
<1>1. DOMAIN <<>> = {}
  OBVIOUS
<1> QED BY <1>1, BatchSent

(* and the labels of a lead, which are no switch.                                   *)
LEMMA LabelsSent ==
    ASSUME OneProject!SetsHere, NEW after, after \subseteq s2, s18' = s18, NEW p,
           OneProject!Send(after, OneProject!resolveRefLabels(p))
    PROVE  OneProject!SetsHere'
<1>1. CASE s14 /\ p.lead # 0
  <2>1. OneProject!Send(after, <<OneProject!Call("labels", "", p.lead, 0)>>)
    BY <1>1 DEF OneProject!resolveRefLabels
  <2> QED BY <2>1, OneCall, BatchMade
<1>2. CASE ~(s14 /\ p.lead # 0)
  <2>1. OneProject!Send(after, <<>>)
    BY <1>2 DEF OneProject!resolveRefLabels
  <2> QED BY <2>1, NoCall
<1> QED BY <1>1, <1>2

(* The page opens with its three reads.                                             *)
LEMMA ProjectBegins == OneProject!Init => OneProject!Inv
<1> SUFFICES ASSUME OneProject!Init PROVE OneProject!Inv
  OBVIOUS
<1>1. CASE s1 = "project"
  <2> DEFINE names == <<"header", "screens", "tasks">>
  <2>1. \A c \in s2 : \E i \in 1 .. 3 : c = [OneProject!Call(names[i], "none", 0, 0) EXCEPT !.n = i]
    BY <1>1 DEF OneProject!Init
  <2>2. \A i \in 1 .. 3 : names[i] \in {"header", "screens", "tasks"}
    OBVIOUS
  <2> HIDE DEF names
  <2>3. ASSUME NEW c \in s2 PROVE OneProject!CallShape(c) /\ c.kind # "set"
    <3>1. PICK i \in 1 .. 3 : c = [OneProject!Call(names[i], "none", 0, 0) EXCEPT !.n = i]
      BY <2>1
    <3> DEFINE d == OneProject!Call(names[i], "none", 0, 0)
    <3>2. OneProject!CallShape(d) /\ d.kind # "set"
      BY <2>2, BatchMade
    <3>3. c = [d EXCEPT !.n = i]
      BY <3>1
    <3> HIDE DEF d
    <3> QED BY <3>2, <3>3, BatchFieldSet
  <2> QED BY <2>3 DEF OneProject!Init, OneProject!Inv, OneProject!SetsHere, OneProject!RefusalsOwn
<1>2. CASE s1 # "project"
  BY <1>2 DEF OneProject!Init, OneProject!Inv, OneProject!SetsHere, OneProject!RefusalsOwn
<1> QED BY <1>1, <1>2

(* No new refusal, and the ones shown are of the project still.                     *)
LEMMA RefusalsStay ==
    ASSUME OneProject!RefusalsOwn, s23' \subseteq s23, s18' = s18
    PROVE  OneProject!RefusalsOwn'
  BY DEF OneProject!RefusalsOwn

(* The page's own steps and its panel's ask for no switch and show no refusal.  *)
LEMMA ProjectPageStep ==
    ASSUME OneProject!Inv,
           \/ \E s \in {0, 1}, p \in OneProject!Preds : OneProject!setFilter(s, p)
           \/ OneProject!import
           \/ (\E d \in {-1, 1} : OneProject!moveSelection(d)) \/ OneProject!openSelected
              \/ OneProject!openProperties \/ OneProject!close
           \/ \E a \in DOMAIN s16 : (\E v \in {0, 2} : OneProject!type(a, v)) \/ OneProject!revertText(a)
           \/ OneProject!commitTitle \/ OneProject!commitDescription \/ OneProject!mountEditor
           \/ (\E v \in {0, 2} : OneProject!pick(v))
           \/ OneProject!cancel \/ \E k \in OneProject!Keys : OneProject!confirm(k)
    PROVE  OneProject!Inv'
<1> USE DEF OneProject!areaVars
<1>1. OneProject!SetsHere /\ OneProject!RefusalsOwn
  BY DEF OneProject!Inv
<1>2. UNCHANGED <<s18, s23>>
  BY DEF OneProject!setFilter, OneProject!import, OneProject!moveSelection, OneProject!openSelected,
       OneProject!openTask, OneProject!openProperties, OneProject!close, OneProject!type, OneProject!revertText,
     OneProject!commitTitle, OneProject!commitDescription, OneProject!commitAttribute, OneProject!mountEditor,
          OneProject!pick, OneProject!cancel, OneProject!confirm
<1>3. ASSUME NEW s, NEW p, OneProject!Send(s2, OneProject!loadTasks(s, p)) PROVE OneProject!SetsHere'
  BY <1>1, <1>2, <1>3, OneCall, BatchMade DEF OneProject!loadTasks
<1>4. ASSUME \E s \in {0, 1}, p \in OneProject!Preds : OneProject!setFilter(s, p) PROVE OneProject!SetsHere'
  BY <1>3, <1>4 DEF OneProject!setFilter
<1>5. ASSUME OneProject!import PROVE OneProject!SetsHere'
  <2>1. OneProject!Send(s2, OneProject!loadTasks(s9, s10))
    BY <1>5 DEF OneProject!import
  <2> QED BY <1>3, <2>1
<1>6. ASSUME OneProject!openProperties PROVE OneProject!SetsHere'
  <2>1. CASE s14
    BY <1>1, <1>2, <1>6, <2>1, OneCall, BatchMade DEF OneProject!openProperties
  <2>2. CASE ~s14
    <3> DEFINE p == OneProject!Call("project", "", 0, 0)
               s == OneProject!Call("schema", "", 0, 0)
    <3>1. OneProject!Send(s2, <<p, s>>)
      BY <1>6, <2>2 DEF OneProject!openProperties
    <3>2. OneProject!CallShape(p) /\ p.kind # "set" /\ OneProject!CallShape(s) /\ s.kind # "set"
      BY BatchMade DEF OneProject!CallShape, OneProject!Call
    <3> HIDE DEF p, s
    <3>3. \A i \in DOMAIN <<p, s>> : OneProject!CallShape(<<p, s>>[i]) /\ <<p, s>>[i].kind # "set"
      BY <3>2
    <3> QED BY <1>1, <1>2, <3>1, <3>3, BatchSent
  <2> QED BY <2>1, <2>2
<1>7. ASSUME NEW a, NEW v, OneProject!commitAttribute(a, v) PROVE OneProject!SetsHere'
  BY <1>1, <1>2, <1>7, OneCall, BatchMade DEF OneProject!commitAttribute
<1>8. ASSUME OneProject!commitTitle \/ OneProject!commitDescription \/ \E v \in {0, 2} : OneProject!pick(v)
      PROVE  OneProject!SetsHere'
  BY <1>7, <1>8 DEF OneProject!commitTitle, OneProject!commitDescription, OneProject!pick
<1>9. ASSUME \/ (\E d \in {-1, 1} : OneProject!moveSelection(d)) \/ OneProject!openSelected \/ OneProject!close
             \/ \E a \in DOMAIN s16 : (\E v \in {0, 2} : OneProject!type(a, v)) \/ OneProject!revertText(a)
             \/ OneProject!mountEditor \/ OneProject!cancel \/ \E k \in OneProject!Keys : OneProject!confirm(k)
      PROVE  OneProject!SetsHere'
  <2>1. s2' \subseteq s2
    BY <1>9 DEF OneProject!moveSelection, OneProject!openSelected, OneProject!openTask, OneProject!close,
         OneProject!type, OneProject!revertText, OneProject!mountEditor, OneProject!cancel, OneProject!confirm
  <2> QED BY <1>1, <1>2, <2>1, CallsOver
<1>10. OneProject!SetsHere'
  BY <1>4, <1>5, <1>6, <1>8, <1>9
<1> QED BY <1>1, <1>2, <1>10, RefusalsStay DEF OneProject!Inv

(* An answer of the page's or the panel's calls shows no refusal either.       *)
LEMMA ProjectAnswer ==
    ASSUME OneProject!Inv, NEW c \in s2,
           \/ OneProject!landTasks(c) \/ OneProject!landScreens(c) \/ OneProject!landHeader(c)
           \/ OneProject!landProject(c) \/ OneProject!landSchema(c)
           \/ OneProject!landLabels(c) \/ OneProject!landSave(c) \/ OneProject!landAreas(c)
    PROVE  OneProject!Inv'
<1> USE DEF OneProject!areaVars
<1>1. OneProject!SetsHere /\ OneProject!RefusalsOwn
  BY DEF OneProject!Inv
<1>2. UNCHANGED <<s18, s23>>
  BY DEF OneProject!landTasks, OneProject!landScreens, OneProject!landHeader, OneProject!landProject,
       OneProject!landSchema, OneProject!landLabels, OneProject!landSave, OneProject!landAreas
<1>3. s2' = s2 \ {c} \/ \E p : OneProject!Send(s2 \ {c}, OneProject!resolveRefLabels(p))
  BY DEF OneProject!landTasks, OneProject!landScreens, OneProject!landHeader, OneProject!landProject,
       OneProject!landSchema, OneProject!landLabels, OneProject!landSave, OneProject!landAreas
<1>4. OneProject!SetsHere'
  BY <1>1, <1>2, <1>3, CallsOver, LabelsSent
<1> QED BY <1>1, <1>2, <1>4, RefusalsStay DEF OneProject!Inv

(* The server's side changes no call's kind or project.                      *)
LEMMA ProjectServer ==
    ASSUME OneProject!Inv, NEW c \in s2, OneProject!ServerRuns(c) \/ OneProject!Refused(c)
    PROVE  OneProject!Inv'
<1> USE DEF OneProject!areaVars
<1>1. OneProject!SetsHere /\ OneProject!RefusalsOwn /\ OneProject!CallShape(c) /\ (c.kind = "set" => c.to = s18)
  BY DEF OneProject!Inv, OneProject!SetsHere
<1>2. UNCHANGED <<s18, s23>>
  BY DEF OneProject!ServerRuns, OneProject!Refused
<1>3. PICK d : s2' = (s2 \ {c}) \cup {d} /\ OneProject!CallShape(d) /\ d.kind = c.kind /\ d.to = c.to
  <2>1. CASE OneProject!ServerRuns(c)
    <3>1. PICK st, proj, got : s2' = (s2 \ {c}) \cup {[c EXCEPT !.state = st, !.proj = proj, !.got = got]}
      BY <2>1 DEF OneProject!ServerRuns
    <3> DEFINE r == [c EXCEPT !.state = st]
    <3>2. OneProject!CallShape(r) /\ r.kind = c.kind /\ r.to = c.to
      BY <1>1, BatchFieldSet
    <3>3. [c EXCEPT !.state = st, !.proj = proj, !.got = got] = [[r EXCEPT !.proj = proj] EXCEPT !.got = got]
      OBVIOUS
    <3> HIDE DEF r
    <3> DEFINE s == [r EXCEPT !.proj = proj]
    <3>4. OneProject!CallShape(s) /\ s.kind = c.kind /\ s.to = c.to
      BY <3>2, BatchFieldSet
    <3> HIDE DEF s
    <3> DEFINE d == [s EXCEPT !.got = got]
    <3>5. OneProject!CallShape(d) /\ d.kind = c.kind /\ d.to = c.to
      BY <3>4, BatchFieldSet
    <3>6. s2' = (s2 \ {c}) \cup {d}
      BY <3>1, <3>3 DEF s
    <3> QED BY <3>5, <3>6
  <2>2. CASE OneProject!Refused(c)
    <3> DEFINE d == [c EXCEPT !.state = "refused"]
    <3>1. OneProject!CallShape(d) /\ d.kind = c.kind /\ d.to = c.to
      BY <1>1, BatchFieldSet
    <3>2. s2' = (s2 \ {c}) \cup {d}
      BY <2>2 DEF OneProject!Refused
    <3> QED BY <3>1, <3>2
  <2> QED BY <2>1, <2>2
<1>5. ASSUME NEW e \in s2' PROVE OneProject!CallShape(e) /\ (e.kind = "set" => e.to = s18')
  <2>1. e \in s2 \/ e = d
    BY <1>3
  <2> QED BY <1>1, <1>2, <1>3, <2>1 DEF OneProject!SetsHere
<1> QED BY <1>1, <1>2, <1>5, RefusalsStay DEF OneProject!Inv, OneProject!SetsHere, OneProject!CallShape

(* The switches: another project is picked with no call out, so a refusal is of  *)
(* the one it is shown by.                                                   *)
LEMMA AreaSwitch ==
    ASSUME OneProject!Inv,
           OneProject!load \/ OneProject!pickProject \/ (\E k \in OneProject!Keys,
                on \in BOOLEAN : OneProject!set(k, on)) \/ \E c \in s2 : OneProject!landSet(c)
    PROVE  OneProject!Inv'
<1>1. OneProject!SetsHere /\ OneProject!RefusalsOwn
  BY DEF OneProject!Inv
<1>2. ASSUME NEW after, after \subseteq s2, s18' = s18 \/ after = {}, OneProject!Unswitched(after)
      PROVE  OneProject!SetsHere'
  BY <1>1, <1>2, OneCall, BatchMade DEF OneProject!Unswitched
<1>3. CASE OneProject!load
  BY <1>1, <1>2, <1>3, RefusalsStay DEF OneProject!load, OneProject!Inv
<1>4. CASE OneProject!pickProject
  <2>1. s2 = {} /\ s23' = {} /\ OneProject!Unswitched(s2)
    BY <1>4 DEF OneProject!pickProject, OneProject!Free
  <2> QED BY <1>2, <2>1 DEF OneProject!Inv, OneProject!RefusalsOwn
<1>5. ASSUME NEW k \in OneProject!Keys, NEW on \in BOOLEAN, OneProject!set(k, on) PROVE OneProject!Inv'
  <2> DEFINE c == OneProject!Call("set", IF on THEN "on" ELSE "off", s18, k)
  <2>1. s18' = s18 /\ s23' \subseteq s23 /\ OneProject!Send(s2, <<c>>)
    BY <1>5 DEF OneProject!set
  <2>2. OneProject!CallShape(c) /\ c.to = s18
    BY BatchMade
  <2> HIDE DEF c
  <2> QED BY <1>1, <2>1, <2>2, OneCall, RefusalsStay DEF OneProject!Inv
<1>6. ASSUME NEW c \in s2, OneProject!landSet(c) PROVE OneProject!Inv'
  <2>1. c.kind = "set" /\ c.to = s18 /\ s18' = s18
    BY <1>1, <1>6 DEF OneProject!landSet, OneProject!Answered, OneProject!SetsHere
  <2>2. CASE OneProject!Ok(c)
    BY <1>1, <1>2, <1>6, <2>1, <2>2, RefusalsStay DEF OneProject!landSet, OneProject!Inv
  <2>3. CASE ~OneProject!Ok(c)
    <3>1. s23' = s23 \cup {<<c.to, c.prev>>} /\ s2' \subseteq s2
      BY <1>6, <2>3 DEF OneProject!landSet
    <3>2. OneProject!SetsHere'
      BY <1>1, <2>1, <3>1, CallsOver
    <3>3. OneProject!RefusalsOwn'
      BY <1>1, <2>1, <3>1 DEF OneProject!RefusalsOwn
    <3> QED BY <3>2, <3>3 DEF OneProject!Inv
  <2> QED BY <2>2, <2>3
<1> QED BY <1>3, <1>4, <1>5, <1>6

(* Every step of the page keeps its invariant.                                      *)
LEMMA ProjectStep == OneProject!Inv /\ [OneProject!Next]_(OneProject!vars) => OneProject!Inv'
<1> SUFFICES ASSUME OneProject!Inv, [OneProject!Next]_(OneProject!vars) PROVE OneProject!Inv'
  OBVIOUS
<1>1. CASE UNCHANGED OneProject!vars
  BY <1>1 DEF OneProject!vars, OneProject!areaVars, OneProject!Inv, OneProject!SetsHere, OneProject!RefusalsOwn,
       OneProject!CallShape
<1> QED BY <1>1, ProjectPageStep, ProjectAnswer, ProjectServer, AreaSwitch DEF OneProject!Next

-----------------------------------------------------------------------------
(* The record screens (admin/theme-files.ts): a theme's file holds that theme's text, *)
(* in the editor, in a call and in the store. 10 * theme + 1 is a text of a theme.     *)
(* Here s1 is panel, s2 is calls, s3 is asked, s5 is scope, s6 is items, s7 is sel,  *)
(* s8 is lastSel, s9 is draft, s15 is file, s18 is tfiles.                           *)

(* A batch is sent of calls with their fields, each with its number set.        *)
LEMMA Numbered ==
    ASSUME NEW c, Records!CallShape(c), NEW v
    PROVE  LET d == [c EXCEPT !.n = v] IN
           Records!CallShape(d) /\ d.kind = c.kind /\ d.id = c.id /\ d.name = c.name /\ d.rows = c.rows
           /\ d.state = c.state
  BY DEF Records!CallShape

(* A batch of one is that call with its number.                                     *)
LEMMA OneSent ==
    ASSUME NEW after, NEW c, Records!CallShape(c), Records!SendAll(after, <<c>>)
    PROVE  \E d : /\ s2' = after \cup {d} /\ Records!CallShape(d)
                  /\ d.kind = c.kind /\ d.id = c.id /\ d.name = c.name /\ d.rows = c.rows /\ d.state = c.state
<1>1. s2' = after \cup {[c EXCEPT !.n = s3 + 1]}
  BY DEF Records!SendAll
<1> QED BY <1>1, Numbered

(* A record's call is made with its kind and no rows yet.                           *)
LEMMA RecordCallMade ==
    ASSUME NEW kind, NEW id, NEW home, NEW name, NEW opt, NEW lf
    PROVE  Records!CallShape(Records!RecordCall(kind, id, home, name, opt, lf))
           /\ Records!RecordCall(kind, id, home, name, opt, lf).kind = kind
           /\ Records!RecordCall(kind, id, home, name, opt, lf).rows = {}
  BY DEF Records!CallShape, Records!RecordCall

(* A file's call is made with its kind, theme and text.                             *)
LEMMA FileCallMade ==
    ASSUME NEW kind, NEW id, NEW path, NEW name, NEW reopen, NEW drop
    PROVE  LET c == Records!FileCall(kind, id, path, name, reopen, drop) IN
           Records!CallShape(c) /\ c.kind = kind /\ c.id = id /\ c.name = name /\ c.rows = {} /\ c.state = "sent"
  BY DEF Records!CallShape, Records!FileCall

-----------------------------------------------------------------------------
(* The form asks for records and options only, and leaves the themes alone.     *)
LEMMA FormSent ==
    ASSUME Records!Shapes, Records!FormAsks, s1 = "form", NEW after, after \subseteq s2, NEW cs,
           Records!SendAll(after, cs),
           \A i \in DOMAIN cs : Records!CallShape(cs[i]) /\ cs[i].kind \in Records!FormKinds
    PROVE  \A c \in s2' : Records!CallShape(c) /\ c.kind \in Records!FormKinds
<1>1. \A c \in s2' : c \in after \/ \E i \in DOMAIN cs : c = [cs[i] EXCEPT !.n = s3 + i]
  BY DEF Records!SendAll
<1>2. ASSUME NEW i \in DOMAIN cs
      PROVE  Records!CallShape([cs[i] EXCEPT !.n = s3 + i])
             /\ [cs[i] EXCEPT !.n = s3 + i].kind \in Records!FormKinds
  BY <1>2, Numbered
<1> QED BY <1>1, <1>2 DEF Records!Shapes, Records!FormAsks

(* Rendering the form asks for options, or the list again, or nothing.              *)
LEMMA FormRendered ==
    ASSUME Records!Shapes, Records!FormAsks, s1 = "form", NEW after, after \subseteq s2, NEW cs,
           cs = <<>> \/ cs = <<Records!reloadList>>, Records!renderForm(after, cs)
    PROVE  \A c \in s2' : Records!CallShape(c) /\ c.kind \in Records!FormKinds
<1> DEFINE o == Records!RecordCall("options", 0, s5', 0, 0, 0)
           l == Records!RecordCall("list", 0, s5', 0, 0, 0)
<1>1. Records!CallShape(o) /\ o.kind \in Records!FormKinds /\ Records!CallShape(l) /\ l.kind \in Records!FormKinds
  BY RecordCallMade DEF Records!FormKinds
<1>2. Records!SendAll(after, cs \o Records!ensureOptions) /\ Records!ensureOptions \in {<<>>, <<o>>}
      /\ cs \in {<<>>, <<l>>}
  BY DEF Records!renderForm, Records!ensureOptions, Records!reloadList
<1> HIDE DEF o, l
<1>3. ASSUME NEW e, e \in {<<>>, <<o>>} PROVE \A i \in DOMAIN (cs \o e) : (cs \o e)[i] \in {o, l}
  BY <1>2, <1>3
<1> QED BY <1>1, <1>2, <1>3, FormSent

(* A step of the form that sends only the form's calls keeps the invariant.         *)
LEMMA FormKept ==
    ASSUME Records!StoredOwn, s1 = "form", s1' = s1, UNCHANGED s18,
           \A c \in s2' : Records!CallShape(c) /\ c.kind \in Records!FormKinds
    PROVE  Records!Inv'
  BY DEF Records!Inv, Records!Shapes, Records!FormAsks, Records!ThemeAsks, Records!StoredOwn, Records!CallShape

(* The server's side and a refusal change neither the kind nor the shape.       *)
RecordAnswer(c, st, rows, name) == [c EXCEPT !.state = st, !.rows = rows, !.name = name]

(* An answer keeps its call's kind and theme.                                       *)
LEMMA AnsweredKeeps ==
    ASSUME NEW c, Records!CallShape(c), NEW st, NEW rows, NEW name, NEW after,
           s2' = after \cup {RecordAnswer(c, st, rows, name)}
    PROVE  \E d : /\ s2' = after \cup {d} /\ Records!CallShape(d)
                  /\ d.kind = c.kind /\ d.id = c.id /\ d.name = name /\ d.rows = rows /\ d.state = st
<1> DEFINE e == [c EXCEPT !.state = st]
<1>1. Records!CallShape(e) /\ e.kind = c.kind /\ e.id = c.id /\ e.state = st
  BY DEF Records!CallShape
<1>2. [c EXCEPT !.state = st, !.rows = rows, !.name = name] = [[e EXCEPT !.rows = rows] EXCEPT !.name = name]
  OBVIOUS
<1> HIDE DEF e
<1> DEFINE f == [e EXCEPT !.rows = rows]
<1>3. Records!CallShape(f) /\ f.kind = c.kind /\ f.id = c.id /\ f.state = st /\ f.rows = rows
  BY <1>1 DEF Records!CallShape
<1> HIDE DEF f
<1> DEFINE g == [f EXCEPT !.name = name]
<1>4. Records!CallShape(g) /\ g.kind = c.kind /\ g.id = c.id /\ g.state = st /\ g.rows = rows /\ g.name = name
  BY <1>3 DEF Records!CallShape
<1>5. s2' = after \cup {g}
  BY <1>2 DEF f, RecordAnswer
<1> QED BY <1>4, <1>5

(* So does a refusal.                                                               *)
LEMMA RefusedKeeps ==
    ASSUME NEW c, Records!CallShape(c), NEW st
    PROVE  LET d == [c EXCEPT !.state = st] IN
           Records!CallShape(d) /\ d.kind = c.kind /\ d.id = c.id /\ d.name = c.name /\ d.rows = c.rows
           /\ d.state = st
  BY DEF Records!CallShape

-----------------------------------------------------------------------------

(* The user's steps on the form.                                                    *)
LEMMA FormUser ==
    ASSUME Records!Inv, s1 = "form",
           \/ (\E i \in 1 .. MaxRecords : Records!select(i)) \/ Records!switchProject \/ Records!newRecord
           \/ (\E v \in {1, 2} : Records!typeField(v) \/ Records!pickOption(v)) \/ Records!editLeaf
           \/ Records!save \/ Records!runAction \/ Records!confirmDelete
           \/ (\E on \in BOOLEAN : Records!askDelete(on))
    PROVE  Records!Inv'
<1> USE DEF Records!fileVars, Records!formVars
<1>1. Records!Shapes /\ Records!FormAsks /\ Records!StoredOwn
  BY DEF Records!Inv
<1>2. s1' = s1 /\ UNCHANGED s18
  BY DEF Records!select, Records!switchProject, Records!newRecord, Records!typeField, Records!pickOption,
       Records!editLeaf, Records!save, Records!runAction, Records!confirmDelete, Records!askDelete,
     Records!Stay, Records!Edit
<1>3. \A c \in s2' : Records!CallShape(c) /\ c.kind \in Records!FormKinds
  <2>1. ASSUME NEW i \in 1 .. MaxRecords, Records!select(i)
        PROVE  \A c \in s2' : Records!CallShape(c) /\ c.kind \in Records!FormKinds
    <3>1. Records!renderForm(s2, <<>>)
      BY <2>1 DEF Records!select
    <3> QED BY <1>1, <3>1, FormRendered
  <2>2. ASSUME Records!switchProject PROVE \A c \in s2' : Records!CallShape(c) /\ c.kind \in Records!FormKinds
    <3>1. Records!SendAll(s2, <<Records!reloadList>>) /\ Records!CallShape(Records!reloadList)
          /\ Records!reloadList.kind \in Records!FormKinds
      BY <2>2, RecordCallMade DEF Records!switchProject, Records!reloadList, Records!FormKinds
    <3> HIDE DEF Records!reloadList
    <3>2. \A i \in DOMAIN <<Records!reloadList>> : Records!CallShape(<<Records!reloadList>>[i])
          /\ <<Records!reloadList>>[i].kind \in Records!FormKinds
      BY <3>1
    <3> QED BY <1>1, <3>1, <3>2, FormSent
  <2>3. ASSUME Records!newRecord PROVE \A c \in s2' : Records!CallShape(c) /\ c.kind \in Records!FormKinds
    <3>1. Records!renderForm(s2, <<>>)
      BY <2>3 DEF Records!newRecord
    <3> QED BY <1>1, <3>1, FormRendered
  <2>4. ASSUME NEW c, Records!CallShape(c), c.kind \in Records!FormKinds, Records!SendAll(s2, <<c>>)
        PROVE  \A d \in s2' : Records!CallShape(d) /\ d.kind \in Records!FormKinds
    <3>1. \A i \in DOMAIN <<c>> : Records!CallShape(<<c>>[i]) /\ <<c>>[i].kind \in Records!FormKinds
      BY <2>4
    <3> QED BY <1>1, <2>4, <3>1, FormSent
  <2>5. ASSUME Records!save \/ Records!runAction \/ Records!confirmDelete
        PROVE  \A c \in s2' : Records!CallShape(c) /\ c.kind \in Records!FormKinds
    BY <2>4, <2>5, RecordCallMade DEF Records!save, Records!runAction, Records!confirmDelete, Records!FormKinds
  <2>6. ASSUME \/ (\E v \in {1, 2} : Records!typeField(v) \/ Records!pickOption(v)) \/ Records!editLeaf
                  \/ (\E on \in BOOLEAN : Records!askDelete(on))
        PROVE  \A c \in s2' : Records!CallShape(c) /\ c.kind \in Records!FormKinds
    <3>1. s2' = s2
      BY <2>6 DEF Records!typeField, Records!pickOption, Records!editLeaf, Records!askDelete, Records!Edit
    <3> QED BY <1>1, <3>1 DEF Records!Shapes, Records!FormAsks
  <2> QED BY <2>1, <2>2, <2>3, <2>5, <2>6
<1> QED BY <1>1, <1>2, <1>3, FormKept

(* The answers on the form.                                                         *)
LEMMA FormAnswer ==
    ASSUME Records!Inv, s1 = "form", NEW c \in s2,
           Records!landList(c) \/ Records!landOptions(c) \/ Records!landWrite(c) \/ Records!ServerRuns(c)
           \/ Records!Refused(c)
    PROVE  Records!Inv'
<1> USE DEF Records!fileVars, Records!formVars
<1>1. Records!Shapes /\ Records!FormAsks /\ Records!StoredOwn /\ Records!CallShape(c)
      /\ c.kind \in Records!FormKinds
  BY DEF Records!Inv, Records!Shapes, Records!FormAsks
<1>2. s1' = s1 /\ UNCHANGED s18
  BY <1>1 DEF Records!landList, Records!landOptions, Records!landWrite, Records!ServerRuns, Records!Refused,
       Records!Stay, Records!FormKinds
<1>3. ASSUME s2' \subseteq s2 PROVE \A d \in s2' : Records!CallShape(d) /\ d.kind \in Records!FormKinds
  BY <1>1, <1>3 DEF Records!Shapes, Records!FormAsks
<1>4. ASSUME Records!landList(c) PROVE \A d \in s2' : Records!CallShape(d) /\ d.kind \in Records!FormKinds
  <2>1. s2' = s2 \ {c} \/ Records!renderForm(s2 \ {c}, <<>>)
    BY <1>4 DEF Records!landList
  <2> QED BY <1>1, <1>3, <2>1, FormRendered
<1>5. ASSUME Records!landOptions(c) PROVE \A d \in s2' : Records!CallShape(d) /\ d.kind \in Records!FormKinds
  BY <1>3, <1>5 DEF Records!landOptions
<1>6. ASSUME Records!landWrite(c) PROVE \A d \in s2' : Records!CallShape(d) /\ d.kind \in Records!FormKinds
  <2>1. s2' = s2 \ {c} \/ Records!renderForm(s2 \ {c}, <<Records!reloadList>>)
    BY <1>6 DEF Records!landWrite, Records!resetAfterWrite
  <2> QED BY <1>1, <1>3, <2>1, FormRendered
<1>7. ASSUME NEW d, s2' = (s2 \ {c}) \cup {d}, Records!CallShape(d), d.kind = c.kind
      PROVE  \A e \in s2' : Records!CallShape(e) /\ e.kind \in Records!FormKinds
  BY <1>1, <1>7 DEF Records!Shapes, Records!FormAsks
<1>8. ASSUME Records!ServerRuns(c) PROVE \A d \in s2' : Records!CallShape(d) /\ d.kind \in Records!FormKinds
  <2>1. PICK rows, name : s2' = (s2 \ {c}) \cup {RecordAnswer(c, "done", rows, name)}
    BY <1>8 DEF Records!ServerRuns, RecordAnswer
  <2> DEFINE after == s2 \ {c}
  <2>2. Records!CallShape(c) /\ s2' = after \cup {RecordAnswer(c, "done", rows, name)}
    BY <1>1, <2>1
  <2> HIDE DEF after
  <2>3. PICK d : /\ s2' = after \cup {d} /\ Records!CallShape(d)
                 /\ d.kind = c.kind /\ d.id = c.id /\ d.name = name /\ d.rows = rows /\ d.state = "done"
    BY <2>2, AnsweredKeeps
  <2> QED BY <1>7, <2>3 DEF after
<1>9. ASSUME Records!Refused(c) PROVE \A d \in s2' : Records!CallShape(d) /\ d.kind \in Records!FormKinds
  <2>1. s2' = (s2 \ {c}) \cup {[c EXCEPT !.state = "refused"]}
    BY <1>9 DEF Records!Refused
  <2> QED BY <1>1, <1>7, <2>1, RefusedKeeps
<1> QED BY <1>1, <1>2, <1>4, <1>5, <1>6, <1>8, <1>9, FormKept

(* The form has no step of the files pane.                                          *)
LEMMA FormStep == ASSUME Records!Inv, s1 = "form", Records!Next PROVE Records!Inv'
<1>1. ~Records!Button
  BY DEF Records!Button, Records!themeId
<1>2. \A c \in s2 : ~Records!landGet(c) /\ ~Records!landPut(c) /\ ~Records!landBase(c) /\ ~Records!landUpload(c)
      /\ ~Records!landDrop(c)
  BY DEF Records!Inv, Records!FormAsks, Records!FormKinds, Records!landGet, Records!landPut, Records!landBase,
       Records!landUpload, Records!landDrop, Records!Answered
<1> QED BY <1>1, <1>2, FormUser, FormAnswer DEF Records!Next, Records!uploadFile, Records!removeFile,
     Records!openFile, Records!typeFile, Records!closeFile, Records!saveFile,
           Records!newFile, Records!customize

-----------------------------------------------------------------------------
(* What the files pane knows: the theme shown, and its one call.               *)
LEMMA FilesKnow ==
    ASSUME Records!Inv, s1 = "files"
    PROVE  /\ s9 = Records!NoDraft /\ s8 \in {0, 1, 2} /\ s8 \in {0, s7} /\ \A r \in s6 : r.id \in {1, 2}
           /\ \A c, d \in s2 : c = d
           /\ \A c \in s2 : Records!CallShape(c) /\ Records!OfTheme(c)
           /\ Records!FileShape /\ (s15.text >= 0 => s15.draft \div 10 = s8)
           /\ Records!StoredOwn /\ Records!themeId = s8
  BY DEF Records!Inv, Records!ThemeAsks, Records!Shapes, Records!themeId

(* A step of the pane keeps the invariant when its call, file and theme fit.     *)
LEMMA FilesKept ==
    ASSUME s1' = "files", s9' = Records!NoDraft, s8' \in {0, 1, 2}, s8' \in {0, s7'},
           \A r \in s6' : r.id \in {1, 2}, \A c, d \in s2' : c = d,
           \A c \in s2' : Records!CallShape(c) /\ Records!OfTheme(c)',
           Records!FileShape', s15'.text >= 0 => s15'.draft \div 10 = s8', Records!StoredOwn'
    PROVE  Records!Inv'
  BY DEF Records!Inv, Records!ThemeAsks, Records!Shapes, Records!FormAsks, Records!OfTheme, Records!Stores,
       Records!FileShape, Records!StoredOwn, Records!CallShape, Records!Ok

(* The pane's one call, sent when no other is out.                           *)
LEMMA FilesSent ==
    ASSUME NEW kind \in Records!ThemeKinds, NEW path, NEW name, NEW reopen, NEW drop, NEW after, after = {},
           Records!themeId = s8, s8 # 0, kind \in {"put", "upload"} => name \div 10 = s8, s8' = s8,
           Records!SendAll(after, <<Records!FileCall(kind, Records!themeId, path, name, reopen, drop)>>)
    PROVE  (\A c, d \in s2' : c = d) /\ \A c \in s2' : Records!CallShape(c) /\ Records!OfTheme(c)'
<1> DEFINE f == Records!FileCall(kind, Records!themeId, path, name, reopen, drop)
<1>1. Records!CallShape(f) /\ f.kind = kind /\ f.id = Records!themeId /\ f.name = name /\ f.rows = {}
      /\ f.state = "sent"
  BY FileCallMade
<1>2. Records!SendAll(after, <<f>>)
  OBVIOUS
<1> HIDE DEF f
<1>3. PICK d : /\ s2' = after \cup {d} /\ Records!CallShape(d)
               /\ d.kind = f.kind /\ d.id = f.id /\ d.name = f.name /\ d.rows = f.rows /\ d.state = f.state
  BY <1>1, <1>2, OneSent
<1> QED BY <1>1, <1>3 DEF Records!OfTheme, Records!Stores, Records!Ok

(* Reading the list again is one call of no theme.                                  *)
LEMMA ListSent ==
    ASSUME NEW after, after = {}, Records!SendAll(after, <<Records!reloadList>>)
    PROVE  (\A c, d \in s2' : c = d) /\ \A c \in s2' : Records!CallShape(c) /\ Records!OfTheme(c)'
<1> DEFINE l == Records!reloadList
<1>1. Records!CallShape(l) /\ l.kind = "list" /\ l.rows = {}
  BY RecordCallMade DEF Records!reloadList
<1>2. Records!SendAll(after, <<l>>)
  OBVIOUS
<1> HIDE DEF l
<1>3. PICK d : /\ s2' = after \cup {d} /\ Records!CallShape(d)
               /\ d.kind = l.kind /\ d.id = l.id /\ d.name = l.name /\ d.rows = l.rows /\ d.state = l.state
  BY <1>1, <1>2, OneSent
<1> QED BY <1>1, <1>3 DEF Records!OfTheme, Records!Stores, Records!ThemeKinds

(* A list that lands follows the selection, or closes the file.                     *)
LEMMA Followed ==
    ASSUME NEW rows, \A r \in rows : r.id \in {1, 2}, NEW i, Records!refollow(rows, i)
    PROVE  /\ s8' \in {0, 1, 2} /\ s8' \in {0, i}
           /\ s15' = Records!NoFile \/ (s15' = s15 /\ s8' = s8)
<1>1. Records!Row(rows, i) = {} \/ i \in {1, 2}
  BY DEF Records!Row
<1> QED BY <1>1 DEF Records!refollow

(* The user's steps on the files pane: each with no call out.                       *)
LEMMA FilesUser ==
    ASSUME Records!Inv, s1 = "files",
           \/ (\E i \in 1 .. MaxRecords : Records!select(i))
           \/ (\E p \in Records!Paths : Records!uploadFile(p) \/ Records!removeFile(p)
                  \/ \E ro \in BOOLEAN : Records!openFile(p, ro))
           \/ Records!typeFile \/ Records!closeFile \/ Records!saveFile \/ Records!newFile \/ Records!customize
    PROVE  Records!Inv'
<1> USE DEF Records!formVars
<1>1. /\ s9 = Records!NoDraft /\ s8 \in {0, 1, 2} /\ s8 \in {0, s7} /\ \A r \in s6 : r.id \in {1, 2}
      /\ Records!FileShape /\ (s15.text >= 0 => s15.draft \div 10 = s8)
      /\ Records!StoredOwn /\ Records!themeId = s8
  BY FilesKnow
<1>2. s2 = {}
  BY DEF Records!select, Records!uploadFile, Records!removeFile, Records!openFile, Records!typeFile,
       Records!closeFile, Records!saveFile, Records!newFile, Records!customize, Records!Button, Records!Free
<1>3. ASSUME NEW i \in 1 .. MaxRecords, Records!select(i) PROVE Records!Inv'
  <2>1. /\ Records!refollow(s6, i) /\ s7' = i /\ s2' = s2 /\ s6' = s6 /\ s1' = s1 /\ s9' = s9
        /\ s18' = s18
    BY <1>3 DEF Records!select
  <2>2. /\ s8' \in {0, 1, 2} /\ s8' \in {0, i}
        /\ s15' = Records!NoFile \/ (s15' = s15 /\ s8' = s8)
    BY <1>1, <2>1, Followed
  <2>3. Records!FileShape' /\ (s15'.text >= 0 => s15'.draft \div 10 = s8')
    BY <1>1, <2>2 DEF Records!FileShape, Records!NoFile
  <2>4. Records!StoredOwn'
    BY <1>1, <2>1 DEF Records!StoredOwn
  <2> QED BY <1>1, <1>2, <2>1, <2>2, <2>3, <2>4, FilesKept
<1>4. ASSUME Records!Show, \A c, d \in s2' : c = d, \A c \in s2' : Records!CallShape(c) /\ Records!OfTheme(c)',
             Records!FileShape', s15'.text >= 0 => s15'.draft \div 10 = s8
      PROVE  Records!Inv'
  <2>1. /\ s8' = s8 /\ s7' = s7 /\ s6' = s6 /\ s1' = s1 /\ s9' = s9 /\ s18' = s18
    BY <1>4 DEF Records!Show
  <2>2. Records!StoredOwn'
    BY <1>1, <2>1 DEF Records!StoredOwn
  <2> QED BY <1>1, <1>4, <2>1, <2>2, FilesKept
<1>5. ASSUME Records!Show, UNCHANGED s15,
             \E kind \in Records!ThemeKinds : \E path, name, reopen, drop :
                 /\ kind \in {"put", "upload"} => name \div 10 = s8
                 /\ Records!SendAll(s2, <<Records!FileCall(kind, Records!themeId, path, name, reopen, drop)>>),
             s8 # 0
      PROVE  Records!Inv'
  <2>1. s8' = s8
    BY <1>5 DEF Records!Show
  <2>2. PICK kind \in Records!ThemeKinds : \E path, name, reopen, drop :
            /\ kind \in {"put", "upload"} => name \div 10 = s8
            /\ Records!SendAll(s2, <<Records!FileCall(kind, Records!themeId, path, name, reopen, drop)>>)
    BY <1>5
  <2>3. PICK path, name, reopen, drop :
            /\ kind \in {"put", "upload"} => name \div 10 = s8
            /\ Records!SendAll(s2, <<Records!FileCall(kind, Records!themeId, path, name, reopen, drop)>>)
    BY <2>2
  <2>4. (\A c, d \in s2' : c = d) /\ \A c \in s2' : Records!CallShape(c) /\ Records!OfTheme(c)'
    BY <1>1, <1>2, <1>5, <2>1, <2>3, FilesSent
  <2> QED BY <1>1, <1>4, <1>5, <2>4 DEF Records!FileShape
<1>6. ASSUME NEW p \in Records!Paths, Records!uploadFile(p) PROVE Records!Inv'
  <2>1. /\ Records!Show /\ UNCHANGED s15 /\ s8 # 0
        /\ Records!SendAll(s2,
               <<Records!FileCall("upload", Records!themeId, p, 10 * Records!themeId, FALSE,
                   {q \in Records!Own : Records!Logo(q)} \ {p})>>)
    BY <1>1, <1>6 DEF Records!uploadFile, Records!Button
  <2>2. (10 * Records!themeId) \div 10 = s8 /\ "upload" \in Records!ThemeKinds
    BY <1>1 DEF Records!ThemeKinds
  <2> QED BY <1>5, <2>1, <2>2
<1>7. ASSUME NEW p \in Records!Paths, Records!removeFile(p) PROVE Records!Inv'
  <2>1. /\ Records!Show /\ UNCHANGED s15 /\ s8 # 0
        /\ Records!SendAll(s2, <<Records!FileCall("drop", Records!themeId, 0, 0, FALSE, {p})>>)
    BY <1>1, <1>7 DEF Records!removeFile, Records!deleteFiles, Records!Button
  <2>2. "drop" \in Records!ThemeKinds /\ "drop" \notin {"put", "upload"}
    BY DEF Records!ThemeKinds
  <2> QED BY <1>5, <2>1, <2>2
<1>8. ASSUME Records!customize PROVE Records!Inv'
  <2>1. /\ Records!Show /\ UNCHANGED s15 /\ s8 # 0
        /\ Records!SendAll(s2, <<Records!FileCall("base", Records!themeId, Records!Css, 0, FALSE, {})>>)
    BY <1>1, <1>8 DEF Records!customize, Records!Button
  <2>2. "base" \in Records!ThemeKinds /\ "base" \notin {"put", "upload"}
    BY DEF Records!ThemeKinds
  <2> QED BY <1>5, <2>1, <2>2
<1>9. ASSUME NEW p \in Records!Paths, NEW ro \in BOOLEAN, Records!openFile(p, ro) PROVE Records!Inv'
  <2>1. /\ Records!Show /\ s8 # 0 /\ s15' = [Records!NoFile EXCEPT !.path = p, !.ro = ro]
        /\ Records!SendAll(s2, <<Records!FileCall("get", Records!themeId, p, 0, ro, {})>>)
    BY <1>1, <1>9 DEF Records!openFile, Records!Button
  <2>2. "get" \in Records!ThemeKinds /\ "get" \notin {"put", "upload"} /\ s8' = s8
    BY <2>1 DEF Records!ThemeKinds, Records!Show
  <2>3. (\A c, d \in s2' : c = d) /\ \A c \in s2' : Records!CallShape(c) /\ Records!OfTheme(c)'
    BY <1>1, <1>2, <2>1, <2>2, FilesSent
  <2>4. s15' = [path |-> p, ro |-> ro, text |-> -1, draft |-> -1, busy |-> FALSE]
    BY <2>1 DEF Records!NoFile
  <2>5. Records!FileShape' /\ ~(s15'.text >= 0)
    BY <2>4 DEF Records!FileShape
  <2> QED BY <1>4, <2>1, <2>3, <2>5
<1>10. ASSUME Records!typeFile \/ Records!closeFile PROVE Records!Inv'
  <2>1. Records!Show /\ s2' = s2
    BY <1>10 DEF Records!typeFile, Records!closeFile
  <2>2. Records!FileShape' /\ (s15'.text >= 0 => s15'.draft \div 10 = s8)
    <3>1. CASE Records!typeFile
      <4> DEFINE v == 10 * s8 + 1
      <4>1. v \div 10 = s8 /\ s15' = [s15 EXCEPT !.draft = v]
        BY <1>1, <3>1 DEF Records!typeFile
      <4> HIDE DEF v
      <4>2. Records!FileShape' /\ s15'.draft = v
        BY <1>1, <4>1 DEF Records!FileShape
      <4> QED BY <4>1, <4>2
    <3>2. CASE Records!closeFile
      BY <3>2 DEF Records!closeFile, Records!NoFile, Records!FileShape
    <3> QED BY <1>10, <3>1, <3>2
  <2> QED BY <1>2, <1>4, <2>1, <2>2
<1>11. ASSUME Records!Show, NEW p, NEW text, NEW reopen, text \div 10 = s8, Records!saveText(s2, p, text, reopen)
       PROVE  Records!Inv'
  <2>1. /\ s8 # 0 /\ Records!SendAll(s2, <<Records!FileCall("put", Records!themeId, p, text, reopen, {})>>)
        /\ s15' = IF s15.path = p THEN [s15 EXCEPT !.busy = TRUE] ELSE s15
    BY <1>1, <1>11 DEF Records!saveText
  <2>2. "put" \in Records!ThemeKinds /\ s8' = s8
    BY <1>11 DEF Records!ThemeKinds, Records!Show
  <2>3. (\A c, d \in s2' : c = d) /\ \A c \in s2' : Records!CallShape(c) /\ Records!OfTheme(c)'
    BY <1>1, <1>2, <1>11, <2>1, <2>2, FilesSent
  <2>4. Records!FileShape' /\ (s15'.text >= 0 => s15'.draft \div 10 = s8)
    BY <1>1, <2>1 DEF Records!FileShape
  <2> QED BY <1>4, <1>11, <2>3, <2>4
<1>12. ASSUME Records!saveFile \/ Records!newFile PROVE Records!Inv'
  <2>1. Records!Show
    BY <1>12 DEF Records!saveFile, Records!newFile
  <2>2. CASE Records!saveFile
    <3>1. Records!saveText(s2, s15.path, s15.draft, FALSE) /\ s15.draft \div 10 = s8
      BY <1>1, <2>2 DEF Records!saveFile
    <3> QED BY <1>11, <2>1, <3>1
  <2>3. CASE Records!newFile
    <3> DEFINE v == 10 * Records!themeId + 1
    <3>1. v \div 10 = s8
      BY <1>1
    <3>2. Records!saveText(s2, Records!Css, v, TRUE)
      BY <2>3 DEF Records!newFile
    <3> HIDE DEF v
    <3> QED BY <1>11, <2>1, <3>1, <3>2
  <2> QED BY <1>12, <2>2, <2>3
<1> QED BY <1>3, <1>6, <1>7, <1>8, <1>9, <1>10, <1>12

(* The answers on the files pane: each of the theme shown.                          *)
LEMMA FilesAnswer ==
    ASSUME Records!Inv, s1 = "files", NEW c \in s2,
           Records!landList(c) \/ Records!landGet(c) \/ Records!landPut(c) \/ Records!landBase(c)
           \/ Records!landUpload(c) \/ Records!landDrop(c)
    PROVE  Records!Inv'
<1> USE DEF Records!formVars
<1>1. /\ s9 = Records!NoDraft /\ s8 \in {0, 1, 2} /\ s8 \in {0, s7} /\ \A r \in s6 : r.id \in {1, 2}
      /\ Records!FileShape /\ (s15.text >= 0 => s15.draft \div 10 = s8)
      /\ Records!StoredOwn /\ Records!themeId = s8
  BY FilesKnow
<1>2. s2 \ {c} = {} /\ Records!CallShape(c) /\ Records!OfTheme(c)
  BY FilesKnow
<1>3. ASSUME Records!landList(c) PROVE Records!Inv'
  <2>1. /\ s7' = s7 /\ s1' = s1 /\ s9' = s9 /\ s18' = s18 /\ s2' = s2 \ {c}
        /\ \/ s6' = s6 /\ s8' = s8 /\ s15' = s15
           \/ s6' = c.rows /\ Records!refollow(c.rows, s7)
    BY <1>3 DEF Records!landList
  <2>2. \A r \in c.rows : r.id \in {1, 2}
    BY <1>2 DEF Records!OfTheme
  <2>3. /\ s8' \in {0, 1, 2} /\ s8' \in {0, s7} /\ \A r \in s6' : r.id \in {1, 2}
        /\ s15' = Records!NoFile \/ (s15' = s15 /\ s8' = s8)
    BY <1>1, <2>1, <2>2, Followed
  <2>4. Records!FileShape' /\ (s15'.text >= 0 => s15'.draft \div 10 = s8')
    BY <1>1, <2>3 DEF Records!FileShape, Records!NoFile
  <2>5. Records!StoredOwn'
    BY <1>1, <2>1 DEF Records!StoredOwn
  <2> QED BY <1>1, <1>2, <2>1, <2>3, <2>4, <2>5, FilesKept
<1>4. ASSUME UNCHANGED <<s1, s9, s6, s7, s8, s18>>,
             \A d, e \in s2' : d = e, \A d \in s2' : Records!CallShape(d) /\ Records!OfTheme(d)',
             Records!FileShape', s15'.text >= 0 => s15'.draft \div 10 = s8
      PROVE  Records!Inv'
  <2>1. Records!StoredOwn'
    BY <1>1, <1>4 DEF Records!StoredOwn
  <2> QED BY <1>1, <1>4, <2>1, FilesKept
<1>5. ASSUME Records!landGet(c) PROVE Records!Inv'
  <2>1. UNCHANGED <<s1, s9, s6, s7, s8, s18>> /\ s2' = {}
    BY <1>2, <1>5 DEF Records!landGet, Records!Show
  <2>2. Records!FileShape' /\ (s15'.text >= 0 => s15'.draft \div 10 = s8)
    <3>1. CASE Records!Ok(c) /\ s15.path = c.path
      <4>1. c.name \div 10 = s8 /\ s15' = [s15 EXCEPT !.text = c.name, !.draft = c.name]
        BY <1>2, <1>5, <3>1 DEF Records!landGet, Records!Answered, Records!OfTheme, Records!Stores,
           Records!ThemeKinds
      <4> DEFINE f == [s15 EXCEPT !.text = c.name]
      <4>2. f = [path |-> f.path, ro |-> f.ro, text |-> f.text, draft |-> f.draft, busy |-> f.busy]
        BY <1>1 DEF Records!FileShape
      <4>3. [s15 EXCEPT !.text = c.name, !.draft = c.name] = [f EXCEPT !.draft = c.name]
        OBVIOUS
      <4> HIDE DEF f
      <4>4. Records!FileShape' /\ s15'.draft = c.name
        BY <4>1, <4>2, <4>3 DEF Records!FileShape
      <4> QED BY <4>1, <4>4
    <3>2. CASE ~(Records!Ok(c) /\ s15.path = c.path)
      <4>1. s15' = s15
        BY <1>5, <3>2 DEF Records!landGet
      <4> QED BY <1>1, <4>1 DEF Records!FileShape
    <3> QED BY <3>1, <3>2
  <2> QED BY <1>4, <2>1, <2>2
<1>6. ASSUME Records!SendAll(s2 \ {c}, <<Records!reloadList>>) \/ s2' = s2 \ {c}
      PROVE  (\A d, e \in s2' : d = e) /\ \A d \in s2' : Records!CallShape(d) /\ Records!OfTheme(d)'
  BY <1>2, <1>6, ListSent
<1>7. ASSUME Records!landPut(c) PROVE Records!Inv'
  <2>1. UNCHANGED <<s1, s9, s6, s7, s8, s18>>
        /\ (Records!SendAll(s2 \ {c}, <<Records!reloadList>>) \/ s2' = s2 \ {c})
    BY <1>7 DEF Records!landPut
  <2>2. c.name \div 10 = s8
    BY <1>2, <1>7 DEF Records!landPut, Records!Answered, Records!OfTheme, Records!Stores, Records!ThemeKinds
  <2>3. Records!FileShape' /\ (s15'.text >= 0 => s15'.draft \div 10 = s8)
    <3>1. CASE s15' = [path |-> c.path, ro |-> FALSE, text |-> c.name, draft |-> c.name, busy |-> FALSE]
      BY <2>2, <3>1 DEF Records!FileShape
    <3>2. CASE s15' = [s15 EXCEPT !.busy = FALSE, !.ro = FALSE]
      <4> DEFINE f == [s15 EXCEPT !.busy = FALSE]
      <4>1. ASSUME NEW g, g = f
            PROVE  /\ g = [path |-> g.path, ro |-> g.ro, text |-> g.text, draft |-> g.draft, busy |-> g.busy]
                   /\ g.text = s15.text /\ g.draft = s15.draft
        BY <1>1, <4>1 DEF Records!FileShape
      <4>2. s15' = [f EXCEPT !.ro = FALSE]
        BY <3>2
      <4> HIDE DEF f
      <4>3. /\ f = [path |-> f.path, ro |-> f.ro, text |-> f.text, draft |-> f.draft, busy |-> f.busy]
            /\ f.text = s15.text /\ f.draft = s15.draft
        BY <4>1
      <4>4. Records!FileShape' /\ s15'.text = s15.text /\ s15'.draft = s15.draft
        BY <4>2, <4>3 DEF Records!FileShape
      <4> QED BY <1>1, <4>4
    <3>3. CASE s15' = [s15 EXCEPT !.busy = FALSE]
      BY <1>1, <3>3 DEF Records!FileShape
    <3>4. CASE s15' = s15
      BY <1>1, <3>4 DEF Records!FileShape
    <3> QED BY <1>7, <3>1, <3>2, <3>3, <3>4 DEF Records!landPut
  <2> QED BY <1>4, <1>6, <2>1, <2>3
<1>8. ASSUME Records!landBase(c) PROVE Records!Inv'
  <2>1. UNCHANGED <<s1, s9, s6, s7, s8, s18>>
    BY <1>8 DEF Records!landBase, Records!Show
  <2>2. CASE Records!Ok(c) /\ Records!themeId # 0
    <3>1. /\ c.name \div 10 = s8 /\ s8 # 0
          /\ Records!SendAll(s2 \ {c}, <<Records!FileCall("put", Records!themeId, c.path, c.name, TRUE, {})>>)
          /\ s15' = IF s15.path = c.path THEN [s15 EXCEPT !.busy = TRUE] ELSE s15
      BY <1>1, <1>2, <1>8, <2>2 DEF Records!landBase, Records!saveText, Records!Answered, Records!OfTheme,
           Records!Stores, Records!ThemeKinds
    <3>2. "put" \in Records!ThemeKinds
      BY DEF Records!ThemeKinds
    <3>3. (\A d, e \in s2' : d = e) /\ \A d \in s2' : Records!CallShape(d) /\ Records!OfTheme(d)'
      BY <1>1, <1>2, <2>1, <3>1, <3>2, FilesSent
    <3>4. Records!FileShape' /\ (s15'.text >= 0 => s15'.draft \div 10 = s8)
      BY <1>1, <3>1 DEF Records!FileShape
    <3> QED BY <1>4, <2>1, <3>3, <3>4
  <2>3. CASE ~(Records!Ok(c) /\ Records!themeId # 0)
    <3>1. s2' = s2 \ {c} /\ s15' = s15
      BY <1>8, <2>3 DEF Records!landBase
    <3> QED BY <1>1, <1>4, <1>6, <2>1, <3>1 DEF Records!FileShape
  <2> QED BY <2>2, <2>3
<1>9. ASSUME Records!landUpload(c) PROVE Records!Inv'
  <2>1. UNCHANGED <<s1, s9, s6, s7, s8, s18, s15>>
    BY <1>9 DEF Records!landUpload
  <2>2. \/ Records!SendAll(s2 \ {c}, <<Records!reloadList>>) \/ s2' = s2 \ {c}
        \/ Records!deleteFiles(s2 \ {c}, c.drop)
    BY <1>9 DEF Records!landUpload
  <2>3. ASSUME Records!deleteFiles(s2 \ {c}, c.drop)
        PROVE  (\A d, e \in s2' : d = e) /\ \A d \in s2' : Records!CallShape(d) /\ Records!OfTheme(d)'
    <3>1. Records!SendAll(s2 \ {c}, <<Records!FileCall("drop", Records!themeId, 0, 0, FALSE, c.drop)>>) /\ s8 # 0
      BY <1>1, <2>3 DEF Records!deleteFiles
    <3>2. "drop" \in Records!ThemeKinds /\ "drop" \notin {"put", "upload"}
      BY DEF Records!ThemeKinds
    <3> QED BY <1>1, <1>2, <2>1, <3>1, <3>2, FilesSent
  <2> QED BY <1>1, <1>4, <1>6, <2>1, <2>2, <2>3 DEF Records!FileShape
<1>10. ASSUME Records!landDrop(c) PROVE Records!Inv'
  <2>1. UNCHANGED <<s1, s9, s6, s7, s8, s18>>
        /\ (Records!SendAll(s2 \ {c}, <<Records!reloadList>>) \/ s2' = s2 \ {c})
        /\ (s15' = Records!NoFile \/ s15' = s15)
    BY <1>10 DEF Records!landDrop
  <2>2. Records!FileShape' /\ (s15'.text >= 0 => s15'.draft \div 10 = s8)
    BY <1>1, <2>1 DEF Records!FileShape, Records!NoFile
  <2> QED BY <1>4, <1>6, <2>1, <2>2
<1> QED BY <1>3, <1>5, <1>7, <1>8, <1>9, <1>10

(* The server reads and stores a text under the theme it is of.                     *)
LEMMA FilesServer ==
    ASSUME Records!Inv, s1 = "files", NEW c \in s2, Records!ServerRuns(c) \/ Records!Refused(c)
    PROVE  Records!Inv'
<1> USE DEF Records!formVars, Records!fileVars
<1>1. /\ s9 = Records!NoDraft /\ s8 \in {0, 1, 2} /\ s8 \in {0, s7} /\ \A r \in s6 : r.id \in {1, 2}
      /\ Records!FileShape /\ (s15.text >= 0 => s15.draft \div 10 = s8)
      /\ Records!StoredOwn /\ Records!themeId = s8
  BY FilesKnow
<1>2. s2 \ {c} = {} /\ Records!CallShape(c) /\ Records!OfTheme(c)
  BY FilesKnow
<1>3. UNCHANGED <<s1, s9, s6, s7, s8, s15>>
  BY DEF Records!ServerRuns, Records!Refused
<1>4. ASSUME Records!StoredOwn', \E d : s2' = {d} /\ Records!CallShape(d) /\ Records!OfTheme(d)'
      PROVE  Records!Inv'
  <2>1. Records!FileShape' /\ (s15'.text >= 0 => s15'.draft \div 10 = s8')
    BY <1>1, <1>3 DEF Records!FileShape
  <2> QED BY <1>1, <1>3, <1>4, <2>1, FilesKept
<1>5. ASSUME Records!Refused(c) PROVE Records!Inv'
  <2> DEFINE d == [c EXCEPT !.state = "refused"]
  <2>1. Records!CallShape(d) /\ d.kind = c.kind /\ d.id = c.id /\ d.name = c.name /\ d.rows = c.rows
        /\ d.state = "refused"
    BY <1>2, RefusedKeeps
  <2>2. s2' = {d} /\ s18' = s18
    BY <1>2, <1>5 DEF Records!Refused
  <2> HIDE DEF d
  <2>3. Records!OfTheme(d)'
    BY <1>2, <1>3, <2>1 DEF Records!OfTheme, Records!Stores, Records!Ok
  <2>4. Records!StoredOwn'
    BY <1>1, <2>2 DEF Records!StoredOwn
  <2> QED BY <1>4, <2>1, <2>2, <2>3, <2>4
<1>6. ASSUME Records!ServerRuns(c) PROVE Records!Inv'
  <2> DEFINE rows == IF c.kind # "list" THEN {} ELSE IF s1 = "form" THEN Records!Records(c.home) ELSE Records!Themes
             name == IF c.kind = "base" \/ (c.kind = "get" /\ c.reopen) THEN 10 * c.id
                     ELSE IF c.kind = "get" THEN s18[c.id][c.path] ELSE c.name
  <2> DEFINE after == s2 \ {c}
  <2>1. Records!CallShape(c) /\ s2' = after \cup {RecordAnswer(c, "done", rows, name)}
    BY <1>2, <1>6 DEF Records!ServerRuns, RecordAnswer
  <2>2. \A r \in rows : r.id \in {1, 2}
    BY <1>1 DEF Records!Themes, Records!StoredOwn
  <2>3. c.kind \in {"get", "base", "put", "upload"} => name \div 10 = c.id
    <3>1. c.kind \in Records!ThemeKinds => c.id \in {1, 2}
      BY <1>1, <1>2 DEF Records!OfTheme
    <3>2. CASE c.kind = "base" \/ (c.kind = "get" /\ c.reopen)
      <4>1. c.id \in {1, 2} /\ name = 10 * c.id
        BY <3>1, <3>2 DEF Records!ThemeKinds
      <4> QED BY <4>1
    <3>3. CASE c.kind = "get" /\ ~c.reopen
      <4>1. c.id \in DOMAIN s18 /\ c.path \in DOMAIN s18[c.id] /\ name = s18[c.id][c.path]
        BY <1>1, <1>6, <3>1, <3>3 DEF Records!ServerRuns, Records!StoredOwn, Records!ThemeKinds
      <4> QED BY <1>1, <4>1 DEF Records!StoredOwn
    <3>4. CASE c.kind \in {"put", "upload"}
      BY <1>2, <3>4 DEF Records!OfTheme, Records!Stores
    <3> QED BY <3>2, <3>3, <3>4
  <2> HIDE DEF rows, name, after
  <2>4. PICK d : /\ s2' = after \cup {d} /\ Records!CallShape(d)
                 /\ d.kind = c.kind /\ d.id = c.id /\ d.name = name /\ d.rows = rows /\ d.state = "done"
    BY <2>1, AnsweredKeeps
  <2>5. Records!OfTheme(d)'
    BY <1>2, <1>3, <2>2, <2>3, <2>4 DEF Records!OfTheme, Records!Stores
  <2>6. s2' = {d}
    BY <1>2, <2>4 DEF after
  <2>7. Records!StoredOwn'
    <3>1. CASE c.kind \in {"put", "upload"}
      <4>1. c.name \div 10 = c.id
        BY <1>2, <3>1 DEF Records!OfTheme, Records!Stores
      <4>2. s18' = [s18 EXCEPT ![c.id] = [p \in DOMAIN @ \cup {c.path} |-> IF p = c.path THEN c.name ELSE @[p]]]
        BY <1>6, <3>1 DEF Records!ServerRuns
      <4> QED BY <1>1, <4>1, <4>2 DEF Records!StoredOwn
    <3>2. CASE c.kind = "drop"
      <4>1. s18' = [s18 EXCEPT ![c.id] = [p \in DOMAIN @ \ c.drop |-> @[p]]]
        BY <1>6, <3>2 DEF Records!ServerRuns
      <4> QED BY <1>1, <4>1 DEF Records!StoredOwn
    <3>3. CASE c.kind \notin {"put", "upload", "drop"}
      <4>1. s18' = s18
        BY <1>6, <3>3 DEF Records!ServerRuns
      <4> QED BY <1>1, <4>1 DEF Records!StoredOwn
    <3> QED BY <3>1, <3>2, <3>3
  <2> QED BY <1>4, <2>4, <2>5, <2>6, <2>7
<1> QED BY <1>5, <1>6

(* The files pane has no step of the form.                                          *)
LEMMA FilesStep == ASSUME Records!Inv, s1 = "files", Records!Next PROVE Records!Inv'
<1>1. s9 = Records!NoDraft /\ \A c \in s2 : c.kind \in {"list"} \cup Records!ThemeKinds
  BY FilesKnow DEF Records!OfTheme
<1>2. /\ ~Records!switchProject /\ ~Records!newRecord /\ ~Records!editLeaf /\ ~Records!save
      /\ ~Records!runAction /\ ~Records!confirmDelete
      /\ \A v : ~Records!typeField(v) /\ ~Records!pickOption(v) /\ ~Records!askDelete(v)
  BY <1>1 DEF Records!switchProject, Records!newRecord, Records!editLeaf, Records!save, Records!runAction,
       Records!confirmDelete, Records!typeField, Records!pickOption, Records!askDelete, Records!NoDraft
<1>3. \A c \in s2 : ~Records!landOptions(c) /\ ~Records!landWrite(c)
  BY <1>1 DEF Records!landOptions, Records!landWrite, Records!Answered, Records!ThemeKinds
<1> QED BY <1>2, <1>3, FilesUser, FilesAnswer, FilesServer DEF Records!Next

(* A record screen opens with the read of its list.                                 *)
LEMMA RecordsBegin == Records!Init => Records!Inv
<1> SUFFICES ASSUME Records!Init PROVE Records!Inv
  OBVIOUS
<1> DEFINE l == Records!RecordCall("list", 0, 1, 0, 0, 0)
           c == [l EXCEPT !.n = 1]
<1>1. Records!CallShape(l) /\ l.kind = "list" /\ l.rows = {}
  BY RecordCallMade
<1>2. s2 = {c}
  BY DEF Records!Init
<1> HIDE DEF l
<1>3. Records!CallShape(c) /\ c.kind = "list" /\ c.rows = {}
  BY <1>1, Numbered
<1> HIDE DEF c
<1>4. Records!StoredOwn
  BY DEF Records!Init, Records!StoredOwn, Records!Css
<1>5. Records!FileShape /\ ~(s15.text >= 0)
  BY DEF Records!Init, Records!FileShape, Records!NoFile
<1> QED BY <1>2, <1>3, <1>4, <1>5 DEF Records!Init, Records!Inv, Records!Shapes, Records!FormAsks,
     Records!FormKinds, Records!ThemeAsks, Records!OfTheme, Records!Stores, Records!ThemeKinds

(* Every step of a record screen keeps its invariant.                               *)
LEMMA RecordsStep == Records!Inv /\ [Records!Next]_(Records!vars) => Records!Inv'
<1> SUFFICES ASSUME Records!Inv, [Records!Next]_(Records!vars) PROVE Records!Inv'
  OBVIOUS
<1>1. CASE UNCHANGED Records!vars
  BY <1>1 DEF Records!vars, Records!formVars, Records!fileVars, Records!Inv, Records!Shapes, Records!FormAsks,
       Records!ThemeAsks, Records!OfTheme, Records!Stores, Records!Ok, Records!FileShape, Records!StoredOwn,
     Records!CallShape
<1> QED BY <1>1, FormStep, FilesStep DEF Records!Inv

(* The invariant has the property.                                                  *)
LEMMA RecordsFilesOwn == Records!Inv => Records!FilesOwn
  BY DEF Records!Inv, Records!ThemeAsks, Records!FormAsks, Records!OfTheme, Records!StoredOwn, Records!FilesOwn,
       Records!ThemeKinds, Records!FormKinds

-----------------------------------------------------------------------------
(* The mail pages (mailin/comm-routes.ts): a call is of the account shown, and what a  *)
(* create made is of the account it was asked for, so the secret shown is too.         *)
(* Here s1 is panel, s2 is calls, s5 is home, s6 is rows, s8 is form, s10 is minted, *)
(* s13 is notice, s14 is items.                                                      *)

(* A function on 1 .. n is a sequence.                                              *)
LEMMA ListIsSeq == ASSUME NEW n \in Nat, NEW T, NEW s \in [1 .. n -> T] PROVE s \in Seq(T)
  OBVIOUS

(* A sequence is one of its own elements.                                    *)
LEMMA OwnElements == ASSUME NEW S, NEW s \in Seq(S) PROVE s \in Seq({s[i] : i \in DOMAIN s})
<1>1. s \in [1 .. Len(s) -> S] /\ Len(s) \in Nat
  BY LenProperties
<1>2. s \in [1 .. Len(s) -> {s[i] : i \in DOMAIN s}]
  BY <1>1
<1> QED BY <1>1, <1>2

(* Items are only added to the list, and leave their account when removed.      *)
ItemsGrow == DOMAIN s14 \subseteq DOMAIN s14' /\ \A i \in DOMAIN s14 : s14'[i].home \in {0, s14[i].home}

(* An item made is the list's last.                                                 *)
LEMMA ItemAdded ==
    ASSUME Mail!ItemsMade, NEW r, Mail!ItemShape(r), s14' = Append(s14, r)
    PROVE  Mail!ItemsMade' /\ ItemsGrow /\ Len(s14') \in DOMAIN s14' /\ s14'[Len(s14')] = r
<1> DEFINE S == {s14[i] : i \in DOMAIN s14} \cup {r}
<1>1. s14 \in Seq(S) /\ r \in S
  BY DEF Mail!ItemsMade
<1> HIDE DEF S
<1>2. /\ s14' \in Seq(S) /\ Len(s14') = Len(s14) + 1 /\ s14'[Len(s14) + 1] = r
      /\ \A i \in 1 .. Len(s14) : s14'[i] = s14[i]
  BY <1>1, AppendProperties
<1>3. Len(s14) \in Nat /\ DOMAIN s14 = 1 .. Len(s14) /\ DOMAIN s14' = 1 .. Len(s14')
  BY <1>1, <1>2, LenProperties
<1>4. \A i \in DOMAIN s14' : Mail!ItemShape(s14'[i])
  BY <1>2, <1>3 DEF Mail!ItemsMade
<1>5. Mail!ItemsMade'
  BY <1>2, <1>4, OwnElements DEF Mail!ItemsMade, Mail!ItemShape
<1> QED BY <1>2, <1>3, <1>5 DEF ItemsGrow

(* An item changed keeps its account, or is removed from it.                        *)
LEMMA ItemChanged ==
    ASSUME Mail!ItemsMade, NEW k \in DOMAIN s14, NEW r, Mail!ItemShape(r), r.home \in {0, s14[k].home},
           s14' = [s14 EXCEPT ![k] = r]
    PROVE  Mail!ItemsMade' /\ ItemsGrow
<1> DEFINE n == Len(s14)
<1>1. n \in Nat /\ s14 \in [1 .. n -> {s14[i] : i \in DOMAIN s14}]
  BY LenProperties DEF Mail!ItemsMade
<1> HIDE DEF n
<1>2. /\ DOMAIN s14' = DOMAIN s14 /\ s14'[k] = r /\ \A i \in DOMAIN s14 : i # k => s14'[i] = s14[i]
      /\ s14' \in [1 .. n -> {s14'[i] : i \in DOMAIN s14'}]
  BY <1>1
<1>3. s14' \in Seq({s14'[i] : i \in DOMAIN s14'})
  <2> DEFINE T == {s14'[i] : i \in DOMAIN s14'}
  <2>1. s14' \in [1 .. n -> T]
    BY <1>2
  <2> HIDE DEF T
  <2>2. s14' \in Seq(T)
    BY <1>1, <2>1, ListIsSeq, Zenon
  <2> QED BY <2>2 DEF T
<1> QED BY <1>2, <1>3 DEF Mail!ItemsMade, Mail!ItemShape, ItemsGrow

(* A field set keeps the item's shape.                                              *)
LEMMA ItemFieldSet ==
    ASSUME NEW r, Mail!ItemShape(r), NEW v
    PROVE  /\ Mail!ItemShape([r EXCEPT !.home = v]) /\ [r EXCEPT !.home = v].home = v
           /\ Mail!ItemShape([r EXCEPT !.text = v]) /\ [r EXCEPT !.text = v].home = r.home
           /\ Mail!ItemShape([r EXCEPT !.secrets = v]) /\ [r EXCEPT !.secrets = v].home = r.home
           /\ Mail!ItemShape([r EXCEPT !.made = v]) /\ [r EXCEPT !.made = v].home = r.home
  BY DEF Mail!ItemShape

(* A call made is of the account shown.                                             *)
LEMMA MailCallMade ==
    ASSUME NEW kind, NEW id, NEW text, NEW of, s5' = s5, kind = "mint" => s1 = "calendars"
    PROVE  Mail!AskedHere(Mail!Call(kind, id, text, of))
<1>1. LET c == Mail!Call(kind, id, text, of) IN Mail!CallShape(c) /\ c.kind = kind /\ c.home = s5
      /\ c.state = "sent"
  BY DEF Mail!Call, Mail!CallShape
<1> QED BY <1>1 DEF Mail!AskedHere

(* A call stays of the account shown while items are only added or removed.         *)
LEMMA CallsKept ==
    ASSUME ItemsGrow, s5' = s5, s1' = s1, NEW c, Mail!AskedHere(c)
    PROVE  Mail!AskedHere(c)'
  BY DEF Mail!AskedHere, ItemsGrow, Mail!CallShape

(* So does the secret shown.                                                        *)
LEMMA SecretsKeptBy ==
    ASSUME ItemsGrow, Mail!SecretMade, Mail!SecretOwn, UNCHANGED <<s1, s5, s13>>, s10' \in {0, s10}
    PROVE  Mail!SecretMade' /\ Mail!SecretOwn'
  BY DEF ItemsGrow, Mail!SecretMade, Mail!SecretOwn

(* No item changed, and none is lost.                                               *)
LEMMA ItemsSame == ASSUME Mail!ItemsMade, s14' = s14 PROVE Mail!ItemsMade' /\ ItemsGrow
  BY DEF Mail!ItemsMade, Mail!ItemShape, ItemsGrow

-----------------------------------------------------------------------------

(* The page of jobs has no account and no secret.                                   *)
LEMMA JobsStep ==
    ASSUME Mail!Inv, Mail!loadJobs \/ (s1 = "jobs" /\ \E c \in s2 : Mail!landRun(c))
           \/ \E j \in Mail!Jobs : Mail!runNow(j) \/ Mail!serveRun(j) \/ Mail!failRun(j)
    PROVE  Mail!Inv'
<1> USE DEF Mail!pageVars
<1>1. s1 = "jobs" /\ UNCHANGED <<s1, s14, s10, s5, s13>>
  BY DEF Mail!loadJobs, Mail!landRun, Mail!runNow, Mail!serveRun, Mail!failRun, Mail!JobPage
<1>2. Mail!ItemsMade' /\ ItemsGrow
  BY <1>1, ItemsSame DEF Mail!Inv
<1> QED BY <1>1, <1>2, SecretsKeptBy DEF Mail!Inv

(* Another account shows none of the last one's secrets or refusals.            *)
LEMMA AccountPicked == ASSUME Mail!Inv, NEW h \in {1, 2}, Mail!pickAccount(h) PROVE Mail!Inv'
<1>1. /\ s1 = "routes" /\ s1' = s1 /\ s5' = h /\ s10' = 0 /\ s13' = 0 /\ s14' = s14
      /\ (\A c \in s2 : c.kind = "list") /\ s2' = s2 \cup {Mail!Call("list", 0, 0, 0)}
  BY DEF Mail!pickAccount, Mail!Page, Mail!load, Mail!Sent
<1>2. Mail!CallShape(Mail!Call("list", 0, 0, 0)) /\ Mail!Call("list", 0, 0, 0).kind = "list"
  BY DEF Mail!Call, Mail!CallShape
<1>3. \A c \in s2' : Mail!CallShape(c) /\ c.kind = "list"
  BY <1>1, <1>2 DEF Mail!Inv, Mail!AskedHere
<1>4. \A c \in s2' : Mail!AskedHere(c)'
  BY <1>3 DEF Mail!AskedHere, Mail!CallShape
<1>5. Mail!ItemsMade'
  BY <1>1, ItemsSame DEF Mail!Inv
<1> QED BY <1>1, <1>4, <1>5 DEF Mail!Inv, Mail!SecretMade, Mail!SecretOwn

(* The page's own steps.                                                     *)
LEMMA MailPageStep ==
    ASSUME Mail!Inv,
           \/ Mail!openAdd \/ Mail!typeForm \/ Mail!cancel \/ Mail!done \/ Mail!save
           \/ \E r \in s6 : Mail!openEdit(r) \/ Mail!ask(r.id) \/ Mail!remove(r) \/ Mail!mintURL(r)
              \/ \E u \in r.secrets : Mail!revoke(r, u)
    PROVE  Mail!Inv'
<1>1. s1 # "jobs" /\ UNCHANGED <<s1, s5, s13, s14>> /\ s10' \in {0, s10}
  BY DEF Mail!openAdd, Mail!openEdit, Mail!openForm, Mail!typeForm, Mail!cancel, Mail!done, Mail!save, Mail!ask,
       Mail!remove, Mail!mintURL, Mail!revoke, Mail!Page, Mail!Keep, Mail!Here
<1>2. s2' = s2 \/ \E c : Mail!AskedHere(c) /\ s2' = s2 \cup {c}
  <2>1. ASSUME Mail!save PROVE \E c : Mail!AskedHere(c) /\ s2' = s2 \cup {c}
    <3>1. s2' = s2 \cup {Mail!Call(IF s8.id = 0 THEN "create" ELSE "update", s8.id, s8.text, s8.n)}
      BY <2>1 DEF Mail!save, Mail!Write, Mail!Sent
    <3> QED BY <1>1, <3>1, MailCallMade
  <2>2. ASSUME NEW r \in s6, Mail!remove(r) PROVE \E c : Mail!AskedHere(c) /\ s2' = s2 \cup {c}
    <3>1. s2' = s2 \cup {Mail!Call("delete", r.id, 0, 0)}
      BY <2>2 DEF Mail!remove, Mail!Write, Mail!Sent
    <3> QED BY <1>1, <3>1, MailCallMade
  <2>3. ASSUME NEW r \in s6, Mail!mintURL(r) PROVE \E c : Mail!AskedHere(c) /\ s2' = s2 \cup {c}
    <3>1. s2' = s2 \cup {Mail!Call("mint", r.id, 0, 0)} /\ s1 = "calendars"
      BY <2>3 DEF Mail!mintURL, Mail!Write, Mail!Sent
    <3> QED BY <1>1, <3>1, MailCallMade
  <2>4. ASSUME NEW r \in s6, NEW u \in r.secrets, Mail!revoke(r, u)
        PROVE  \E c : Mail!AskedHere(c) /\ s2' = s2 \cup {c}
    <3>1. s2' = s2 \cup {Mail!Call("revoke", r.id, u, 0)}
      BY <2>4 DEF Mail!revoke, Mail!Write, Mail!Sent
    <3> QED BY <1>1, <3>1, MailCallMade
  <2>5. ASSUME Mail!openAdd \/ Mail!typeForm \/ Mail!cancel \/ Mail!done \/ \E r \in s6 : Mail!openEdit(r)
               \/ Mail!ask(r.id)
        PROVE  s2' = s2
    BY <2>5 DEF Mail!openAdd, Mail!openEdit, Mail!openForm, Mail!typeForm, Mail!cancel, Mail!done, Mail!ask,
       Mail!Keep
  <2> QED BY <2>1, <2>2, <2>3, <2>4, <2>5
<1>3. Mail!ItemsMade' /\ ItemsGrow
  BY <1>1, ItemsSame DEF Mail!Inv
<1>4. \A c \in s2' : Mail!AskedHere(c)'
  BY <1>1, <1>2, <1>3, CallsKept DEF Mail!Inv
<1> QED BY <1>1, <1>3, <1>4, SecretsKeptBy DEF Mail!Inv

(* The server answers with the item it made.                                 *)
LEMMA MailServed == ASSUME Mail!Inv, NEW c \in s2, Mail!serve(c) PROVE Mail!Inv'
<1> USE DEF Mail!pageVars
<1>1. s1 # "jobs" /\ UNCHANGED <<s1, s5, s13, s10>> /\ c.state = "sent" /\ Mail!AskedHere(c) /\ Mail!ItemsMade
  BY DEF Mail!serve, Mail!Page, Mail!Inv
<1>2. ASSUME Mail!ItemsMade', ItemsGrow,
             NEW d, s2' = (s2 \ {c}) \cup {d}, Mail!CallShape(d), d.kind = c.kind, d.home = c.home,
             d.kind = "create" => d.id \in DOMAIN s14' /\ s14'[d.id].home = c.home
      PROVE  Mail!Inv'
  <2>1. Mail!AskedHere(d)'
    BY <1>1, <1>2 DEF Mail!AskedHere, Mail!CallShape
  <2>2. \A e \in s2' : Mail!AskedHere(e)'
    BY <1>1, <1>2, <2>1, CallsKept DEF Mail!Inv
  <2> QED BY <1>1, <1>2, <2>2, SecretsKeptBy DEF Mail!Inv
<1>3. Mail!CallShape(c)
  BY <1>1 DEF Mail!AskedHere
<1> DEFINE e == [c EXCEPT !.state = "done"]
<1>4. Mail!CallShape(e) /\ e.kind = c.kind /\ e.home = c.home
  BY <1>3 DEF Mail!CallShape
<1> HIDE DEF e
<1>5. ASSUME c.kind = "list", UNCHANGED s14,
             s2' = (s2 \ {c}) \cup {[c EXCEPT !.state = "done", !.out = Mail!ListOf(c.home)]}
      PROVE  Mail!Inv'
  <2> DEFINE d == [e EXCEPT !.out = Mail!ListOf(c.home)]
  <2>1. Mail!CallShape(d) /\ d.kind = c.kind /\ d.home = c.home
    BY <1>4 DEF Mail!CallShape
  <2>2. d = [c EXCEPT !.state = "done", !.out = Mail!ListOf(c.home)]
    BY DEF e
  <2> HIDE DEF d
  <2> QED BY <1>1, <1>2, <1>5, <2>1, <2>2, ItemsSame
<1>6. ASSUME c.kind = "create", s14' = Append(s14, [home |-> c.home, text |-> c.text, secrets |-> {}, made |-> 0]),
             s2' = (s2 \ {c}) \cup {[c EXCEPT !.state = "done", !.id = Len(s14')]}
      PROVE  Mail!Inv'
  <2> DEFINE r == [home |-> c.home, text |-> c.text, secrets |-> {}, made |-> 0]
             d == [e EXCEPT !.id = Len(s14')]
  <2>1. Mail!CallShape(d) /\ d.kind = c.kind /\ d.home = c.home /\ d.id = Len(s14')
    BY <1>4 DEF Mail!CallShape
  <2>2. d = [c EXCEPT !.state = "done", !.id = Len(s14')]
    BY DEF e
  <2>3. Mail!ItemShape(r) /\ r.home = c.home
    BY DEF Mail!ItemShape
  <2> HIDE DEF d, r
  <2>4. Mail!ItemsMade' /\ ItemsGrow /\ Len(s14') \in DOMAIN s14' /\ s14'[Len(s14')] = r
    BY <1>1, <1>6, <2>3, ItemAdded DEF r
  <2> QED BY <1>2, <1>6, <2>1, <2>2, <2>3, <2>4
<1>7. ASSUME c.kind = "mint", Mail!Alive(c),
             s14' = [s14 EXCEPT ![c.id].secrets = @ \cup {Mail!NewSecret(c)}, ![c.id].made = @ + 1],
             s2' = (s2 \ {c}) \cup {[c EXCEPT !.state = "done", !.text = Mail!NewSecret(c)]}
      PROVE  Mail!Inv'
  <2> DEFINE d == [e EXCEPT !.text = Mail!NewSecret(c)]
             q == [s14[c.id] EXCEPT !.secrets = @ \cup {Mail!NewSecret(c)}]
             r == [q EXCEPT !.made = @ + 1]
  <2>1. Mail!CallShape(d) /\ d.kind = c.kind /\ d.home = c.home
    BY <1>4 DEF Mail!CallShape
  <2>2. d = [c EXCEPT !.state = "done", !.text = Mail!NewSecret(c)]
    BY DEF e
  <2> HIDE DEF d
  <2>3. Mail!ItemShape(q) /\ q.home = s14[c.id].home
    BY <1>1, <1>7, ItemFieldSet DEF Mail!Alive, Mail!ItemsMade
  <2>4. s14' = [s14 EXCEPT ![c.id] = r]
    BY <1>1, <1>7 DEF Mail!Alive, Mail!ItemsMade
  <2> HIDE DEF q
  <2>5. Mail!ItemShape(r) /\ r.home = s14[c.id].home
    BY <2>3, ItemFieldSet
  <2> HIDE DEF r
  <2>6. Mail!ItemsMade' /\ ItemsGrow
    BY <1>1, <1>7, <2>4, <2>5, ItemChanged DEF Mail!Alive
  <2> QED BY <1>2, <1>7, <2>1, <2>2, <2>6
<1>8. ASSUME c.kind \in {"update", "delete", "revoke"}, Mail!Alive(c),
             s14' = CASE c.kind = "update" -> [s14 EXCEPT ![c.id].text = c.text]
                        [] c.kind = "delete" -> [s14 EXCEPT ![c.id].home = 0, ![c.id].secrets = {}]
                        [] c.kind = "revoke" -> [s14 EXCEPT ![c.id].secrets = @ \ {c.text}]
                        [] OTHER -> s14,
             s2' = (s2 \ {c}) \cup {[c EXCEPT !.state = "done"]}
      PROVE  Mail!Inv'
  <2>1. Mail!ItemShape(s14[c.id]) /\ c.id \in DOMAIN s14
    BY <1>1, <1>8 DEF Mail!Alive, Mail!ItemsMade
  <2>2. Mail!ItemsMade' /\ ItemsGrow
    <3>1. CASE c.kind = "update"
      <4> DEFINE r == [s14[c.id] EXCEPT !.text = c.text]
      <4>1. Mail!ItemShape(r) /\ r.home = s14[c.id].home
        BY <2>1, ItemFieldSet
      <4>2. s14' = [s14 EXCEPT ![c.id] = r]
        BY <1>8, <3>1
      <4> HIDE DEF r
      <4> QED BY <1>1, <2>1, <4>1, <4>2, ItemChanged
    <3>2. CASE c.kind = "delete"
      <4> DEFINE q == [s14[c.id] EXCEPT !.home = 0]
                 r == [q EXCEPT !.secrets = {}]
      <4>1. Mail!ItemShape(q) /\ q.home = 0
        BY <2>1, ItemFieldSet
      <4>2. s14' = [s14 EXCEPT ![c.id] = r]
        BY <1>8, <2>1, <3>2
      <4> HIDE DEF q
      <4>3. Mail!ItemShape(r) /\ r.home = 0
        BY <4>1, ItemFieldSet
      <4> HIDE DEF r
      <4> QED BY <1>1, <2>1, <4>2, <4>3, ItemChanged
    <3>3. CASE c.kind = "revoke"
      <4> DEFINE r == [s14[c.id] EXCEPT !.secrets = @ \ {c.text}]
      <4>1. Mail!ItemShape(r) /\ r.home = s14[c.id].home
        BY <2>1, ItemFieldSet
      <4>2. s14' = [s14 EXCEPT ![c.id] = r]
        BY <1>8, <3>3
      <4> HIDE DEF r
      <4> QED BY <1>1, <2>1, <4>1, <4>2, ItemChanged
    <3> QED BY <1>8, <3>1, <3>2, <3>3
  <2> QED BY <1>2, <1>4, <1>8, <2>2 DEF e
<1>9. Mail!Runs(c)
  BY DEF Mail!serve
<1> QED BY <1>5, <1>6, <1>7, <1>8, <1>9 DEF Mail!Runs

(* An answer: a secret shown is of the item its call made, in its own account.    *)
LEMMA MailAnswer ==
    ASSUME Mail!Inv, NEW c \in s2, s1 # "jobs",
           Mail!landList(c) \/ Mail!landSave(c) \/ Mail!landMint(c) \/ Mail!landDelete(c) \/ Mail!fail(c)
    PROVE  Mail!Inv'
<1>1. UNCHANGED <<s1, s5, s14>> /\ Mail!AskedHere(c)
  BY DEF Mail!landList, Mail!landSave, Mail!landMint, Mail!landDelete, Mail!fail, Mail!Page, Mail!Answer, Mail!Inv
<1>2. s2' = s2 \ {c} \/ s2' = (s2 \ {c}) \cup {Mail!Call("list", 0, 0, 0)}
  BY DEF Mail!landList, Mail!landSave, Mail!landMint, Mail!landDelete, Mail!fail, Mail!load, Mail!Sent
<1>3. Mail!ItemsMade' /\ ItemsGrow
  BY <1>1, ItemsSame DEF Mail!Inv
<1>4. \A d \in s2' : Mail!AskedHere(d)'
  BY <1>1, <1>2, <1>3, MailCallMade, CallsKept DEF Mail!Inv
<1>5. Mail!SecretMade' /\ Mail!SecretOwn'
  <2>1. CASE Mail!landList(c)
    BY <1>1, <1>3, <2>1, SecretsKeptBy DEF Mail!Inv, Mail!landList
  <2>2. CASE Mail!landDelete(c)
    BY <1>1, <1>3, <2>2, SecretsKeptBy DEF Mail!Inv, Mail!landDelete
  <2>3. CASE Mail!landMint(c)
    <3>1. s1 = "calendars" /\ s13' = s13
      BY <1>1, <2>3 DEF Mail!landMint, Mail!Answer, Mail!AskedHere
    <3> QED BY <1>1, <3>1 DEF Mail!SecretMade, Mail!SecretOwn, Mail!Inv
  <2>4. CASE Mail!fail(c)
    <3>1. s10' = s10 /\ s13' \in {s13, s5}
      BY <1>1, <2>4 DEF Mail!fail, Mail!AskedHere
    <3> QED BY <1>1, <3>1 DEF Mail!SecretMade, Mail!SecretOwn, Mail!Inv
  <2>5. CASE Mail!landSave(c)
    <3>1. s13' = s13
      BY <2>5 DEF Mail!landSave
    <3>2. CASE s1 = "routes" /\ c.kind = "create"
      <4>1. s10' = 10 * c.id /\ c.id \in DOMAIN s14 /\ s14[c.id].home \in {0, s5}
        BY <1>1, <2>5, <3>2 DEF Mail!landSave, Mail!show, Mail!Answer, Mail!AskedHere
      <4>2. c.id \in Int
        BY <4>1, LenProperties DEF Mail!Inv, Mail!ItemsMade
      <4>3. s10' \div 10 = c.id
        BY <4>1, <4>2
      <4> QED BY <1>1, <3>1, <4>1, <4>3 DEF Mail!SecretMade, Mail!SecretOwn, Mail!Inv
    <3>3. CASE ~(s1 = "routes" /\ c.kind = "create")
      <4>1. s10' = s10
        BY <2>5, <3>3 DEF Mail!landSave
      <4> QED BY <1>1, <1>3, <3>1, <4>1, SecretsKeptBy DEF Mail!Inv
    <3> QED BY <3>2, <3>3
  <2> QED BY <2>1, <2>2, <2>3, <2>4, <2>5
<1> QED BY <1>3, <1>4, <1>5 DEF Mail!Inv

(* A mail page opens with its invariant.                                            *)
LEMMA MailBegins == Mail!Init => Mail!Inv
<1> SUFFICES ASSUME Mail!Init PROVE Mail!Inv
  OBVIOUS
<1>1. \A c \in s2 : Mail!AskedHere(c)
  BY DEF Mail!Init, Mail!AskedHere, Mail!CallShape
<1>2. Mail!ItemsMade
  <2>1. CASE s14 = <<>>
    BY <2>1 DEF Mail!ItemsMade
  <2> DEFINE r == [home |-> 1, text |-> 0, secrets |-> {}, made |-> 0]
  <2>2. Mail!ItemShape(r)
    BY DEF Mail!ItemShape
  <2> HIDE DEF r
  <2>3. CASE s14 = <<r>>
    <3>1. <<r>> \in Seq({r}) /\ \A i \in DOMAIN <<r>> : <<r>>[i] = r
      OBVIOUS
    <3> QED BY <2>2, <2>3, <3>1, OwnElements DEF Mail!ItemsMade
  <2> QED BY <2>1, <2>3 DEF Mail!Init, r
<1> QED BY <1>1, <1>2 DEF Mail!Init, Mail!Inv, Mail!SecretMade, Mail!SecretOwn

(* Every step of a mail page keeps its invariant.                                   *)
LEMMA MailStep == Mail!Inv /\ [Mail!Next]_(Mail!vars) => Mail!Inv'
<1> SUFFICES ASSUME Mail!Inv, [Mail!Next]_(Mail!vars) PROVE Mail!Inv'
  OBVIOUS
<1>1. CASE UNCHANGED Mail!vars
  <2>1. UNCHANGED <<s1, s2, s14, s10, s5, s13>>
    BY <1>1 DEF Mail!vars, Mail!pageVars
  <2>2. Mail!ItemsMade' /\ ItemsGrow
    BY <2>1, ItemsSame DEF Mail!Inv
  <2>3. s1 # "jobs" => \A c \in s2' : Mail!AskedHere(c)'
    BY <2>1, <2>2, CallsKept DEF Mail!Inv
  <2> QED BY <2>1, <2>2, <2>3, SecretsKeptBy DEF Mail!Inv
<1> QED BY <1>1, JobsStep, AccountPicked, MailPageStep, MailServed, MailAnswer DEF Mail!Next

-----------------------------------------------------------------------------
(* The new-task overlay (quick-entry/): a card is made once of a form, with what the  *)
(* form held when it was submitted, as one submit is out and the form waits for it.    *)
(* Here s1 is opened, s2 is asking, s3 is submitting, s4 is form, s5 is files, s6 is *)
(* uploads, s7 is inserts, s8 is binds, s9 is cards, s10 is made.                    *)

(* The form opens with no card made and no file in hand.                           *)
LEMMA OnceBegins == Entry!Init => Entry!OnceInv
  BY DEF Entry!Init, Entry!OnceInv, Entry!Shapes, Entry!FormShape, Entry!NewForm, Entry!OneSubmit,
       Entry!FormsInOrder, Entry!CreatedOnce

(* What leaves the calls and the cards alone may only replace the form by a later one. *)
LEMMA FormEdited ==
    ASSUME Entry!OnceInv, UNCHANGED <<s3, s6, s7, s9>>, Entry!FormShape',
           \/ s4'.entry > s4.entry
           \/ s4'.entry = s4.entry /\ s1' = s1
    PROVE  Entry!OnceInv'
<1>1. Entry!Shapes' /\ Entry!OneSubmit' /\ Entry!CreatedOnce'
  BY DEF Entry!OnceInv, Entry!Shapes, Entry!FormShape, Entry!OneSubmit, Entry!CreatedOnce, Entry!UploadShape,
       Entry!InsertShape, Entry!CardShape, Entry!JobShape
<1>2. /\ s4.entry \in Nat /\ s4'.entry \in Nat /\ \A c \in s9 : c.entry \in Nat /\ c.entry < s4.entry
      /\ \A u \in s6 : u.job.entry \in Nat /\ Entry!Newer(u.job)
      /\ \A c \in s7 : c.job.entry \in Nat /\ Entry!Newer(c.job)
  BY DEF Entry!OnceInv, Entry!Shapes, Entry!FormShape, Entry!FormsInOrder, Entry!UploadShape, Entry!InsertShape,
       Entry!CardShape, Entry!JobShape
<1>3. Entry!FormsInOrder'
  BY <1>2 DEF Entry!FormsInOrder, Entry!Newer
<1> QED BY <1>1, <1>3 DEF Entry!OnceInv

(* What the user does to the form makes no card.                                   *)
LEMMA ScreenStep ==
    ASSUME Entry!OnceInv,
           \/ Entry!open \/ Entry!requestDismiss \/ Entry!type \/ Entry!pick \/ Entry!queueFiles
           \/ \E d \in BOOLEAN : Entry!answerDismiss(d)
           \/ \E a \in s4.atts : Entry!removeAttachment(a)
    PROVE  Entry!OnceInv'
<1>0. Entry!FormShape
  BY DEF Entry!OnceInv, Entry!Shapes
<1>n. Entry!NewForm(s4.entry + 1).entry > s4.entry /\ (s4' = Entry!NewForm(s4.entry + 1) => Entry!FormShape')
  BY <1>0 DEF Entry!NewForm, Entry!FormShape
<1>1. CASE Entry!open
  <2>1. UNCHANGED <<s3, s6, s7, s9>> /\ s4' = Entry!NewForm(s4.entry + 1)
    BY <1>1 DEF Entry!open, Entry!callVars, Entry!serverVars
  <2> QED BY <1>n, <2>1, FormEdited
<1>2. CASE Entry!requestDismiss
  <2>1. /\ UNCHANGED <<s3, s6, s7, s9>>
        /\ s4' = Entry!NewForm(s4.entry + 1) \/ UNCHANGED <<s1, s4>>
    BY <1>2 DEF Entry!requestDismiss, Entry!close, Entry!callVars, Entry!serverVars
  <2> QED BY <1>0, <1>n, <2>1, FormEdited DEF Entry!FormShape
<1>3. CASE Entry!type
  BY <1>0, <1>3, FormEdited DEF Entry!type, Entry!FormShape, Entry!callVars, Entry!serverVars
<1>4. CASE Entry!pick
  BY <1>0, <1>4, FormEdited DEF Entry!pick, Entry!FormShape, Entry!callVars, Entry!serverVars
<1>5. CASE Entry!queueFiles
  BY <1>0, <1>5, FormEdited DEF Entry!queueFiles, Entry!FormShape, Entry!callVars, Entry!serverVars
<1>6. CASE \E d \in BOOLEAN : Entry!answerDismiss(d)
  <2>1. /\ UNCHANGED <<s3, s6, s7, s9>>
        /\ s4' = Entry!NewForm(s4.entry + 1) \/ UNCHANGED <<s1, s4>>
    BY <1>6 DEF Entry!answerDismiss, Entry!close, Entry!callVars, Entry!serverVars
  <2> QED BY <1>0, <1>n, <2>1, FormEdited DEF Entry!FormShape
<1>7. CASE \E a \in s4.atts : Entry!removeAttachment(a)
  BY <1>0, <1>7, FormEdited DEF Entry!removeAttachment, Entry!FormShape, Entry!callVars, Entry!serverVars
<1> QED BY <1>1, <1>2, <1>3, <1>4, <1>5, <1>6, <1>7

(* One submit begins: of the form that is shown, which no card is of.           *)
LEMMA SubmitStep == ASSUME Entry!OnceInv, NEW shut \in BOOLEAN, Entry!submit(shut) PROVE Entry!OnceInv'
<1>0. /\ Entry!FormShape /\ s6 = {} /\ s7 = {} /\ s1 /\ s1' /\ s3' /\ s9' = s9
      /\ \A c \in s9 : Entry!CardShape(c) /\ c.entry < s4.entry
  BY DEF Entry!submit, Entry!OnceInv, Entry!Shapes, Entry!OneSubmit, Entry!FormsInOrder, Entry!serverVars
<1> DEFINE j == Entry!Job(s4, shut)
<1>1. Entry!JobShape(j) /\ j.entry = s4.entry
  BY <1>0 DEF Entry!Job, Entry!JobShape, Entry!FormShape
<1>2. /\ Entry!FormShape' /\ s4'.entry = s4.entry
      /\ \/ s6' = {} /\ \E f : s7' = {[job |-> j, desc |-> f.desc, tag |-> f.tag, files |-> Entry!Ready(f)]}
         \/ s7' = {} /\ \E r : s6' = {[job |-> j, remaining |-> r]}
  BY <1>0 DEF Entry!submit, Entry!fireSubmit, Entry!FormShape
<1> HIDE DEF j
<1>3. Entry!Shapes'
  BY <1>0, <1>1, <1>2 DEF Entry!Shapes, Entry!UploadShape, Entry!InsertShape, Entry!CardShape
<1>4. Entry!OneSubmit'
  BY <1>0, <1>2 DEF Entry!OneSubmit
<1>5. Entry!FormsInOrder'
  BY <1>0, <1>1, <1>2 DEF Entry!FormsInOrder, Entry!Newer, Entry!FormShape
<1> QED BY <1>0, <1>3, <1>4, <1>5 DEF Entry!OnceInv, Entry!CreatedOnce

(* Uploads end, or the last one sends the insert of its own submit.             *)
LEMMA UploadStep ==
    ASSUME Entry!OnceInv, NEW u \in s6, UNCHANGED <<s1, s9>>, Entry!FormShape', s4'.entry = s4.entry,
           \/ s6' = s6 \ {u} /\ s7' = s7
           \/ /\ s6' = s6 \ {u} /\ s3' = s3
              /\ \E f : s7' = s7 \cup {[job |-> u.job, desc |-> f.desc, tag |-> f.tag, files |-> Entry!Ready(f)]}
           \/ /\ \E r : s6' = (s6 \ {u}) \cup {[u EXCEPT !.remaining = r]}
              /\ s7' = s7 /\ s3' = s3
    PROVE  Entry!OnceInv'
<1>0. s6 = {u} /\ s7 = {} /\ s3 /\ Entry!UploadShape(u) /\ Entry!Newer(u.job)
  BY DEF Entry!OnceInv, Entry!OneSubmit, Entry!Shapes, Entry!FormsInOrder
<1>1. \/ s6' = {} /\ s7' = {}
      \/ s6' = {} /\ s3' /\ \E f : s7' = {[job |-> u.job, desc |-> f.desc, tag |-> f.tag, files |-> Entry!Ready(f)]}
      \/ (\E r : s6' = {[job |-> u.job, remaining |-> r]}) /\ s7' = {} /\ s3'
  <2>1. \A r : [u EXCEPT !.remaining = r] = [job |-> u.job, remaining |-> r]
    BY <1>0 DEF Entry!UploadShape
  <2> QED BY <1>0, <2>1
<1>2. Entry!Shapes'
  BY <1>0, <1>1 DEF Entry!OnceInv, Entry!Shapes, Entry!UploadShape, Entry!InsertShape, Entry!CardShape,
     Entry!JobShape
<1>3. Entry!OneSubmit'
  BY <1>1 DEF Entry!OneSubmit
<1>4. Entry!FormsInOrder'
  BY <1>0, <1>1 DEF Entry!OnceInv, Entry!FormsInOrder, Entry!Newer
<1> QED BY <1>2, <1>3, <1>4 DEF Entry!OnceInv, Entry!CreatedOnce

(* A batch of uploads that ends sends the one insert, or gives the form back.      *)
LEMMA UploadAnswers ==
    ASSUME Entry!OnceInv, NEW u \in s6, NEW id \in 1..EntryFiles, Entry!uploadDone(u, id)
           \/ Entry!uploadFails(u, id)
    PROVE  Entry!OnceInv'
<1>0. Entry!FormShape /\ Entry!UploadShape(u)
  BY DEF Entry!OnceInv, Entry!Shapes
<1>1. CASE Entry!uploadDone(u, id)
  <2>1. Entry!FormShape' /\ s4'.entry = s4.entry
    BY <1>0, <1>1 DEF Entry!uploadDone, Entry!FormShape, Entry!SetStatus
  <2>2. CASE ~s1
    BY <1>1, <2>1, <2>2, UploadStep DEF Entry!uploadDone, Entry!serverVars
  <2>3. CASE s1
    <3>1. u.job = [u EXCEPT !.remaining = @ \ {id}].job
      BY <1>0 DEF Entry!UploadShape
    <3>2. \/ /\ s6' = s6 \ {u} /\ s3' = s3
             /\ s7' = s7 \cup {[job |-> u.job, desc |-> s4'.desc, tag |-> s4'.tag, files |-> Entry!Ready(s4')]}
          \/ /\ s6' = (s6 \ {u}) \cup {[u EXCEPT !.remaining = u.remaining \ {id}]}
             /\ s7' = s7 /\ s3' = s3
      BY <1>1, <2>3, <3>1 DEF Entry!uploadDone, Entry!fireSubmit
    <3> QED BY <1>1, <2>1, <3>2, UploadStep DEF Entry!uploadDone, Entry!serverVars
  <2> QED BY <2>2, <2>3
<1>2. CASE Entry!uploadFails(u, id)
  <2>1. Entry!FormShape' /\ s4'.entry = s4.entry
    BY <1>0, <1>2 DEF Entry!uploadFails, Entry!FormShape, Entry!SetStatus
  <2> QED BY <1>2, <2>1, UploadStep DEF Entry!uploadFails, Entry!serverVars
<1> QED BY <1>1, <1>2

(* The card of an insert is the only one of its form, and older ones are of earlier ones. *)
LEMMA InsertStep ==
    ASSUME Entry!OnceInv, NEW c \in s7, NEW ok \in BOOLEAN, Entry!landInsert(c, ok)
    PROVE  Entry!OnceInv'
<1>0. /\ s7 = {c} /\ s6 = {} /\ s7' = {} /\ s6' = {} /\ Entry!FormShape /\ Entry!InsertShape(c)
         /\ Entry!Newer(c.job)
      /\ \A d \in s9 : Entry!CardShape(d) /\ d.entry < s4.entry
  BY DEF Entry!landInsert, Entry!OnceInv, Entry!OneSubmit, Entry!Shapes, Entry!FormsInOrder
<1>1. CASE ok
  <2> DEFINE n == [id |-> s10', entry |-> c.job.entry, status |-> c.job.status, meant |-> c.job.meant,
                   desc |-> c.desc, tag |-> FALSE, files |-> {}]
  <2>1. s9' = s9 \cup {n} /\ Entry!CardShape(n) /\ n.entry = c.job.entry
    BY <1>0, <1>1 DEF Entry!landInsert, Entry!CardShape, Entry!InsertShape, Entry!JobShape
  <2> HIDE DEF n
  <2>2. Entry!FormShape' /\ s4'.entry >= s4.entry /\ c.job.entry < s4'.entry
    BY <1>0, <1>1 DEF Entry!landInsert, Entry!FormShape, Entry!NewForm, Entry!Newer, Entry!InsertShape,
       Entry!JobShape
  <2>3. Entry!Shapes'
    BY <1>0, <2>1, <2>2 DEF Entry!Shapes, Entry!CardShape
  <2>4. Entry!OneSubmit'
    BY <1>0 DEF Entry!OneSubmit
  <2>5. Entry!FormsInOrder'
    BY <1>0, <2>1, <2>2 DEF Entry!FormsInOrder, Entry!FormShape, Entry!CardShape
  <2>6. Entry!CreatedOnce'
    BY <1>0, <2>1 DEF Entry!OnceInv, Entry!CreatedOnce, Entry!Newer, Entry!CardShape, Entry!InsertShape,
         Entry!JobShape
  <2> QED BY <2>3, <2>4, <2>5, <2>6 DEF Entry!OnceInv
<1>2. CASE ~ok
  <2>1. UNCHANGED <<s1, s4, s9>>
    BY <1>2 DEF Entry!landInsert
  <2>2. Entry!Shapes' /\ Entry!OneSubmit'
    BY <1>0, <2>1 DEF Entry!OnceInv, Entry!Shapes, Entry!OneSubmit, Entry!FormShape, Entry!CardShape
  <2>3. Entry!FormsInOrder' /\ Entry!CreatedOnce'
    BY <1>0, <2>1 DEF Entry!OnceInv, Entry!FormsInOrder, Entry!CreatedOnce
  <2> QED BY <2>2, <2>3 DEF Entry!OnceInv
<1> QED BY <1>1, <1>2

(* An entry of the list of cards is changed in place.                              *)
LEMMA CardEdited ==
    ASSUME NEW c, Entry!CardShape(c), NEW t, NEW f
    PROVE  /\ Entry!CardShape([c EXCEPT !.tag = t]) /\ [c EXCEPT !.tag = t].entry = c.entry
           /\ Entry!CardShape([c EXCEPT !.files = f]) /\ [c EXCEPT !.files = f].entry = c.entry
  BY DEF Entry!CardShape

(* A bind ends on the card its insert made.                                        *)
LEMMA BindStep ==
    ASSUME Entry!OnceInv, NEW b \in s8, NEW ok \in BOOLEAN, Entry!landBind(b, ok)
    PROVE  Entry!OnceInv'
<1> DEFINE With(c) == IF c.id # b.card THEN c ELSE IF b.part = None THEN [c EXCEPT !.tag = TRUE]
                      ELSE [c EXCEPT !.files = @ \cup {b.part}]
<1>1. /\ UNCHANGED <<s1, s3, s4, s6, s7>> /\ s9' = {With(c) : c \in s9}
      /\ \A c \in s9 : Entry!CardShape(c)
  BY DEF Entry!landBind, Entry!OnceInv, Entry!Shapes
<1>2. ASSUME NEW c \in s9 PROVE Entry!CardShape(With(c)) /\ With(c).entry = c.entry
  <2>1. CASE c.id # b.card
    BY <1>1, <2>1
  <2>2. CASE c.id = b.card /\ b.part = None
    BY <1>1, <2>2, CardEdited
  <2>3. CASE c.id = b.card /\ b.part # None
    BY <1>1, <2>3, CardEdited
  <2> QED BY <2>1, <2>2, <2>3
<1> HIDE DEF With
<1>3. Entry!Shapes'
  BY <1>1, <1>2 DEF Entry!OnceInv, Entry!Shapes, Entry!FormShape, Entry!UploadShape, Entry!InsertShape,
       Entry!JobShape, Entry!CardShape
<1>4. Entry!OneSubmit'
  BY <1>1 DEF Entry!OnceInv, Entry!OneSubmit
<1>5. Entry!FormsInOrder'
  BY <1>1, <1>2 DEF Entry!OnceInv, Entry!FormsInOrder, Entry!Newer
<1>6. Entry!CreatedOnce'
  BY <1>1, <1>2 DEF Entry!OnceInv, Entry!CreatedOnce
<1> QED BY <1>3, <1>4, <1>5, <1>6 DEF Entry!OnceInv

(* An undo deletes the card that was made and keeps its job.                       *)
LEMMA UndoStep == ASSUME Entry!OnceInv, Entry!undo PROVE Entry!OnceInv'
<1>1. UNCHANGED <<s1, s3, s4, s6, s7>> /\ s9' \subseteq s9
  BY DEF Entry!undo, Entry!screenVars, Entry!callVars
<1>2. Entry!Shapes' /\ Entry!OneSubmit'
  BY <1>1 DEF Entry!OnceInv, Entry!Shapes, Entry!OneSubmit, Entry!FormShape, Entry!UploadShape, Entry!InsertShape,
       Entry!JobShape, Entry!CardShape
<1>3. Entry!FormsInOrder' /\ Entry!CreatedOnce'
  BY <1>1 DEF Entry!OnceInv, Entry!FormsInOrder, Entry!CreatedOnce, Entry!Newer
<1> QED BY <1>2, <1>3 DEF Entry!OnceInv

(* No step makes a second card of one submission.                                  *)
LEMMA OnceStep == ASSUME Entry!OnceInv, [Entry!Next]_(Entry!vars) PROVE Entry!OnceInv'
<1>1. CASE Entry!Next
  <2>1. CASE \E shut \in BOOLEAN : Entry!submit(shut)
    BY <2>1, SubmitStep
  <2>2. CASE \E u \in s6, id \in 1..EntryFiles : Entry!uploadDone(u, id) \/ Entry!uploadFails(u, id)
    BY <2>2, UploadAnswers
  <2>3. CASE \E c \in s7, ok \in BOOLEAN : Entry!landInsert(c, ok)
    BY <2>3, InsertStep
  <2>4. CASE \E b \in s8, ok \in BOOLEAN : Entry!landBind(b, ok)
    BY <2>4, BindStep
  <2> QED BY <1>1, <2>1, <2>2, <2>3, <2>4, ScreenStep, UndoStep DEF Entry!Next
<1>2. CASE UNCHANGED Entry!vars
  <2>1. UNCHANGED <<s1, s3, s4, s6, s7, s9>>
    BY <1>2 DEF Entry!vars
  <2> QED BY <2>1, FormEdited DEF Entry!OnceInv, Entry!Shapes, Entry!FormShape
<1> QED BY <1>1, <1>2

(* ----- A user who waits. ----- *)
LEMMA EntryBegins == Entry!Init => Entry!Inv
<1> SUFFICES ASSUME Entry!Init PROVE Entry!Inv
  OBVIOUS
<1>1. Entry!OnceInv
  BY OnceBegins
<1>2. Entry!Waiting
  BY DEF Entry!Init, Entry!Waiting, Entry!SubmitsShown
<1>3. Entry!WholeInv
  BY DEF Entry!Init, Entry!WholeInv, Entry!FilesNamed, Entry!NewForm, Entry!BindsOfCards
<1> QED BY <1>1, <1>2, <1>3 DEF Entry!Inv

(* While a form is out it is left alone; otherwise it may be replaced or edited.   *)
LEMMA Untouched ==
    ASSUME Entry!Inv, UNCHANGED <<s3, s6, s7, s8, s9, s10>>,
           Entry!OnceInv', Entry!FilesNamed', {s1', s2'} \subseteq BOOLEAN,
           ~s3 \/ (UNCHANGED <<s1, s4>> /\ s2' = FALSE)
    PROVE  Entry!Inv'
<1>0. s3 <=> s6 # {} \/ s7 # {}
  BY DEF Entry!Inv, Entry!Waiting, Entry!SubmitsShown
<1>1. Entry!Waiting'
  BY <1>0 DEF Entry!Inv, Entry!Waiting, Entry!SubmitsShown
<1>2. (\A c \in s9 : Entry!CardMeant(c)') /\ Entry!BindsOfCards'
  BY DEF Entry!Inv, Entry!WholeInv, Entry!CardMeant, Entry!Bound, Entry!BindsOfCards
<1>3. (\A u \in s6 : Entry!UploadMeant(u)') /\ \A c \in s7 : Entry!InsertMeant(c)'
  BY <1>0 DEF Entry!Inv, Entry!WholeInv, Entry!UploadMeant, Entry!Meant, Entry!InsertMeant
<1> QED BY <1>1, <1>2, <1>3 DEF Entry!Inv, Entry!WholeInv

(* A form just opened has no files to name.                                        *)
LEMMA NewFormNamed == ASSUME s5' \in Nat, NEW n, s4' = Entry!NewForm(n) PROVE Entry!FilesNamed'
  BY DEF Entry!FilesNamed, Entry!NewForm

(* What the user types while a submission is out leaves the submission as it was meant. *)
LEMMA ScreenWaits ==
    ASSUME Entry!Inv, Entry!OnceInv',
           \/ Entry!open \/ Entry!requestDismiss \/ Entry!type \/ Entry!pick \/ Entry!queueFiles
           \/ \E d \in BOOLEAN : Entry!answerDismiss(d)
           \/ \E a \in s4.atts : Entry!removeAttachment(a)
    PROVE  Entry!Inv'
<1>0. Entry!FormShape /\ Entry!FilesNamed /\ s5 \in Nat /\ (s2 => ~s3) /\ {s1, s2} \subseteq BOOLEAN
  BY DEF Entry!Inv, Entry!OnceInv, Entry!Shapes, Entry!WholeInv, Entry!FilesNamed, Entry!Waiting
<1>1. CASE Entry!open
  BY <1>0, <1>1, Untouched, NewFormNamed DEF Entry!open, Entry!callVars, Entry!serverVars
<1>2. CASE Entry!requestDismiss
  <2>1. /\ UNCHANGED <<s3, s5, s6, s7, s8, s9, s10>> /\ ~s3
        /\ s4' = Entry!NewForm(s4.entry + 1) \/ UNCHANGED s4
        /\ {s1', s2'} \subseteq BOOLEAN
    BY <1>0, <1>2 DEF Entry!requestDismiss, Entry!close, Entry!callVars, Entry!serverVars
  <2>2. Entry!FilesNamed'
    BY <1>0, <2>1, NewFormNamed DEF Entry!FilesNamed
  <2> QED BY <2>1, <2>2, Untouched
<1>3. CASE Entry!type
  <2>1. /\ UNCHANGED <<s3, s5, s6, s7, s8, s9, s10, s1, s2>> /\ ~s3
        /\ s4' \in {[s4 EXCEPT !.title = TRUE], [s4 EXCEPT !.desc = TRUE]}
    BY <1>3 DEF Entry!type, Entry!callVars, Entry!serverVars
  <2>2. s4'.desc \in BOOLEAN /\ s4'.tag = s4.tag /\ s4'.atts = s4.atts
    BY <1>0, <2>1 DEF Entry!FormShape, Entry!FilesNamed
  <2>3. Entry!FilesNamed'
    BY <1>0, <2>1, <2>2 DEF Entry!FilesNamed
  <2> QED BY <1>0, <2>1, <2>3, Untouched
<1>4. CASE Entry!pick
  <2>1. /\ UNCHANGED <<s3, s5, s6, s7, s8, s9, s10, s1, s2>> /\ ~s3
        /\ s4' = [s4 EXCEPT !.tag = ~@]
    BY <1>4 DEF Entry!pick, Entry!Free, Entry!callVars, Entry!serverVars
  <2>2. s4'.desc = s4.desc /\ s4'.tag \in BOOLEAN /\ s4'.atts = s4.atts
    BY <1>0, <2>1 DEF Entry!FormShape, Entry!FilesNamed
  <2>3. Entry!FilesNamed'
    BY <1>0, <2>1, <2>2 DEF Entry!FilesNamed
  <2> QED BY <1>0, <2>1, <2>3, Untouched
<1>5. CASE Entry!queueFiles
  <2>1. /\ UNCHANGED <<s3, s6, s7, s8, s9, s10, s1, s2>> /\ ~s3
        /\ s5' = s5 + 1 /\ s4' = [s4 EXCEPT !.atts = @ \cup {Entry!Att(s5', "queued")}]
    BY <1>5 DEF Entry!queueFiles, Entry!Free, Entry!callVars, Entry!serverVars
  <2>2. s4'.desc = s4.desc /\ s4'.tag = s4.tag /\ s4'.atts = s4.atts \cup {Entry!Att(s5 + 1, "queued")}
    BY <1>0, <2>1 DEF Entry!FormShape
  <2>3. Entry!FilesNamed'
    BY <1>0, <2>1, <2>2 DEF Entry!FilesNamed, Entry!Att
  <2> QED BY <1>0, <2>1, <2>3, Untouched
<1>6. CASE \E d \in BOOLEAN : Entry!answerDismiss(d)
  <2>1. /\ UNCHANGED <<s3, s5, s6, s7, s8, s9, s10>> /\ ~s3
        /\ s4' = Entry!NewForm(s4.entry + 1) \/ UNCHANGED s4
        /\ {s1', s2'} \subseteq BOOLEAN
    BY <1>0, <1>6 DEF Entry!answerDismiss, Entry!close, Entry!callVars, Entry!serverVars
  <2>2. Entry!FilesNamed'
    BY <1>0, <2>1, NewFormNamed DEF Entry!FilesNamed
  <2> QED BY <2>1, <2>2, Untouched
<1>7. CASE \E a \in s4.atts : Entry!removeAttachment(a)
  <2>1. /\ UNCHANGED <<s3, s5, s6, s7, s8, s9, s10, s1, s2>> /\ ~s3
        /\ \E a : s4' = [s4 EXCEPT !.atts = @ \ {a}]
    BY <1>7 DEF Entry!removeAttachment, Entry!Free, Entry!callVars, Entry!serverVars
  <2>2. s4'.desc = s4.desc /\ s4'.tag = s4.tag /\ s4'.atts \subseteq s4.atts
    BY <1>0, <2>1 DEF Entry!FormShape
  <2>3. Entry!FilesNamed'
    BY <1>0, <2>1, <2>2 DEF Entry!FilesNamed
  <2> QED BY <1>0, <2>1, <2>3, Untouched
<1> QED BY <1>1, <1>2, <1>3, <1>4, <1>5, <1>6, <1>7

(* What the submit sends is the form: all its files are ready, or are sent now.    *)
LEMMA SubmitWaits ==
    ASSUME Entry!Inv, Entry!OnceInv', NEW shut \in BOOLEAN, Entry!submit(shut)
    PROVE  Entry!Inv'
<1>0. /\ Entry!FormShape /\ Entry!FilesNamed /\ s6 = {} /\ s7 = {} /\ s1
      /\ s1' /\ s3' /\ s3' \in BOOLEAN /\ s2' = FALSE /\ UNCHANGED <<s1, s5, s8, s9, s10>>
      /\ s1 \in BOOLEAN
  BY DEF Entry!submit, Entry!Inv, Entry!OnceInv, Entry!Shapes, Entry!OneSubmit, Entry!WholeInv, Entry!Waiting,
       Entry!serverVars
<1> DEFINE todo == Entry!ToUpload(s4)
           j == Entry!Job(s4, shut)
<1>1. j.entry = s4.entry /\ Entry!Meant(j.meant, s4)
  BY DEF Entry!Job, Entry!Meant
<1> HIDE DEF j
<1>2. (\A c \in s9 : Entry!CardMeant(c)') /\ Entry!BindsOfCards'
  BY <1>0 DEF Entry!Inv, Entry!WholeInv, Entry!CardMeant, Entry!Bound, Entry!BindsOfCards
<1>3. CASE todo = {}
  <2>1. UNCHANGED <<s4, s6>> /\ s7' = {[job |-> j, desc |-> s4.desc, tag |-> s4.tag, files |-> Entry!Ready(s4)]}
    BY <1>0, <1>3 DEF Entry!submit, Entry!fireSubmit, j
  <2>2. Entry!Ready(s4) = {a.id : a \in s4.atts}
    BY <1>3 DEF Entry!Ready, Entry!ToUpload
  <2>3. Entry!Ready(s4) \subseteq Nat
    BY <1>0, <2>2 DEF Entry!FilesNamed
  <2>a. \A c \in s7' : c.job = j /\ c.desc = s4.desc /\ c.tag = s4.tag /\ c.files = Entry!Ready(s4)
    BY <2>1
  <2>4. \A c \in s7' : Entry!InsertMeant(c)'
    BY <1>0, <1>1, <2>a, <2>2, <2>3 DEF Entry!InsertMeant, Entry!Meant, Entry!FilesNamed
  <2>b. Entry!SubmitsShown'
    BY <1>0, <1>1, <2>1, <2>a DEF Entry!SubmitsShown
  <2>5. Entry!Waiting'
    BY <1>0, <2>b DEF Entry!Waiting
  <2>6. Entry!FilesNamed'
    BY <1>0, <2>1 DEF Entry!FilesNamed
  <2> QED BY <1>0, <1>2, <2>1, <2>4, <2>5, <2>6 DEF Entry!Inv, Entry!WholeInv
<1>4. CASE todo # {}
  <2>1. /\ s4' = [s4 EXCEPT !.atts = (@ \ todo) \cup {Entry!Att(a.id, "uploading") : a \in todo}]
        /\ s6' = {[job |-> j, remaining |-> {a.id : a \in todo}]} /\ s7' = {}
    BY <1>0, <1>4 DEF Entry!submit, j
  <2>2. /\ s4'.entry = s4.entry /\ s4'.desc = s4.desc /\ s4'.tag = s4.tag
        /\ s4'.atts = (s4.atts \ todo) \cup {Entry!Att(a.id, "uploading") : a \in todo}
    BY <1>0, <2>1 DEF Entry!FormShape
  <2>3. todo \subseteq s4.atts /\ \A a \in s4.atts : a \in todo \/ a.status = "ready"
    BY DEF Entry!ToUpload
  <2> HIDE DEF todo
  <2>4. \A b \in s4'.atts : \E a \in s4.atts : /\ b.id = a.id /\ b = Entry!Att(b.id, b.status)
                                               /\ a \in todo => b = Entry!Att(a.id, "uploading")
                                               /\ a \notin todo => b = a
    BY <1>0, <2>2, <2>3 DEF Entry!FilesNamed, Entry!Att
  <2>5. \A a \in s4.atts : \E b \in s4'.atts : b.id = a.id
    <3>1. ASSUME NEW a \in todo PROVE Entry!Att(a.id, "uploading") \in s4'.atts
                 /\ Entry!Att(a.id, "uploading").id = a.id
      BY <2>2 DEF Entry!Att
    <3>2. ASSUME NEW a \in s4.atts, a \notin todo PROVE a \in s4'.atts
      BY <2>2, <3>2
    <3> QED BY <3>1, <3>2
  <2>6. Entry!FilesNamed'
    BY <1>0, <2>2, <2>4 DEF Entry!FilesNamed
  <2>7. {a.id : a \in s4'.atts} = {a.id : a \in s4.atts}
    BY <2>4, <2>5
  <2>8. \A b \in s4'.atts : b.id \in {a.id : a \in todo} \/ b.status = "ready"
    BY <2>3, <2>4
  <2>a. \A u \in s6' : u.job = j /\ u.remaining = {a.id : a \in todo}
    BY <2>1
  <2>9. \A u \in s6' : Entry!UploadMeant(u)'
    BY <1>1, <2>a, <2>2, <2>7, <2>8 DEF Entry!UploadMeant, Entry!Meant
  <2>b. Entry!SubmitsShown'
    BY <1>0, <1>1, <2>1, <2>2, <2>a DEF Entry!SubmitsShown
  <2>10. Entry!Waiting'
    BY <1>0, <2>b DEF Entry!Waiting
  <2> QED BY <1>0, <1>2, <2>1, <2>6, <2>9, <2>10 DEF Entry!Inv, Entry!WholeInv
<1> QED BY <1>3, <1>4

(* A file that is up is ready; the last one sends all of the form.               *)
LEMMA StatusSet ==
    ASSUME Entry!FormShape, Entry!FilesNamed, NEW id, NEW st, s4' = Entry!SetStatus(s4, id, st), s5' = s5
    PROVE  /\ Entry!FilesNamed' /\ s4'.entry = s4.entry /\ s4'.desc = s4.desc /\ s4'.tag = s4.tag
           /\ {a.id : a \in s4'.atts} = {a.id : a \in s4.atts}
           /\ \A b \in s4'.atts : IF b.id = id THEN b.status = st ELSE b \in s4.atts
<1> DEFINE With(a) == IF a.id = id THEN Entry!Att(id, st) ELSE a
<1>1. /\ s4'.entry = s4.entry /\ s4'.desc = s4.desc /\ s4'.tag = s4.tag
      /\ s4'.atts = {With(a) : a \in s4.atts}
  BY DEF Entry!SetStatus, Entry!FormShape
<1>2. \A a \in s4.atts : With(a).id = a.id /\ With(a) = Entry!Att(With(a).id, With(a).status)
  BY DEF Entry!FilesNamed, Entry!Att
<1>3. \A a \in s4.atts : IF a.id = id THEN With(a).status = st ELSE With(a) = a
  BY DEF Entry!Att
<1>e. \A a, b \in s4.atts : a.id = b.id => With(a) = With(b)
  BY DEF Entry!FilesNamed
<1> HIDE DEF With
<1>4. Entry!FilesNamed'
  BY <1>1, <1>2, <1>e DEF Entry!FilesNamed
<1> QED BY <1>1, <1>2, <1>3, <1>4

(* The insert carries what the form held at submit, and the files that were uploaded. *)
LEMMA UploadWaits ==
    ASSUME Entry!Inv, Entry!OnceInv', NEW u \in s6, NEW id \in 1..EntryFiles, Entry!uploadDone(u, id)
           \/ Entry!uploadFails(u, id)
    PROVE  Entry!Inv'
<1>0. /\ Entry!FormShape /\ Entry!FilesNamed /\ s6 = {u} /\ s7 = {} /\ s3 /\ s1 /\ u.job.entry = s4.entry
      /\ Entry!UploadMeant(u) /\ Entry!UploadShape(u) /\ {s3, s1, s2} \subseteq BOOLEAN /\ ~s2
  BY DEF Entry!Inv, Entry!OnceInv, Entry!Shapes, Entry!OneSubmit, Entry!WholeInv, Entry!Waiting, Entry!SubmitsShown
<1>1. UNCHANGED <<s1, s2, s5, s8, s9, s10>>
  BY DEF Entry!uploadDone, Entry!uploadFails, Entry!serverVars
<1>2. (\A c \in s9 : Entry!CardMeant(c)') /\ Entry!BindsOfCards'
  BY <1>1 DEF Entry!Inv, Entry!WholeInv, Entry!CardMeant, Entry!Bound, Entry!BindsOfCards
<1>3. CASE Entry!uploadDone(u, id)
  <2>1. s4' = Entry!SetStatus(s4, id, "ready") /\ s3' = s3
    BY <1>0, <1>3 DEF Entry!uploadDone
  <2>2. /\ Entry!FilesNamed' /\ s4'.entry = s4.entry /\ Entry!Meant(u.job.meant, s4)'
        /\ \A b \in s4'.atts : b.id \in u.remaining \ {id} \/ b.status = "ready"
    BY <1>0, <1>1, <2>1, StatusSet DEF Entry!UploadMeant, Entry!Meant
  <2> DEFINE rest == [u EXCEPT !.remaining = @ \ {id}]
  <2>3. rest.job = u.job /\ rest.remaining = u.remaining \ {id}
    BY <1>0 DEF Entry!UploadShape
  <2>4. /\ rest.remaining = {} => /\ s6' = {}
                                  /\ s7' = {[job |-> u.job, desc |-> s4'.desc, tag |-> s4'.tag,
                                         files |-> Entry!Ready(s4')]}
        /\ rest.remaining # {} => s6' = {rest} /\ s7' = {}
    BY <1>0, <1>3, <2>3 DEF Entry!uploadDone, Entry!fireSubmit
  <2> HIDE DEF rest
  <2>5. CASE rest.remaining = {}
    <3>1. Entry!Ready(s4') = {a.id : a \in s4'.atts}
      BY <2>2, <2>3, <2>5 DEF Entry!Ready
    <3>2. Entry!Ready(s4') \subseteq Nat
      BY <2>2, <3>1 DEF Entry!FilesNamed
    <3>3. \A c \in s7' : c.job = u.job /\ c.desc = s4'.desc /\ c.tag = s4'.tag /\ c.files = Entry!Ready(s4')
      BY <2>4, <2>5
    <3>4. \A c \in s7' : Entry!InsertMeant(c)'
      BY <2>2, <3>1, <3>2, <3>3 DEF Entry!InsertMeant, Entry!Meant, Entry!FilesNamed
    <3>5. Entry!SubmitsShown'
      BY <1>0, <1>1, <2>1, <2>2, <2>4, <2>5, <3>3 DEF Entry!SubmitsShown
    <3>6. Entry!Waiting'
      BY <1>0, <1>1, <2>1, <3>5 DEF Entry!Waiting
    <3> QED BY <1>1, <1>2, <2>2, <2>4, <2>5, <3>4, <3>6 DEF Entry!Inv, Entry!WholeInv
  <2>6. CASE rest.remaining # {}
    <3>1. \A v \in s6' : Entry!UploadMeant(v)'
      BY <2>2, <2>3, <2>4, <2>6 DEF Entry!UploadMeant
    <3>2. Entry!SubmitsShown'
      BY <1>0, <1>1, <2>1, <2>2, <2>3, <2>4, <2>6 DEF Entry!SubmitsShown
    <3>3. Entry!Waiting'
      BY <1>0, <1>1, <2>1, <3>2 DEF Entry!Waiting
    <3> QED BY <1>1, <1>2, <2>2, <2>4, <2>6, <3>1, <3>3 DEF Entry!Inv, Entry!WholeInv
  <2> QED BY <2>5, <2>6
<1>4. CASE Entry!uploadFails(u, id)
  <2>1. s4' = Entry!SetStatus(s4, id, "error") /\ s3' = FALSE /\ s6' = {} /\ s7' = {}
    BY <1>0, <1>4 DEF Entry!uploadFails
  <2>2. Entry!FilesNamed'
    BY <1>0, <1>1, <2>1, StatusSet
  <2>3. Entry!Waiting'
    BY <1>0, <1>1, <2>1 DEF Entry!Waiting, Entry!SubmitsShown
  <2> QED BY <1>1, <1>2, <2>1, <2>2, <2>3 DEF Entry!Inv, Entry!WholeInv
<1> QED BY <1>3, <1>4

(* The new card lacks its tag and its files, and all of them are sent.               *)
LEMMA InsertWaits ==
    ASSUME None \notin Nat, Entry!Inv, Entry!OnceInv', NEW c \in s7, NEW ok \in BOOLEAN, Entry!landInsert(c, ok)
    PROVE  Entry!Inv'
<1>0. /\ Entry!FormShape /\ Entry!FilesNamed /\ s7 = {c} /\ s6 = {} /\ s3 /\ s1 /\ Entry!InsertMeant(c)
         /\ Entry!InsertShape(c)
      /\ s7' = {} /\ s6' = {} /\ s3' = FALSE /\ s5' = s5
      /\ {s3, s1, s2} \subseteq BOOLEAN /\ s10 \in Nat
      /\ (\A d \in s9 : Entry!CardMeant(d)) /\ Entry!BindsOfCards
  BY DEF Entry!landInsert, Entry!Inv, Entry!OnceInv, Entry!Shapes, Entry!OneSubmit, Entry!WholeInv, Entry!Waiting,
       Entry!SubmitsShown, Entry!BindsOfCards
<1>1. CASE ~ok
  <2>1. UNCHANGED <<s1, s2, s4, s8, s9, s10>>
    BY <1>1 DEF Entry!landInsert
  <2>2. Entry!Waiting' /\ Entry!FilesNamed'
    BY <1>0, <2>1 DEF Entry!Waiting, Entry!SubmitsShown, Entry!FilesNamed
  <2>3. (\A d \in s9' : Entry!CardMeant(d)') /\ Entry!BindsOfCards'
    BY <1>0, <2>1 DEF Entry!CardMeant, Entry!Bound, Entry!BindsOfCards
  <2> QED BY <1>0, <2>2, <2>3 DEF Entry!Inv, Entry!WholeInv
<1>2. CASE ok
  <2>c. PICK n : n = [id |-> s10 + 1, entry |-> c.job.entry, status |-> c.job.status, meant |-> c.job.meant,
                      desc |-> c.desc, tag |-> FALSE, files |-> {}]
    OBVIOUS
  <2> DEFINE sent == {[card |-> (s10 + 1), part |-> f] : f \in c.files}
             tags == {[card |-> (s10 + 1), part |-> None] : x \in {y \in {1} : c.tag}}
  <2>1. /\ s10' = s10 + 1 /\ s9' = s9 \cup {n} /\ s8' = s8 \cup sent \cup tags
        /\ s1' = (s1 /\ ~c.job.shut) /\ s2' = (s2 /\ ~c.job.shut) /\ s4' = Entry!NewForm(s4.entry + 1)
    BY <1>0, <1>2, <2>c DEF Entry!landInsert
  <2>2. Entry!FilesNamed'
    BY <1>0, <2>1, NewFormNamed DEF Entry!FilesNamed
  <2>3. Entry!Waiting'
    <3>1. Entry!SubmitsShown'
      BY <1>0 DEF Entry!SubmitsShown
    <3>2. s1' \in BOOLEAN /\ s2' \in BOOLEAN
      BY <2>1
    <3> QED BY <1>0, <3>1, <3>2 DEF Entry!Waiting
  <2>s. \A b \in sent : b.card = s10 + 1 /\ b.part \in c.files /\ b = [card |-> b.card, part |-> b.part]
    BY <2>1
  <2>t. \A b \in tags : b.card = s10 + 1 /\ b.part = None /\ c.tag /\ b = [card |-> b.card, part |-> b.part]
    BY <2>1
  <2>u. (\A f \in c.files : \E b \in sent : b.part = f) /\ (c.tag => \E b \in tags : b.part = None)
    <3>1. \A f \in c.files : [card |-> (s10 + 1), part |-> f] \in sent /\ [card |-> (s10 + 1), part |-> f].part = f
      OBVIOUS
    <3>2. c.tag => [card |-> (s10 + 1), part |-> None] \in tags /\ [card |-> (s10 + 1), part |-> None].part = None
      OBVIOUS
    <3> QED BY <3>1, <3>2
  <2>n. /\ n.id = s10 + 1 /\ n.meant = c.job.meant /\ n.desc = c.desc /\ n.tag = FALSE /\ n.files = {}
    BY <2>c
  <2> HIDE DEF sent, tags
  <2>4. Entry!BindsOfCards'
    <3>1. c.files \subseteq Nat
      BY <1>0 DEF Entry!InsertMeant
    <3>2. \A b \in s8 : b = [card |-> b.card, part |-> b.part] /\ b.card \in 1..s10 /\ b.part \in Nat \cup {None}
      BY <1>0 DEF Entry!BindsOfCards
    <3> QED BY <1>0, <2>1, <2>s, <2>t, <3>1, <3>2 DEF Entry!BindsOfCards
  <2>5. ASSUME NEW d \in s9 PROVE Entry!CardMeant(d)'
    <3>1. Entry!CardMeant(d) /\ d.id \in 1..s10
      BY <1>0 DEF Entry!CardMeant
    <3>2. Entry!Bound(d)' = Entry!Bound(d)
      BY <1>0, <2>1, <2>s, <2>t, <3>1 DEF Entry!Bound
    <3> QED BY <1>0, <2>1, <3>1, <3>2 DEF Entry!CardMeant
  <2>6. Entry!CardMeant(n)'
    <3>0. \A b \in s8 : b.card # s10 + 1
      BY <1>0 DEF Entry!BindsOfCards
    <3>1. Entry!Bound(n)' = sent \cup tags
      BY <2>1, <2>n, <2>s, <2>t, <3>0 DEF Entry!Bound
    <3>2. c.job.meant = [desc |-> c.desc, tag |-> c.tag, files |-> c.files] /\ c.tag \in BOOLEAN
          /\ c.files \subseteq Nat
      BY <1>0 DEF Entry!InsertMeant
    <3>3. c.job.meant.desc = c.desc /\ c.job.meant.tag = c.tag /\ c.job.meant.files = c.files
      BY <3>2
    <3>4. {b.part : b \in {d \in Entry!Bound(n)' : d.part # None}} = c.files
      BY <2>s, <2>t, <2>u, <3>1, <3>2
    <3>5. c.tag <=> \E b \in Entry!Bound(n)' : b.part = None
      BY <2>s, <2>t, <2>u, <3>1, <3>2
    <3>6. n.id \in 1..s10'
      BY <1>0, <2>1, <2>n
    <3> QED BY <2>n, <3>2, <3>3, <3>4, <3>5, <3>6 DEF Entry!CardMeant
  <2> QED BY <1>0, <2>1, <2>2, <2>3, <2>4, <2>5, <2>6 DEF Entry!Inv, Entry!WholeInv
<1> QED BY <1>1, <1>2

(* What is bound moves from the way to the card.                                      *)
LEMMA BindWaits ==
    ASSUME None \notin Nat, Entry!Inv, Entry!OnceInv', NEW b \in s8, NEW ok \in BOOLEAN, Entry!landBind(b, ok)
    PROVE  Entry!Inv'
<1> DEFINE With(c) == IF c.id # b.card THEN c ELSE IF b.part = None THEN [c EXCEPT !.tag = TRUE]
                      ELSE [c EXCEPT !.files = @ \cup {b.part}]
<1>1. /\ UNCHANGED <<s1, s2, s3, s4, s5, s6, s7, s10>>
      /\ s9' = {With(c) : c \in s9} /\ s8' = s8 \ {b}
      /\ (\A c \in s9 : Entry!CardShape(c) /\ Entry!CardMeant(c)) /\ Entry!BindsOfCards
  BY DEF Entry!landBind, Entry!Inv, Entry!OnceInv, Entry!Shapes, Entry!WholeInv
<1>2. Entry!Waiting' /\ Entry!FilesNamed' /\ Entry!BindsOfCards'
  BY <1>1 DEF Entry!Inv, Entry!WholeInv, Entry!Waiting, Entry!SubmitsShown, Entry!FilesNamed, Entry!BindsOfCards
<1>3. (\A u \in s6' : Entry!UploadMeant(u)') /\ \A c \in s7' : Entry!InsertMeant(c)'
  BY <1>1 DEF Entry!Inv, Entry!WholeInv, Entry!UploadMeant, Entry!Meant, Entry!InsertMeant
<1>4. ASSUME NEW c \in s9 PROVE Entry!CardMeant(With(c))'
  <2>0. Entry!CardMeant(c) /\ Entry!CardShape(c) /\ b.part \in Nat \cup {None}
    BY <1>1 DEF Entry!BindsOfCards
  <2>1. CASE c.id # b.card
    <3>1. With(c) = c /\ Entry!Bound(c)' = Entry!Bound(c)
      BY <1>1, <2>1 DEF Entry!Bound
    <3>2. Entry!CardMeant(c)'
      BY <1>1, <2>0, <3>1 DEF Entry!CardMeant
    <3> QED BY <3>1, <3>2
  <2>2. CASE c.id = b.card /\ b.part = None
    <3>1. /\ With(c).id = c.id /\ With(c).meant = c.meant /\ With(c).desc = c.desc /\ With(c).files = c.files
          /\ With(c).tag = TRUE
      BY <2>0, <2>2 DEF Entry!CardShape
    <3>2. c.meant.tag
      BY <2>0, <2>2 DEF Entry!CardMeant, Entry!Bound
    <3>3. {d \in Entry!Bound(With(c))' : d.part # None} = {d \in Entry!Bound(c) : d.part # None}
      BY <1>1, <2>2, <3>1 DEF Entry!Bound
    <3> QED BY <1>1, <2>0, <3>1, <3>2, <3>3 DEF Entry!CardMeant
  <2>3. CASE c.id = b.card /\ b.part # None
    <3>1. /\ With(c).id = c.id /\ With(c).meant = c.meant /\ With(c).desc = c.desc /\ With(c).tag = c.tag
          /\ With(c).files = c.files \cup {b.part}
      BY <2>0, <2>3 DEF Entry!CardShape
    <3>2. Entry!Bound(With(c))' = Entry!Bound(c) \ {b} /\ b \in Entry!Bound(c)
      BY <1>1, <2>3, <3>1 DEF Entry!Bound
    <3> HIDE DEF With
    <3>3. (\E d \in Entry!Bound(With(c))' : d.part = None) <=> \E d \in Entry!Bound(c) : d.part = None
      BY <2>3, <3>2
    <3>4. With(c).files \cup {d.part : d \in {e \in Entry!Bound(With(c))' : e.part # None}}
              = c.files \cup {d.part : d \in {e \in Entry!Bound(c) : e.part # None}}
      BY <2>3, <3>1, <3>2
    <3>5. With(c).files \subseteq Nat
      BY <2>0, <2>3, <3>1 DEF Entry!CardMeant
    <3> QED BY <1>1, <2>0, <3>1, <3>3, <3>4, <3>5 DEF Entry!CardMeant
  <2> QED BY <2>1, <2>2, <2>3
<1> QED BY <1>1, <1>2, <1>3, <1>4 DEF Entry!Inv, Entry!WholeInv

(* A card deleted by an undo is not one that is shown as made.                     *)
LEMMA UndoWaits == ASSUME Entry!Inv, Entry!OnceInv', Entry!undo PROVE Entry!Inv'
<1>1. UNCHANGED <<s1, s2, s3, s4, s5, s6, s7, s8, s10>> /\ s9' \subseteq s9
  BY DEF Entry!undo, Entry!screenVars, Entry!callVars
<1>2. Entry!Waiting' /\ Entry!FilesNamed' /\ Entry!BindsOfCards'
  BY <1>1 DEF Entry!Inv, Entry!WholeInv, Entry!Waiting, Entry!SubmitsShown, Entry!FilesNamed, Entry!BindsOfCards
<1>3. (\A u \in s6' : Entry!UploadMeant(u)') /\ (\A c \in s7' : Entry!InsertMeant(c)')
      /\ \A c \in s9 : Entry!CardMeant(c)'
  BY <1>1 DEF Entry!Inv, Entry!WholeInv, Entry!UploadMeant, Entry!Meant, Entry!InsertMeant, Entry!CardMeant,
       Entry!Bound
<1> QED BY <1>1, <1>2, <1>3 DEF Entry!Inv, Entry!WholeInv

(* Every step of the form keeps Inv.                                               *)
LEMMA EntryStep == ASSUME Entry!Inv, [Entry!Next]_(Entry!vars) PROVE Entry!Inv'
<1>0. Entry!OnceInv'
  BY OnceStep DEF Entry!Inv
<1>1. CASE Entry!Next
  <2>1. CASE \E shut \in BOOLEAN : Entry!submit(shut)
    BY <1>0, <2>1, SubmitWaits
  <2>2. CASE \E u \in s6, id \in 1..EntryFiles : Entry!uploadDone(u, id) \/ Entry!uploadFails(u, id)
    BY <1>0, <2>2, UploadWaits
  <2>3. CASE \E c \in s7, ok \in BOOLEAN : Entry!landInsert(c, ok)
    BY <1>0, <2>3, InsertWaits, NoneAssumption
  <2>4. CASE \E b \in s8, ok \in BOOLEAN : Entry!landBind(b, ok)
    BY <1>0, <2>4, BindWaits, NoneAssumption
  <2> QED BY <1>0, <1>1, <2>1, <2>2, <2>3, <2>4, ScreenWaits, UndoWaits DEF Entry!Next
<1>2. CASE UNCHANGED Entry!vars
  <2>1. UNCHANGED <<s1, s2, s3, s4, s5, s6, s7, s8, s9, s10>>
    BY <1>2 DEF Entry!vars
  <2>2. Entry!FilesNamed' /\ {s1', s2'} \subseteq BOOLEAN /\ (s3 => s2' = FALSE)
    BY <2>1 DEF Entry!Inv, Entry!WholeInv, Entry!FilesNamed, Entry!Waiting
  <2> QED BY <1>0, <2>1, <2>2, Untouched
<1> QED BY <1>1, <1>2

(* Inv holds the form's conjuncts of MadeWhole.                                    *)
LEMMA EntryWhole == Entry!Inv => Entry!CreatedWhole /\ Entry!CreatedOnce /\ Entry!SubmitsShown
<1>1. ASSUME Entry!Inv, NEW c \in s9, \A b \in s8 : b.card # c.id
      PROVE  [desc |-> c.desc, tag |-> c.tag, files |-> c.files] = c.meant
  <2>1. Entry!CardMeant(c) /\ Entry!Bound(c) = {}
    BY <1>1 DEF Entry!Inv, Entry!WholeInv, Entry!Bound
  <2>2. c.files = c.meant.files /\ c.tag = c.meant.tag
    BY <2>1 DEF Entry!CardMeant
  <2> QED BY <2>1, <2>2 DEF Entry!CardMeant
<1> QED BY <1>1 DEF Entry!Inv, Entry!OnceInv, Entry!Waiting, Entry!CreatedWhole

-----------------------------------------------------------------------------
(* The same of a user who does not wait: a card is made once of a form.                *)
(* Here s1 is opened, s3 is submitting, s4 is form, s6 is uploads, s7 is inserts, s8 *)
(* is binds, s9 is cards, s10 is made.                                               *)

(* The hasty form opens with no card made and no file in hand.                     *)
LEMMA HastyOnceBegins == HastyEntry!Init => HastyEntry!OnceInv
  BY DEF HastyEntry!Init, HastyEntry!OnceInv, HastyEntry!Shapes, HastyEntry!FormShape, HastyEntry!NewForm,
       HastyEntry!OneSubmit, HastyEntry!FormsInOrder, HastyEntry!CreatedOnce

(* What leaves the calls and the cards alone may only replace the form by a later one. *)
LEMMA HastyFormEdited ==
    ASSUME HastyEntry!OnceInv, UNCHANGED <<s3, s6, s7, s9>>, HastyEntry!FormShape',
           \/ s4'.entry > s4.entry
           \/ s4'.entry = s4.entry /\ s1' = s1
    PROVE  HastyEntry!OnceInv'
<1>1. HastyEntry!Shapes' /\ HastyEntry!OneSubmit' /\ HastyEntry!CreatedOnce'
  BY DEF HastyEntry!OnceInv, HastyEntry!Shapes, HastyEntry!FormShape, HastyEntry!OneSubmit, HastyEntry!CreatedOnce,
       HastyEntry!UploadShape, HastyEntry!InsertShape, HastyEntry!CardShape, HastyEntry!JobShape
<1>2. /\ s4.entry \in Nat /\ s4'.entry \in Nat /\ \A c \in s9 : c.entry \in Nat /\ c.entry < s4.entry
      /\ \A u \in s6 : u.job.entry \in Nat /\ HastyEntry!Newer(u.job)
      /\ \A c \in s7 : c.job.entry \in Nat /\ HastyEntry!Newer(c.job)
  BY DEF HastyEntry!OnceInv, HastyEntry!Shapes, HastyEntry!FormShape, HastyEntry!FormsInOrder,
       HastyEntry!UploadShape, HastyEntry!InsertShape, HastyEntry!CardShape, HastyEntry!JobShape
<1>3. HastyEntry!FormsInOrder'
  BY <1>2 DEF HastyEntry!FormsInOrder, HastyEntry!Newer
<1> QED BY <1>1, <1>3 DEF HastyEntry!OnceInv

(* What the user does to the hasty form makes no card.                             *)
LEMMA HastyScreenStep ==
    ASSUME HastyEntry!OnceInv,
           \/ HastyEntry!open \/ HastyEntry!requestDismiss \/ HastyEntry!type \/ HastyEntry!pick
              \/ HastyEntry!queueFiles
           \/ \E d \in BOOLEAN : HastyEntry!answerDismiss(d)
           \/ \E a \in s4.atts : HastyEntry!removeAttachment(a)
    PROVE  HastyEntry!OnceInv'
<1>0. HastyEntry!FormShape
  BY DEF HastyEntry!OnceInv, HastyEntry!Shapes
<1>n. HastyEntry!NewForm(s4.entry + 1).entry > s4.entry
      /\ (s4' = HastyEntry!NewForm(s4.entry + 1) => HastyEntry!FormShape')
  BY <1>0 DEF HastyEntry!NewForm, HastyEntry!FormShape
<1>1. CASE HastyEntry!open
  <2>1. UNCHANGED <<s3, s6, s7, s9>> /\ s4' = HastyEntry!NewForm(s4.entry + 1)
    BY <1>1 DEF HastyEntry!open, HastyEntry!callVars, HastyEntry!serverVars
  <2> QED BY <1>n, <2>1, HastyFormEdited
<1>2. CASE HastyEntry!requestDismiss
  <2>1. /\ UNCHANGED <<s3, s6, s7, s9>>
        /\ s4' = HastyEntry!NewForm(s4.entry + 1) \/ UNCHANGED <<s1, s4>>
    BY <1>2 DEF HastyEntry!requestDismiss, HastyEntry!close, HastyEntry!callVars, HastyEntry!serverVars
  <2> QED BY <1>0, <1>n, <2>1, HastyFormEdited DEF HastyEntry!FormShape
<1>3. CASE HastyEntry!type
  BY <1>0, <1>3, HastyFormEdited DEF HastyEntry!type, HastyEntry!FormShape, HastyEntry!callVars,
     HastyEntry!serverVars
<1>4. CASE HastyEntry!pick
  BY <1>0, <1>4, HastyFormEdited DEF HastyEntry!pick, HastyEntry!FormShape, HastyEntry!callVars,
     HastyEntry!serverVars
<1>5. CASE HastyEntry!queueFiles
  BY <1>0, <1>5, HastyFormEdited DEF HastyEntry!queueFiles, HastyEntry!FormShape, HastyEntry!callVars,
       HastyEntry!serverVars
<1>6. CASE \E d \in BOOLEAN : HastyEntry!answerDismiss(d)
  <2>1. /\ UNCHANGED <<s3, s6, s7, s9>>
        /\ s4' = HastyEntry!NewForm(s4.entry + 1) \/ UNCHANGED <<s1, s4>>
    BY <1>6 DEF HastyEntry!answerDismiss, HastyEntry!close, HastyEntry!callVars, HastyEntry!serverVars
  <2> QED BY <1>0, <1>n, <2>1, HastyFormEdited DEF HastyEntry!FormShape
<1>7. CASE \E a \in s4.atts : HastyEntry!removeAttachment(a)
  BY <1>0, <1>7, HastyFormEdited DEF HastyEntry!removeAttachment, HastyEntry!FormShape, HastyEntry!callVars,
       HastyEntry!serverVars
<1> QED BY <1>1, <1>2, <1>3, <1>4, <1>5, <1>6, <1>7

(* One submit begins: of the form that is shown, which no card is of.           *)
LEMMA HastySubmitStep ==
    ASSUME HastyEntry!OnceInv, NEW shut \in BOOLEAN, HastyEntry!submit(shut)
    PROVE  HastyEntry!OnceInv'
<1>0. /\ HastyEntry!FormShape /\ s6 = {} /\ s7 = {} /\ s1 /\ s1' /\ s3' /\ s9' = s9
      /\ \A c \in s9 : HastyEntry!CardShape(c) /\ c.entry < s4.entry
  BY DEF HastyEntry!submit, HastyEntry!OnceInv, HastyEntry!Shapes, HastyEntry!OneSubmit, HastyEntry!FormsInOrder,
       HastyEntry!serverVars
<1> DEFINE j == HastyEntry!Job(s4, shut)
<1>1. HastyEntry!JobShape(j) /\ j.entry = s4.entry
  BY <1>0 DEF HastyEntry!Job, HastyEntry!JobShape, HastyEntry!FormShape
<1>2. /\ HastyEntry!FormShape' /\ s4'.entry = s4.entry
      /\ \/ s6' = {} /\ \E f : s7' = {[job |-> j, desc |-> f.desc, tag |-> f.tag, files |-> HastyEntry!Ready(f)]}
         \/ s7' = {} /\ \E r : s6' = {[job |-> j, remaining |-> r]}
  BY <1>0 DEF HastyEntry!submit, HastyEntry!fireSubmit, HastyEntry!FormShape
<1> HIDE DEF j
<1>3. HastyEntry!Shapes'
  BY <1>0, <1>1, <1>2 DEF HastyEntry!Shapes, HastyEntry!UploadShape, HastyEntry!InsertShape, HastyEntry!CardShape
<1>4. HastyEntry!OneSubmit'
  BY <1>0, <1>2 DEF HastyEntry!OneSubmit
<1>5. HastyEntry!FormsInOrder'
  BY <1>0, <1>1, <1>2 DEF HastyEntry!FormsInOrder, HastyEntry!Newer, HastyEntry!FormShape
<1> QED BY <1>0, <1>3, <1>4, <1>5 DEF HastyEntry!OnceInv, HastyEntry!CreatedOnce

(* Uploads end, or the last one sends the insert of its own submit.             *)
LEMMA HastyUploadStep ==
    ASSUME HastyEntry!OnceInv, NEW u \in s6, UNCHANGED <<s1, s9>>, HastyEntry!FormShape', s4'.entry = s4.entry,
           \/ s6' = s6 \ {u} /\ s7' = s7
           \/ /\ s6' = s6 \ {u} /\ s3' = s3
              /\ \E f : s7' = s7
                 \cup {[job |-> u.job, desc |-> f.desc, tag |-> f.tag, files |-> HastyEntry!Ready(f)]}
           \/ /\ \E r : s6' = (s6 \ {u}) \cup {[u EXCEPT !.remaining = r]}
              /\ s7' = s7 /\ s3' = s3
    PROVE  HastyEntry!OnceInv'
<1>0. s6 = {u} /\ s7 = {} /\ s3 /\ HastyEntry!UploadShape(u) /\ HastyEntry!Newer(u.job)
  BY DEF HastyEntry!OnceInv, HastyEntry!OneSubmit, HastyEntry!Shapes, HastyEntry!FormsInOrder
<1>1. \/ s6' = {} /\ s7' = {}
      \/ s6' = {} /\ s3'
         /\ \E f : s7' = {[job |-> u.job, desc |-> f.desc, tag |-> f.tag, files |-> HastyEntry!Ready(f)]}
      \/ (\E r : s6' = {[job |-> u.job, remaining |-> r]}) /\ s7' = {} /\ s3'
  <2>1. \A r : [u EXCEPT !.remaining = r] = [job |-> u.job, remaining |-> r]
    BY <1>0 DEF HastyEntry!UploadShape
  <2> QED BY <1>0, <2>1
<1>2. HastyEntry!Shapes'
  BY <1>0, <1>1 DEF HastyEntry!OnceInv, HastyEntry!Shapes, HastyEntry!UploadShape, HastyEntry!InsertShape,
       HastyEntry!CardShape, HastyEntry!JobShape
<1>3. HastyEntry!OneSubmit'
  BY <1>1 DEF HastyEntry!OneSubmit
<1>4. HastyEntry!FormsInOrder'
  BY <1>0, <1>1 DEF HastyEntry!OnceInv, HastyEntry!FormsInOrder, HastyEntry!Newer
<1> QED BY <1>2, <1>3, <1>4 DEF HastyEntry!OnceInv, HastyEntry!CreatedOnce

(* A batch of the hasty form's uploads sends the one insert, or gives the form back. *)
LEMMA HastyUploadAnswers ==
    ASSUME HastyEntry!OnceInv, NEW u \in s6, NEW id \in 1..HastyFiles, HastyEntry!uploadDone(u, id)
           \/ HastyEntry!uploadFails(u, id)
    PROVE  HastyEntry!OnceInv'
<1>0. HastyEntry!FormShape /\ HastyEntry!UploadShape(u)
  BY DEF HastyEntry!OnceInv, HastyEntry!Shapes
<1>1. CASE HastyEntry!uploadDone(u, id)
  <2>1. HastyEntry!FormShape' /\ s4'.entry = s4.entry
    BY <1>0, <1>1 DEF HastyEntry!uploadDone, HastyEntry!FormShape, HastyEntry!SetStatus
  <2>2. CASE ~s1
    BY <1>1, <2>1, <2>2, HastyUploadStep DEF HastyEntry!uploadDone, HastyEntry!serverVars
  <2>3. CASE s1
    <3>1. u.job = [u EXCEPT !.remaining = @ \ {id}].job
      BY <1>0 DEF HastyEntry!UploadShape
    <3>2. \/ /\ s6' = s6 \ {u} /\ s3' = s3
             /\ s7' = s7 \cup {[job |-> u.job, desc |-> s4'.desc, tag |-> s4'.tag, files |-> HastyEntry!Ready(s4')]}
          \/ /\ s6' = (s6 \ {u}) \cup {[u EXCEPT !.remaining = u.remaining \ {id}]}
             /\ s7' = s7 /\ s3' = s3
      BY <1>1, <2>3, <3>1 DEF HastyEntry!uploadDone, HastyEntry!fireSubmit
    <3> QED BY <1>1, <2>1, <3>2, HastyUploadStep DEF HastyEntry!uploadDone, HastyEntry!serverVars
  <2> QED BY <2>2, <2>3
<1>2. CASE HastyEntry!uploadFails(u, id)
  <2>1. HastyEntry!FormShape' /\ s4'.entry = s4.entry
    BY <1>0, <1>2 DEF HastyEntry!uploadFails, HastyEntry!FormShape, HastyEntry!SetStatus
  <2> QED BY <1>2, <2>1, HastyUploadStep DEF HastyEntry!uploadFails, HastyEntry!serverVars
<1> QED BY <1>1, <1>2

(* The card of an insert is the only one of its form, and older ones are of earlier ones. *)
LEMMA HastyInsertStep ==
    ASSUME HastyEntry!OnceInv, NEW c \in s7, NEW ok \in BOOLEAN, HastyEntry!landInsert(c, ok)
    PROVE  HastyEntry!OnceInv'
<1>0. /\ s7 = {c} /\ s6 = {} /\ s7' = {} /\ s6' = {} /\ HastyEntry!FormShape /\ HastyEntry!InsertShape(c)
         /\ HastyEntry!Newer(c.job)
      /\ \A d \in s9 : HastyEntry!CardShape(d) /\ d.entry < s4.entry
  BY DEF HastyEntry!landInsert, HastyEntry!OnceInv, HastyEntry!OneSubmit, HastyEntry!Shapes, HastyEntry!FormsInOrder
<1>1. CASE ok
  <2> DEFINE n == [id |-> s10', entry |-> c.job.entry, status |-> c.job.status, meant |-> c.job.meant,
                   desc |-> c.desc, tag |-> FALSE, files |-> {}]
  <2>1. s9' = s9 \cup {n} /\ HastyEntry!CardShape(n) /\ n.entry = c.job.entry
    BY <1>0, <1>1 DEF HastyEntry!landInsert, HastyEntry!CardShape, HastyEntry!InsertShape, HastyEntry!JobShape
  <2> HIDE DEF n
  <2>2. HastyEntry!FormShape' /\ s4'.entry >= s4.entry /\ c.job.entry < s4'.entry
    BY <1>0, <1>1 DEF HastyEntry!landInsert, HastyEntry!FormShape, HastyEntry!NewForm, HastyEntry!Newer,
         HastyEntry!InsertShape, HastyEntry!JobShape
  <2>3. HastyEntry!Shapes'
    BY <1>0, <2>1, <2>2 DEF HastyEntry!Shapes, HastyEntry!CardShape
  <2>4. HastyEntry!OneSubmit'
    BY <1>0 DEF HastyEntry!OneSubmit
  <2>5. HastyEntry!FormsInOrder'
    BY <1>0, <2>1, <2>2 DEF HastyEntry!FormsInOrder, HastyEntry!FormShape, HastyEntry!CardShape
  <2>6. HastyEntry!CreatedOnce'
    BY <1>0, <2>1 DEF HastyEntry!OnceInv, HastyEntry!CreatedOnce, HastyEntry!Newer, HastyEntry!CardShape,
         HastyEntry!InsertShape, HastyEntry!JobShape
  <2> QED BY <2>3, <2>4, <2>5, <2>6 DEF HastyEntry!OnceInv
<1>2. CASE ~ok
  <2>1. UNCHANGED <<s1, s4, s9>>
    BY <1>2 DEF HastyEntry!landInsert
  <2>2. HastyEntry!Shapes' /\ HastyEntry!OneSubmit'
    BY <1>0, <2>1 DEF HastyEntry!OnceInv, HastyEntry!Shapes, HastyEntry!OneSubmit, HastyEntry!FormShape,
         HastyEntry!CardShape
  <2>3. HastyEntry!FormsInOrder' /\ HastyEntry!CreatedOnce'
    BY <1>0, <2>1 DEF HastyEntry!OnceInv, HastyEntry!FormsInOrder, HastyEntry!CreatedOnce
  <2> QED BY <2>2, <2>3 DEF HastyEntry!OnceInv
<1> QED BY <1>1, <1>2

(* An entry of the hasty form's list of cards is changed in place.                 *)
LEMMA HastyCardEdited ==
    ASSUME NEW c, HastyEntry!CardShape(c), NEW t, NEW f
    PROVE  /\ HastyEntry!CardShape([c EXCEPT !.tag = t]) /\ [c EXCEPT !.tag = t].entry = c.entry
           /\ HastyEntry!CardShape([c EXCEPT !.files = f]) /\ [c EXCEPT !.files = f].entry = c.entry
  BY DEF HastyEntry!CardShape

(* A bind ends on the card the hasty form's insert made.                           *)
LEMMA HastyBindStep ==
    ASSUME HastyEntry!OnceInv, NEW b \in s8, NEW ok \in BOOLEAN, HastyEntry!landBind(b, ok)
    PROVE  HastyEntry!OnceInv'
<1> DEFINE With(c) == IF c.id # b.card THEN c ELSE IF b.part = None THEN [c EXCEPT !.tag = TRUE]
                      ELSE [c EXCEPT !.files = @ \cup {b.part}]
<1>1. /\ UNCHANGED <<s1, s3, s4, s6, s7>> /\ s9' = {With(c) : c \in s9}
      /\ \A c \in s9 : HastyEntry!CardShape(c)
  BY DEF HastyEntry!landBind, HastyEntry!OnceInv, HastyEntry!Shapes
<1>2. ASSUME NEW c \in s9 PROVE HastyEntry!CardShape(With(c)) /\ With(c).entry = c.entry
  <2>1. CASE c.id # b.card
    BY <1>1, <2>1
  <2>2. CASE c.id = b.card /\ b.part = None
    BY <1>1, <2>2, HastyCardEdited
  <2>3. CASE c.id = b.card /\ b.part # None
    BY <1>1, <2>3, HastyCardEdited
  <2> QED BY <2>1, <2>2, <2>3
<1> HIDE DEF With
<1>3. HastyEntry!Shapes'
  BY <1>1, <1>2 DEF HastyEntry!OnceInv, HastyEntry!Shapes, HastyEntry!FormShape, HastyEntry!UploadShape,
       HastyEntry!InsertShape, HastyEntry!JobShape, HastyEntry!CardShape
<1>4. HastyEntry!OneSubmit'
  BY <1>1 DEF HastyEntry!OnceInv, HastyEntry!OneSubmit
<1>5. HastyEntry!FormsInOrder'
  BY <1>1, <1>2 DEF HastyEntry!OnceInv, HastyEntry!FormsInOrder, HastyEntry!Newer
<1>6. HastyEntry!CreatedOnce'
  BY <1>1, <1>2 DEF HastyEntry!OnceInv, HastyEntry!CreatedOnce
<1> QED BY <1>3, <1>4, <1>5, <1>6 DEF HastyEntry!OnceInv

(* An undo in the hasty form deletes the card that was made and keeps its job.     *)
LEMMA HastyUndoStep == ASSUME HastyEntry!OnceInv, HastyEntry!undo PROVE HastyEntry!OnceInv'
<1>1. UNCHANGED <<s1, s3, s4, s6, s7>> /\ s9' \subseteq s9
  BY DEF HastyEntry!undo, HastyEntry!screenVars, HastyEntry!callVars
<1>2. HastyEntry!Shapes' /\ HastyEntry!OneSubmit'
  BY <1>1 DEF HastyEntry!OnceInv, HastyEntry!Shapes, HastyEntry!OneSubmit, HastyEntry!FormShape,
       HastyEntry!UploadShape, HastyEntry!InsertShape, HastyEntry!JobShape, HastyEntry!CardShape
<1>3. HastyEntry!FormsInOrder' /\ HastyEntry!CreatedOnce'
  BY <1>1 DEF HastyEntry!OnceInv, HastyEntry!FormsInOrder, HastyEntry!CreatedOnce, HastyEntry!Newer
<1> QED BY <1>2, <1>3 DEF HastyEntry!OnceInv

(* No step of the hasty form makes a second card of one submission.                *)
LEMMA HastyOnceStep ==
    ASSUME HastyEntry!OnceInv, [HastyEntry!Next]_(HastyEntry!vars)
    PROVE  HastyEntry!OnceInv'
<1>1. CASE HastyEntry!Next
  <2>1. CASE \E shut \in BOOLEAN : HastyEntry!submit(shut)
    BY <2>1, HastySubmitStep
  <2>2. CASE \E u \in s6, id \in 1..HastyFiles : HastyEntry!uploadDone(u, id) \/ HastyEntry!uploadFails(u, id)
    BY <2>2, HastyUploadAnswers
  <2>3. CASE \E c \in s7, ok \in BOOLEAN : HastyEntry!landInsert(c, ok)
    BY <2>3, HastyInsertStep
  <2>4. CASE \E b \in s8, ok \in BOOLEAN : HastyEntry!landBind(b, ok)
    BY <2>4, HastyBindStep
  <2> QED BY <1>1, <2>1, <2>2, <2>3, <2>4, HastyScreenStep, HastyUndoStep DEF HastyEntry!Next
<1>2. CASE UNCHANGED HastyEntry!vars
  <2>1. UNCHANGED <<s1, s3, s4, s6, s7, s9>>
    BY <1>2 DEF HastyEntry!vars
  <2> QED BY <2>1, HastyFormEdited DEF HastyEntry!OnceInv, HastyEntry!Shapes, HastyEntry!FormShape
<1> QED BY <1>1, <1>2

(* ----- A user who waits. ----- *)

-----------------------------------------------------------------------------
(* The upload's pipeline and the import wizard (task-detail/upload.ts,                 *)
(* import/import-wizard.ts): a chunk that is missing is in a worker's hand, and what    *)
(* the preview shows is what the commit would do.                                      *)
(* Here s1 is panel, s2 is phase, s3 is claimed, s4 is posting, s7 is missing, s9 is *)
(* held, s10 is made, s11 is fault, s12 is wiz, s13 is calls, s14 is asked, s15 is   *)
(* jobs, s16 is imports.                                                             *)

(* No chunk is claimed before a file is picked.                                    *)
LEMMA PipelineBegins == Transfer!Init => Transfer!FileInv
  BY DEF Transfer!Init, Transfer!FileInv

(* A chunk claimed is posted at once, whichever the workers claim.                *)
LEMMA PipelineStep ==
    ASSUME Transfer!FileInv,
           \/ Transfer!preflight \/ Transfer!refuse \/ Transfer!landPreflight \/ Transfer!landFile
              \/ Transfer!landAttachment \/ Transfer!leave
           \/ \E i \in Transfer!Chunks : Transfer!landPost(i) \/ Transfer!failPost(i) \/ Transfer!reap(Chunked[i])
    PROVE  Transfer!FileInv'
<1>1. CASE Transfer!preflight
  BY <1>1 DEF Transfer!preflight, Transfer!FileInv
<1>2. CASE Transfer!refuse
  BY <1>2 DEF Transfer!refuse, Transfer!reject, Transfer!FileInv, Transfer!Ended
<1>3. CASE Transfer!landPreflight
  <2>1. /\ s2 = "preflight" /\ s3 = {} /\ s4 = {} /\ s7' = Transfer!Addresses \ s9 /\ s4' = s3'
        /\ s9' = s9 /\ s11' = s11
        /\ s2' = IF s4' = {} /\ Transfer!missingIdx' \subseteq s3' THEN "saving" ELSE "uploading"
    BY <1>3 DEF Transfer!landPreflight, Transfer!FileInv, Transfer!saveWhenPosted
  <2>2. Transfer!ChunksInHand'
    BY <2>1 DEF Transfer!ChunksInHand, Transfer!missingIdx, Transfer!Chunks, Transfer!Addresses
  <2>3. s2' = "saving" => (Transfer!Addresses \subseteq s9)'
    BY <2>1, <2>2 DEF Transfer!ChunksInHand, Transfer!missingIdx, Transfer!Chunks, Transfer!Addresses
  <2> QED BY <2>1, <2>2, <2>3 DEF Transfer!FileInv
<1>4. CASE Transfer!landFile
  BY <1>4 DEF Transfer!landFile, Transfer!reject, Transfer!FileInv
<1>5. CASE Transfer!landAttachment
  BY <1>5 DEF Transfer!landAttachment, Transfer!FileInv
<1>6. CASE Transfer!leave
  BY <1>6 DEF Transfer!leave, Transfer!FileInv, Transfer!ChunksInHand, Transfer!missingIdx, Transfer!Chunks
<1>7. ASSUME NEW i \in Transfer!Chunks, Transfer!landPost(i) PROVE Transfer!FileInv'
  <2>1. /\ i \in s4 /\ s2 \in {"uploading", "failed"} /\ s9' = s9 \cup {Chunked[i]}
        /\ UNCHANGED <<s7, s10, s11>> /\ (s2 = "failed" => s11)
        /\ s4' = (s4 \ {i}) \cup Transfer!claim(1) /\ s3' = s3 \cup Transfer!claim(1)
        /\ IF s2 = "failed" THEN s2' = s2
           ELSE s2' = IF s4' = {} /\ Transfer!missingIdx' \subseteq s3' THEN "saving" ELSE "uploading"
    BY <1>7 DEF Transfer!landPost, Transfer!FileInv, Transfer!saveWhenPosted
  <2> DEFINE new == Transfer!claim(1)
  <2>2. s4' = (s4 \ {i}) \cup new /\ s3' = s3 \cup new /\ Transfer!missingIdx' = Transfer!missingIdx
    BY <2>1 DEF Transfer!missingIdx, Transfer!Chunks
  <2> HIDE DEF new
  <2>3. ~s11 => Transfer!ChunksInHand'
    <3>1. ~s11 => Transfer!ChunksInHand
      BY <2>1 DEF Transfer!FileInv
    <3> QED BY <2>1, <2>2, <3>1 DEF Transfer!ChunksInHand, Transfer!Chunks
  <2>4. ~s11 /\ s2' = "saving" => (Transfer!Addresses \subseteq s9)'
    BY <2>1, <2>3 DEF Transfer!ChunksInHand, Transfer!Chunks, Transfer!Addresses
  <2> QED BY <2>1, <2>3, <2>4 DEF Transfer!FileInv
<1>8. ASSUME NEW i \in Transfer!Chunks, Transfer!failPost(i) PROVE Transfer!FileInv'
  BY <1>8 DEF Transfer!failPost, Transfer!reject, Transfer!FileInv
<1>9. ASSUME NEW i \in Transfer!Chunks, Transfer!reap(Chunked[i]) PROVE Transfer!FileInv'
  BY <1>9 DEF Transfer!reap, Transfer!FileInv
<1> QED BY <1>1, <1>2, <1>3, <1>4, <1>5, <1>6, <1>7, <1>8, <1>9

(* What the wizard does leaves the pipeline alone.                                 *)
LEMMA PipelineStill == Transfer!FileInv /\ UNCHANGED Transfer!fileVars => Transfer!FileInv'
  BY DEF Transfer!FileInv, Transfer!fileVars, Transfer!ChunksInHand, Transfer!missingIdx, Transfer!Chunks

(* Every step of the pipeline keeps FileInv.                                       *)
LEMMA PipelineNext == ASSUME Transfer!FileInv, [Transfer!Next]_(Transfer!vars) PROVE Transfer!FileInv'
<1>1. CASE Transfer!Next
  <2>1. CASE s1 = "file"
    BY <1>1, <2>1, PipelineStep, PipelineStill
       DEF Transfer!Next, Transfer!Wizard, Transfer!Local, Transfer!Menu, Transfer!open, Transfer!close,
            Transfer!pickFile, Transfer!onBack, Transfer!mapColumn, Transfer!setResolution, Transfer!runUpload,
            Transfer!runSetMapping,
           Transfer!runCommit, Transfer!serve, Transfer!refuseCall, Transfer!Answer, Transfer!drop,
                Transfer!landUpload, Transfer!landMapping, Transfer!landPreview, Transfer!landCommit,
           Transfer!closeMenu, Transfer!toggleDeleted, Transfer!toggleFiles, Transfer!runExport,
                Transfer!openExport, Transfer!pickFormat, Transfer!landExport, Transfer!failExport
  <2>2. CASE s1 # "file"
    <3>1. UNCHANGED Transfer!fileVars
      BY <1>1, <2>2
         DEF Transfer!Next, Transfer!File, Transfer!preflight, Transfer!refuse, Transfer!landPreflight,
              Transfer!landFile, Transfer!landAttachment, Transfer!leave, Transfer!landPost, Transfer!failPost,
              Transfer!reap,
             Transfer!Wizard, Transfer!Local, Transfer!Menu, Transfer!open, Transfer!close, Transfer!pickFile,
                  Transfer!onBack, Transfer!mapColumn, Transfer!setResolution, Transfer!runUpload,
                  Transfer!runSetMapping,
             Transfer!runCommit, Transfer!serve, Transfer!refuseCall, Transfer!Answer, Transfer!drop,
                  Transfer!landUpload, Transfer!landMapping, Transfer!landPreview, Transfer!landCommit,
             Transfer!closeMenu, Transfer!toggleDeleted, Transfer!toggleFiles, Transfer!runExport,
                  Transfer!openExport, Transfer!pickFormat, Transfer!landExport, Transfer!failExport
    <3> QED BY <3>1, PipelineStill
  <2> QED BY <2>1, <2>2
<1>2. CASE UNCHANGED Transfer!vars
  BY <1>2, PipelineStill DEF Transfer!vars
<1> QED BY <1>1, <1>2

(* A file is stored only when all its chunks are.                                  *)
LEMMA PipelineWhole == Transfer!FileInv => Transfer!UploadWhole
  BY DEF Transfer!FileInv, Transfer!UploadWhole

(* ----- The wizard. ----- *)
LEMMA StepOf == ASSUME s12.step \in 0..4
                PROVE  /\ Transfer!opened <=> s12.step \in 1..4
                       /\ Transfer!On("upload") => s12.step = 1
                       /\ Transfer!On("map") => s12.step = 2
                       /\ Transfer!On("preview") => s12.step = 3
  BY DEF Transfer!opened, Transfer!On, Transfer!Steps

(* The wizard opens on an empty file and no job.                                   *)
LEMMA WizardBegins == Transfer!Init => Transfer!WizardInv
<1> SUFFICES ASSUME Transfer!Init PROVE Transfer!WizardInv
  OBVIOUS
<1>1. /\ s12 = [step |-> 0, file |-> FALSE, uploading |-> FALSE, job |-> 0, map |-> 0, res |-> 0, mapBusy |-> FALSE,
                prev |-> <<>>, prevBusy |-> FALSE, done |-> FALSE, committing |-> FALSE]
      /\ s13 = {} /\ s15 = <<>> /\ s16 = <<>>
  BY DEF Transfer!Init, Transfer!Closed, Transfer!Fresh
<1>2. Transfer!WizardShape /\ Transfer!JobsMade
  BY <1>1 DEF Transfer!WizardShape, Transfer!JobsMade
<1> QED BY <1>1, <1>2 DEF Transfer!WizardInv, Transfer!PreviewTrue, Transfer!ImportedStay, Transfer!CommitAsShown,
     Transfer!ImportedOnce

(* A step that touches neither the calls nor the jobs, with none out, and keeps a      *)
(* preview's job and the last step of an import.                                  *)
LEMMA AloneStep ==
    ASSUME Transfer!WizardInv, UNCHANGED <<s15, s16, s13>>, Transfer!WizardShape',
           s13 = {} \/ (~Transfer!opened' /\ \A c \in s13 : c.kind = "map"),
           Transfer!PreviewTrue', s12'.job # 0 /\ s15[s12'.job].status = "completed" => s12'.step = 4
    PROVE  Transfer!WizardInv'
<1>1. \A c \in s13 : Transfer!CallOfStep(c)'
  BY DEF Transfer!WizardInv, Transfer!CallOfStep
<1>2. Transfer!ImportedStay' /\ Transfer!JobsMade'
  BY DEF Transfer!WizardInv, Transfer!ImportedStay, Transfer!JobsMade
<1> QED BY <1>1, <1>2 DEF Transfer!WizardInv, Transfer!CommitAsShown, Transfer!ImportedOnce

(* The calls that a step of the wizard leaves out.                              *)
LEMMA NoCalls ==
    ASSUME Transfer!WizardInv
    PROVE  /\ ~s12.uploading /\ ~s12.committing /\ ~s12.prevBusy => \A c \in s13 : c.kind = "map"
           /\ ~s12.uploading /\ ~s12.committing /\ ~s12.prevBusy /\ ~s12.mapBusy /\ Transfer!opened => s13 = {}
           /\ s12.step = 1 /\ ~s12.uploading => s13 = {}
           /\ s12.step = 2 /\ ~s12.mapBusy => s13 = {}
           /\ s12.step = 3 /\ ~s12.prevBusy => s13 = {}
<1>1. \A c \in s13 : Transfer!CallOfStep(c)
  BY DEF Transfer!WizardInv
<1>2. s12.step \in 0..4 /\ (Transfer!opened <=> s12.step \in 1..4)
  BY StepOf DEF Transfer!WizardInv, Transfer!WizardShape
<1>3. ASSUME NEW c \in s13
      PROVE  \/ c.kind = "upload" /\ s12.step = 1 /\ s12.uploading
             \/ c.kind = "map" /\ (Transfer!opened => s12.step = 2 /\ s12.mapBusy)
             \/ s12.step = 3 /\ s12.prevBusy
             \/ s12.step = 4 /\ s12.committing
  BY <1>1 DEF Transfer!CallOfStep
<1> QED BY <1>2, <1>3

(* What the user does in the wizard shows no preview of another mapping.           *)
LEMMA WizardLocal ==
    ASSUME Transfer!WizardInv, Transfer!open \/ Transfer!close \/ Transfer!pickFile \/ Transfer!onBack
           \/ Transfer!mapColumn \/ Transfer!setResolution
    PROVE  Transfer!WizardInv'
<1>0. /\ Transfer!WizardShape /\ Transfer!PreviewTrue
         /\ (s12.job # 0 /\ s15[s12.job].status = "completed" => s12.step = 4)
      /\ s12.step \in 0..4 /\ (Transfer!opened <=> s12.step \in 1..4)
      /\ UNCHANGED <<s13, s15, s16>>
  BY StepOf DEF Transfer!WizardInv, Transfer!WizardShape, Transfer!ImportedStay, Transfer!open, Transfer!close,
       Transfer!pickFile, Transfer!onBack, Transfer!mapColumn, Transfer!setResolution, Transfer!Local
<1>1. CASE Transfer!open
  <2>1. s13 = {} /\ s12' = Transfer!Fresh
    BY <1>1 DEF Transfer!open
  <2>2. Transfer!WizardShape' /\ Transfer!PreviewTrue' /\ s12'.job = 0
    BY <1>0, <2>1 DEF Transfer!WizardShape, Transfer!PreviewTrue, Transfer!Fresh
  <2> QED BY <1>0, <2>1, <2>2, AloneStep
<1>2. CASE Transfer!close
  <2>1. (\A c \in s13 : c.kind = "map") /\ s12' = Transfer!Closed
    BY <1>2, NoCalls DEF Transfer!close, Transfer!Waits
  <2>a. s12' = [step |-> 0, file |-> FALSE, uploading |-> FALSE, job |-> 0, map |-> 0, res |-> 0, mapBusy |-> FALSE,
                prev |-> <<>>, prevBusy |-> FALSE, done |-> FALSE, committing |-> FALSE]
    BY <2>1 DEF Transfer!Closed, Transfer!Fresh
  <2>2. Transfer!WizardShape' /\ Transfer!PreviewTrue' /\ s12'.job = 0 /\ ~Transfer!opened'
    BY <1>0, <2>a DEF Transfer!WizardShape, Transfer!PreviewTrue, Transfer!opened
  <2> QED BY <1>0, <2>1, <2>2, AloneStep
<1>3. CASE Transfer!pickFile
  <2>1. s12.step = 1 /\ s12' = [s12 EXCEPT !.file = TRUE]
    BY <1>0, <1>3, StepOf DEF Transfer!pickFile
  <2>2. /\ s12'.step = s12.step /\ s12'.job = s12.job /\ s12'.prev = s12.prev /\ Transfer!WizardShape'
        /\ s12'.uploading = s12.uploading /\ s12'.mapBusy = s12.mapBusy
    BY <1>0, <2>1 DEF Transfer!WizardShape
  <2>3. Transfer!PreviewTrue' /\ Transfer!ImportedStay' /\ Transfer!JobsMade'
    BY <1>0, <2>1, <2>2 DEF Transfer!WizardInv, Transfer!PreviewTrue, Transfer!ImportedStay, Transfer!JobsMade
  <2>4. \A c \in s13 : Transfer!CallOfStep(c)'
    BY <1>0, <2>1, <2>2 DEF Transfer!WizardInv, Transfer!CallOfStep, Transfer!opened, Transfer!CallShape,
         Transfer!Would
  <2> QED BY <1>0, <2>2, <2>3, <2>4 DEF Transfer!WizardInv, Transfer!CommitAsShown, Transfer!ImportedOnce
<1>4. CASE Transfer!onBack
  <2>1. /\ s13 = {} /\ s12.step > 1 /\ s12' = [s12 EXCEPT !.step = @ - 1]
        /\ ~\E j \in DOMAIN s15 : s15[j].status = "completed"
    BY <1>4, NoCalls DEF Transfer!onBack, Transfer!Waits
  <2>2. /\ s12'.step = s12.step - 1 /\ s12'.job = s12.job /\ s12'.prev = s12.prev /\ Transfer!WizardShape'
    BY <1>0, <2>1 DEF Transfer!WizardShape
  <2>3. Transfer!PreviewTrue' /\ (s12'.job # 0 => s15[s12'.job].status # "completed")
    BY <1>0, <2>1, <2>2 DEF Transfer!PreviewTrue, Transfer!Would, Transfer!WizardShape
  <2> QED BY <1>0, <2>1, <2>2, <2>3, AloneStep
<1>5. CASE Transfer!mapColumn \/ Transfer!setResolution
  <2>1. s12.step = 2 /\ s13 = {} /\ s12' \in {[s12 EXCEPT !.map = 1 - @], [s12 EXCEPT !.res = 1 - @]}
    BY <1>0, <1>5, StepOf, NoCalls DEF Transfer!mapColumn, Transfer!setResolution
  <2>2. s12'.step = 2 /\ s12'.job = s12.job /\ Transfer!WizardShape'
    BY <1>0, <2>1 DEF Transfer!WizardShape
  <2>3. Transfer!PreviewTrue' /\ (s12'.job # 0 => s15[s12'.job].status # "completed")
    BY <1>0, <2>1, <2>2 DEF Transfer!PreviewTrue
  <2> QED BY <1>0, <2>1, <2>2, <2>3, AloneStep
<1> QED BY <1>1, <1>2, <1>3, <1>4, <1>5

(* A step sends the one call that it is of.                                        *)
LEMMA SentStep ==
    ASSUME Transfer!WizardInv, UNCHANGED <<s15, s16>>, Transfer!WizardShape', Transfer!PreviewTrue',
           s12'.job # 0 /\ s15[s12'.job].status = "completed" => s12'.step = 4,
           NEW c, s13' = {c}, Transfer!CallOfStep(c)'
    PROVE  Transfer!WizardInv'
<1>1. Transfer!ImportedStay' /\ Transfer!JobsMade'
  BY DEF Transfer!WizardInv, Transfer!ImportedStay, Transfer!JobsMade
<1> QED BY <1>1 DEF Transfer!WizardInv, Transfer!CommitAsShown, Transfer!ImportedOnce

(* A call carries the job and the mapping on the screen.                           *)
LEMMA WizardSends ==
    ASSUME Transfer!WizardInv, Transfer!runUpload \/ Transfer!runSetMapping \/ Transfer!runCommit
    PROVE  Transfer!WizardInv'
<1>0. /\ Transfer!WizardShape /\ Transfer!PreviewTrue
         /\ (s12.job # 0 /\ s15[s12.job].status = "completed" => s12.step = 4)
      /\ s12.step \in 0..4 /\ UNCHANGED <<s15, s16>>
  BY DEF Transfer!WizardInv, Transfer!WizardShape, Transfer!ImportedStay, Transfer!runUpload,
       Transfer!runSetMapping, Transfer!runCommit
<1>1. CASE Transfer!runUpload
  <2>1. /\ s12.step = 1 /\ s13 = {} /\ s12' = [s12 EXCEPT !.uploading = TRUE]
        /\ Transfer!Sent(s13, "upload", 0, 0, 0, 0)
    BY <1>0, <1>1, StepOf, NoCalls DEF Transfer!runUpload
  <2>2. /\ s12'.step = 1 /\ s12'.job = s12.job /\ s12'.prev = s12.prev /\ s12'.uploading /\ Transfer!WizardShape'
    BY <1>0, <2>1 DEF Transfer!WizardShape
  <2>3. PICK c : /\ s13' = {c} /\ Transfer!CallShape(c) /\ c.kind = "upload" /\ c.state = "sent"
                    /\ {c.map, c.res} \subseteq Int
    <3> DEFINE d == [kind |-> "upload", n |-> s14', state |-> "sent", job |-> 0, map |-> 0, res |-> 0, out |-> 0]
    <3>1. s13' = {d}
      BY <2>1 DEF Transfer!Sent
    <3>2. Transfer!CallShape(d) /\ d.kind = "upload" /\ d.state = "sent" /\ d.map = 0 /\ d.res = 0
      BY DEF Transfer!CallShape
    <3> HIDE DEF d
    <3> QED BY <3>1, <3>2
  <2>4. Transfer!CallOfStep(c)'
    BY <2>2, <2>3 DEF Transfer!CallOfStep, Transfer!CallShape
  <2>5. Transfer!PreviewTrue' /\ (s12'.job # 0 => s15[s12'.job].status # "completed")
    BY <1>0, <2>1, <2>2 DEF Transfer!PreviewTrue
  <2> QED BY <1>0, <2>2, <2>3, <2>4, <2>5, SentStep
<1>2. CASE Transfer!runSetMapping
  <2>1. /\ s12.step = 2 /\ s13 = {} /\ s12.job # 0 /\ s12' = [s12 EXCEPT !.mapBusy = TRUE]
        /\ Transfer!Sent(s13, "map", s12.job, s12.map, 0, 0)
    BY <1>0, <1>2, StepOf, NoCalls DEF Transfer!runSetMapping
  <2>2. /\ s12'.step = 2 /\ s12'.job = s12.job /\ s12'.prev = s12.prev /\ s12'.mapBusy /\ Transfer!WizardShape'
    BY <1>0, <2>1 DEF Transfer!WizardShape
  <2>m. s12.map \in Int
    BY <1>0 DEF Transfer!WizardShape
  <2>3. PICK c : /\ s13' = {c} /\ Transfer!CallShape(c) /\ c.kind = "map" /\ c.job = s12.job
                    /\ {c.map, c.res} \subseteq Int
    <3> DEFINE d == [kind |-> "map", n |-> s14', state |-> "sent", job |-> s12.job, map |-> s12.map, res |-> 0,
            out |-> 0]
    <3>1. s13' = {d}
      BY <2>1 DEF Transfer!Sent
    <3>2. Transfer!CallShape(d) /\ d.kind = "map" /\ d.job = s12.job /\ d.map = s12.map /\ d.res = 0
      BY DEF Transfer!CallShape
    <3> HIDE DEF d
    <3> QED BY <3>1, <3>2, <2>m
  <2>4. Transfer!CallOfStep(c)'
    BY <1>0, <2>1, <2>2, <2>3 DEF Transfer!CallOfStep, Transfer!CallShape, Transfer!WizardShape
  <2>5. Transfer!PreviewTrue' /\ (s12'.job # 0 => s15[s12'.job].status # "completed")
    BY <1>0, <2>1, <2>2 DEF Transfer!PreviewTrue
  <2> QED BY <1>0, <2>2, <2>3, <2>4, <2>5, SentStep
<1>3. CASE Transfer!runCommit
  <2>1. /\ s12.step = 3 /\ s13 = {} /\ s12.job # 0 /\ s12' = [s12 EXCEPT !.committing = TRUE, !.step = 4]
        /\ s12.prev # <<>> /\ Transfer!Sent(s13, "commit", s12.job, 0, 0, s12.prev)
    BY <1>0, <1>3, StepOf, NoCalls DEF Transfer!runCommit
  <2>a. s12'.committing /\ s12'.step = 4 /\ s12'.job = s12.job /\ s12'.prev = s12.prev /\ s12'.map = s12.map
        /\ s12'.res = s12.res
    BY <1>0, <2>1 DEF Transfer!WizardShape
  <2>b. s12' = [step |-> s12'.step, file |-> s12'.file, uploading |-> s12'.uploading, job |-> s12'.job,
            map |-> s12'.map, res |-> s12'.res,
              mapBusy |-> s12'.mapBusy, prev |-> s12'.prev, prevBusy |-> s12'.prevBusy, done |-> s12'.done,
              committing |-> s12'.committing]
    BY <1>0, <2>1 DEF Transfer!WizardShape
  <2>2. /\ s12'.step = 4 /\ s12'.job = s12.job /\ s12'.prev = s12.prev /\ s12'.committing /\ Transfer!WizardShape'
    BY <1>0, <2>a, <2>b DEF Transfer!WizardShape
  <2>3. PICK c : /\ s13' = {c} /\ Transfer!CallShape(c) /\ c.kind = "commit" /\ c.job = s12.job /\ c.out = s12.prev
                 /\ {c.map, c.res} \subseteq Int
    <3> DEFINE d == [kind |-> "commit", n |-> s14', state |-> "sent", job |-> s12.job, map |-> 0, res |-> 0,
            out |-> s12.prev]
    <3>1. s13' = {d}
      BY <2>1 DEF Transfer!Sent
    <3>2. Transfer!CallShape(d) /\ d.kind = "commit" /\ d.job = s12.job /\ d.out = s12.prev /\ d.map = 0
          /\ d.res = 0
      BY DEF Transfer!CallShape
    <3> HIDE DEF d
    <3> QED BY <3>1, <3>2
  <2>4. Transfer!CallOfStep(c)'
    BY <1>0, <2>1, <2>2, <2>3 DEF Transfer!CallOfStep, Transfer!CallShape, Transfer!WizardShape
  <2>5. Transfer!PreviewTrue'
    BY <1>0, <2>1, <2>2 DEF Transfer!PreviewTrue, Transfer!Would
  <2> QED BY <1>0, <2>2, <2>3, <2>4, <2>5, SentStep
<1> QED BY <1>1, <1>2, <1>3

(* A job of the list is changed in place.                                          *)
LEMMA JobEdited ==
    ASSUME s15 \in Seq(Transfer!Job), NEW k \in DOMAIN s15, NEW r \in Transfer!Job, s15' = [s15 EXCEPT ![k] = r]
    PROVE  /\ s15' \in Seq(Transfer!Job) /\ DOMAIN s15' = DOMAIN s15 /\ s15'[k] = r
           /\ \A j \in DOMAIN s15 \ {k} : s15'[j] = s15[j]
  BY ExceptSeq

(* The server stores what the step sent, and only a commit completes a job.            *)
LEMMA ServedUpload ==
    ASSUME Transfer!WizardInv, NEW c \in s13, UNCHANGED s12, Transfer!serveUpload(c)
    PROVE  Transfer!WizardInv'
<1> DEFINE r == [status |-> "uploaded", map |-> -1, res |-> 0]
<1>1. /\ s13 = {c} /\ Transfer!CallOfStep(c) /\ c.kind = "upload" /\ s15 \in Seq(Transfer!Job)
         /\ Transfer!WizardShape /\ Transfer!JobsMade
      /\ s15' = Append(s15, r) /\ s16' = s16 /\ r \in Transfer!Job
  BY DEF Transfer!WizardInv, Transfer!JobsMade, Transfer!serveUpload, Transfer!Job
<1>2. /\ s15' \in Seq(Transfer!Job) /\ Len(s15') = Len(s15) + 1 /\ Len(s15') \in DOMAIN s15' /\ s15'[Len(s15')] = r
      /\ DOMAIN s15 \subseteq DOMAIN s15' /\ \A j \in DOMAIN s15 : s15'[j] = s15[j]
  BY <1>1, AppendProperties
<1>3. PICK s, d : s13' = {d} /\ d = [c EXCEPT !.state = s, !.job = Len(s15')]
  BY <1>1 DEF Transfer!serveUpload
<1>4. /\ d.kind = c.kind /\ d.state = s /\ d.job = Len(s15') /\ d.map = c.map /\ d.res = c.res
         /\ Transfer!CallShape(d)
  <2>1. d = [kind |-> c.kind, n |-> c.n, state |-> s, job |-> Len(s15'), map |-> c.map, res |-> c.res,
            out |-> c.out]
    BY <1>1, <1>3 DEF Transfer!CallOfStep, Transfer!CallShape
  <2> QED BY <2>1 DEF Transfer!CallShape
<1>5. s15'[Len(s15')].status = "uploaded"
  BY <1>2
<1> HIDE DEF r
<1>6. \A e \in s13' : Transfer!CallOfStep(e)'
  BY <1>1, <1>2, <1>3, <1>4, <1>5 DEF Transfer!CallOfStep, Transfer!CallShape
<1>7. Transfer!WizardShape' /\ Transfer!JobsMade' /\ Transfer!PreviewTrue' /\ Transfer!ImportedStay'
  BY <1>1, <1>2 DEF Transfer!WizardInv, Transfer!WizardShape, Transfer!JobsMade, Transfer!PreviewTrue,
       Transfer!ImportedStay, Transfer!Would
<1> QED BY <1>1, <1>3, <1>6, <1>7 DEF Transfer!WizardInv, Transfer!CommitAsShown, Transfer!ImportedOnce

(* A mapping is saved on a job that has not been imported.                         *)
LEMMA ServedMapping ==
    ASSUME Transfer!WizardInv, NEW c \in s13, UNCHANGED s12, Transfer!setMapping(c)
    PROVE  Transfer!WizardInv'
<1> DEFINE k == c.job
           st == IF s15[k].status \in {"previewed", "completed"} THEN s15[k].status ELSE "mapped"
           r == [status |-> st, map |-> c.map, res |-> s15[k].res]
<1>1. /\ s13 = {c} /\ Transfer!CallOfStep(c) /\ c.kind = "map" /\ s15 \in Seq(Transfer!Job) /\ Transfer!WizardShape
         /\ Transfer!JobsMade /\ k \in DOMAIN s15
      /\ s16' = s16 /\ c.map \in Int /\ (Transfer!opened => s12.step = 2 /\ s12.mapBusy /\ c.job = s12.job)
  BY DEF Transfer!WizardInv, Transfer!JobsMade, Transfer!setMapping, Transfer!CallOfStep
<1>2. s15[k] \in Transfer!Job
  BY <1>1, ElementOfSeq
<1>r. r \in Transfer!Job
  BY <1>1, <1>2 DEF Transfer!Job
<1>3. s15' = [s15 EXCEPT ![k] = r] /\ r \in Transfer!Job
  BY <1>1, <1>r DEF Transfer!setMapping, Transfer!store
<1>4. /\ s15' \in Seq(Transfer!Job) /\ DOMAIN s15' = DOMAIN s15 /\ s15'[k] = r
      /\ \A j \in DOMAIN s15 \ {k} : s15'[j] = s15[j]
  BY <1>1, <1>3, JobEdited
<1>5. \A j \in DOMAIN s15 : s15'[j].status = "completed" <=> s15[j].status = "completed"
  BY <1>4
<1> HIDE DEF r
<1>6. PICK s : s13' = {[c EXCEPT !.state = s]}
  BY <1>1 DEF Transfer!setMapping
<1>7. \A e \in s13' : Transfer!CallOfStep(e)'
  BY <1>1, <1>4, <1>6 DEF Transfer!CallOfStep, Transfer!CallShape, Transfer!opened
<1>8. ~(s12.step \in {3, 4})
  BY <1>1, StepOf DEF Transfer!WizardShape
<1>9. Transfer!WizardShape' /\ Transfer!JobsMade' /\ Transfer!PreviewTrue' /\ Transfer!ImportedStay'
  BY <1>1, <1>4, <1>5, <1>8 DEF Transfer!WizardInv, Transfer!WizardShape, Transfer!JobsMade, Transfer!PreviewTrue,
       Transfer!ImportedStay
<1> QED BY <1>1, <1>6, <1>7, <1>9 DEF Transfer!WizardInv, Transfer!CommitAsShown, Transfer!ImportedOnce

(* A preview is made of the mapping that is saved.                                 *)
LEMMA ServedPreview ==
    ASSUME Transfer!WizardInv, NEW c \in s13, UNCHANGED s12, Transfer!preview(c)
    PROVE  Transfer!WizardInv'
<1> DEFINE k == c.job
           r == [status |-> "previewed", map |-> s15[k].map, res |-> c.res]
<1>1. /\ s13 = {c} /\ Transfer!CallOfStep(c) /\ c.kind = "preview" /\ s15 \in Seq(Transfer!Job)
         /\ Transfer!WizardShape /\ Transfer!JobsMade /\ k \in DOMAIN s15
      /\ s16' = s16 /\ c.res \in Int /\ s12.step = 3 /\ k = s12.job /\ s12.prev = <<>> /\ k # 0
  BY DEF Transfer!WizardInv, Transfer!JobsMade, Transfer!preview, Transfer!CallOfStep
<1>2. s15[k] \in Transfer!Job
  BY <1>1, ElementOfSeq
<1>r. r \in Transfer!Job
  BY <1>1, <1>2 DEF Transfer!Job
<1>3. s15' = [s15 EXCEPT ![k] = r] /\ r \in Transfer!Job
  BY <1>1, <1>r DEF Transfer!preview, Transfer!store
<1>4. /\ s15' \in Seq(Transfer!Job) /\ DOMAIN s15' = DOMAIN s15 /\ s15'[k] = r
      /\ \A j \in DOMAIN s15 \ {k} : s15'[j] = s15[j]
  BY <1>1, <1>3, JobEdited
<1>5. s15'[k].map = s15[k].map /\ s15'[k].res = c.res /\ s15'[k].status # "completed"
  BY <1>4
<1> HIDE DEF r
<1>6. PICK s, d : s13' = {d} /\ d = [c EXCEPT !.state = s, !.out = <<s15[k].map, c.res>>]
  BY <1>1 DEF Transfer!preview
<1>d. d.kind = c.kind /\ d.job = c.job /\ d.map = c.map /\ d.res = c.res /\ d.out = <<s15[k].map, c.res>>
      /\ Transfer!CallShape(d)
  <2> DEFINE o == <<s15[k].map, c.res>>
  <2> HIDE DEF o
  <2>1. d = [kind |-> c.kind, n |-> c.n, state |-> s, job |-> c.job, map |-> c.map, res |-> c.res, out |-> o]
    BY <1>1, <1>6 DEF Transfer!CallOfStep, Transfer!CallShape, o
  <2>2. d.kind = c.kind /\ d.job = c.job /\ d.map = c.map /\ d.res = c.res /\ d.out = o /\ Transfer!CallShape(d)
    BY <2>1 DEF Transfer!CallShape
  <2> QED BY <2>2 DEF o
<1>w. Transfer!Would(k)' = <<s15[k].map, c.res>>
  BY <1>5 DEF Transfer!Would
<1>7. \A e \in s13' : Transfer!CallOfStep(e)'
  BY <1>1, <1>4, <1>6, <1>d, <1>w DEF Transfer!CallOfStep, Transfer!CallShape
<1>8. s15[k].status # "completed"
  BY <1>1 DEF Transfer!WizardInv, Transfer!ImportedStay
<1>9. Transfer!WizardShape' /\ Transfer!JobsMade' /\ Transfer!PreviewTrue'
  BY <1>1, <1>4 DEF Transfer!WizardShape, Transfer!JobsMade, Transfer!PreviewTrue
<1>10. Transfer!ImportedStay'
  BY <1>1, <1>4, <1>5, <1>8 DEF Transfer!WizardInv, Transfer!ImportedStay
<1> QED BY <1>1, <1>6, <1>7, <1>9, <1>10 DEF Transfer!WizardInv, Transfer!CommitAsShown, Transfer!ImportedOnce

(* A commit runs the mapping that was shown, once.                                 *)
LEMMA ServedCommit ==
    ASSUME Transfer!WizardInv, NEW c \in s13, UNCHANGED s12, Transfer!commit(c)
    PROVE  Transfer!WizardInv'
<1> DEFINE k == c.job
           r == [status |-> "completed", map |-> s15[k].map, res |-> s15[k].res]
           n == [job |-> k, shown |-> c.out, did |-> <<s15[k].map, s15[k].res>>]
<1>1. /\ s13 = {c} /\ Transfer!CallOfStep(c) /\ c.kind = "commit" /\ s15 \in Seq(Transfer!Job)
         /\ Transfer!WizardShape /\ Transfer!JobsMade /\ k \in DOMAIN s15
      /\ s12.step = 4 /\ k = s12.job /\ c.out = s12.prev /\ s12.prev # <<>> /\ s15[k].status # "completed"
  BY DEF Transfer!WizardInv, Transfer!JobsMade, Transfer!commit, Transfer!CallOfStep
<1>2. s15[k] \in Transfer!Job
  BY <1>1, ElementOfSeq
<1>r. r \in Transfer!Job
  BY <1>1, <1>2 DEF Transfer!Job
<1>3. s15' = [s15 EXCEPT ![k] = r] /\ r \in Transfer!Job
  BY <1>1, <1>r DEF Transfer!commit, Transfer!store
<1>4. /\ s15' \in Seq(Transfer!Job) /\ DOMAIN s15' = DOMAIN s15 /\ s15'[k] = r
      /\ \A j \in DOMAIN s15 \ {k} : s15'[j] = s15[j]
  BY <1>1, <1>3, JobEdited
<1>5. s15'[k].map = s15[k].map /\ s15'[k].res = s15[k].res /\ s15'[k].status = "completed"
  BY <1>4
<1>6. c.out = <<s15[k].map, s15[k].res>> /\ c.out \in Transfer!Pairs /\ k \in Nat
  BY <1>1, <1>2 DEF Transfer!WizardInv, Transfer!PreviewTrue, Transfer!Would, Transfer!WizardShape, Transfer!Pairs,
       Transfer!Job
<1>7. n.job = k /\ n.shown = n.did /\ n \in [job : Nat, shown : Transfer!Pairs, did : Transfer!Pairs]
  BY <1>6
<1>8. s16' = Append(s16, n)
  BY DEF Transfer!commit
<1> HIDE DEF r, n
<1>9. /\ s16' \in Seq([job : Nat, shown : Transfer!Pairs, did : Transfer!Pairs]) /\ DOMAIN s16' = DOMAIN s16
         \cup {Len(s16')}
      /\ Len(s16') \notin DOMAIN s16 /\ s16'[Len(s16')] = n
      /\ \A i \in DOMAIN s16 : s16'[i] = s16[i]
  BY <1>1, <1>7, <1>8, AppendProperties DEF Transfer!JobsMade
<1>10. PICK s : s13' = {[c EXCEPT !.state = s]}
  BY <1>1 DEF Transfer!commit
<1>11. \A e \in s13' : Transfer!CallOfStep(e)'
  BY <1>1, <1>4, <1>10 DEF Transfer!CallOfStep, Transfer!CallShape, Transfer!opened
<1>12. Transfer!WizardShape' /\ Transfer!JobsMade' /\ Transfer!PreviewTrue'
  BY <1>1, <1>4, <1>5, <1>9 DEF Transfer!WizardInv, Transfer!WizardShape, Transfer!JobsMade, Transfer!PreviewTrue,
       Transfer!Would
<1>i. \A i \in DOMAIN s16 : s16[i].job \in DOMAIN s15 \ {k} /\ s15[s16[i].job].status = "completed"
  BY <1>1 DEF Transfer!WizardInv, Transfer!ImportedStay
<1>13. Transfer!ImportedStay'
  <2>1. \A i \in DOMAIN s16' : s16'[i].job \in DOMAIN s15 /\ s15'[s16'[i].job].status = "completed"
    <3>1. ASSUME NEW i \in DOMAIN s16
          PROVE  s16'[i].job \in DOMAIN s15 /\ s15'[s16'[i].job].status = "completed"
      BY <1>4, <1>9, <1>i
    <3>2. s16'[Len(s16')].job \in DOMAIN s15 /\ s15'[s16'[Len(s16')].job].status = "completed"
      BY <1>1, <1>5, <1>7, <1>9
    <3> QED BY <1>9, <3>1, <3>2
  <2> QED BY <1>1, <1>4, <2>1 DEF Transfer!ImportedStay
<1>14. Transfer!CommitAsShown'
  BY <1>7, <1>9 DEF Transfer!WizardInv, Transfer!CommitAsShown
<1>15. Transfer!ImportedOnce'
  <2>1. \A i \in DOMAIN s16 : s16'[i].job # k
    BY <1>9, <1>i
  <2>2. \A i, j \in DOMAIN s16 : s16'[i].job = s16'[j].job => i = j
    BY <1>9 DEF Transfer!WizardInv, Transfer!ImportedOnce
  <2> QED BY <1>7, <1>9, <2>1, <2>2 DEF Transfer!ImportedOnce
<1> QED BY <1>10, <1>11, <1>12, <1>13, <1>14, <1>15 DEF Transfer!WizardInv

(* Every answer of the server keeps WizardInv.                                     *)
LEMMA CallServed == ASSUME Transfer!WizardInv, NEW c \in s13, Transfer!serve(c) PROVE Transfer!WizardInv'
<1>1. UNCHANGED s12
      /\ (Transfer!serveUpload(c) \/ Transfer!setMapping(c) \/ Transfer!preview(c) \/ Transfer!commit(c))
  BY DEF Transfer!serve
<1> QED BY <1>1, ServedUpload, ServedMapping, ServedPreview, ServedCommit

(* A call refused leaves the job as it is.                                         *)
LEMMA CallRefused ==
    ASSUME Transfer!WizardInv, NEW c \in s13, Transfer!refuseCall(c)
    PROVE  Transfer!WizardInv'
<1> DEFINE d == [c EXCEPT !.state = "lost"]
<1>1. /\ UNCHANGED <<s12, s15, s16>> /\ s13 = {c} /\ Transfer!CallOfStep(c) /\ s13' = {d}
  BY DEF Transfer!WizardInv, Transfer!refuseCall
<1>2. /\ d.kind = c.kind /\ d.state = "lost" /\ d.job = c.job /\ d.map = c.map /\ d.res = c.res /\ d.out = c.out
         /\ Transfer!CallShape(d)
  BY <1>1 DEF Transfer!CallOfStep, Transfer!CallShape
<1> HIDE DEF d
<1>3. Transfer!CallOfStep(d)'
  BY <1>1, <1>2 DEF Transfer!CallOfStep, Transfer!CallShape, Transfer!opened
<1>4. Transfer!WizardShape' /\ Transfer!JobsMade' /\ Transfer!PreviewTrue' /\ Transfer!ImportedStay'
  BY <1>1 DEF Transfer!WizardInv, Transfer!WizardShape, Transfer!JobsMade, Transfer!PreviewTrue,
       Transfer!ImportedStay, Transfer!Would
<1> QED BY <1>1, <1>3, <1>4 DEF Transfer!WizardInv, Transfer!CommitAsShown, Transfer!ImportedOnce

(* An answer is taken when the wizard is at the step of its call.                     *)
LEMMA AnsweredStep ==
    ASSUME Transfer!WizardInv, UNCHANGED <<s15, s16>>, Transfer!WizardShape', Transfer!PreviewTrue', s13' = {},
           s12'.job # 0 /\ s15[s12'.job].status = "completed" => s12'.step = 4
    PROVE  Transfer!WizardInv'
<1>1. Transfer!ImportedStay' /\ Transfer!JobsMade'
  BY DEF Transfer!WizardInv, Transfer!ImportedStay, Transfer!JobsMade
<1> QED BY <1>1 DEF Transfer!WizardInv, Transfer!CommitAsShown, Transfer!ImportedOnce

(* An answer moves the wizard that asked for it.                                   *)
LEMMA AnsweredSteps ==
    ASSUME Transfer!WizardInv, NEW c \in s13, Transfer!drop(c) \/ Transfer!landUpload(c) \/ Transfer!landPreview(c)
           \/ Transfer!landCommit(c)
    PROVE  Transfer!WizardInv'
<1>0. /\ Transfer!WizardShape /\ Transfer!PreviewTrue
         /\ (s12.job # 0 /\ s15[s12.job].status = "completed" => s12.step = 4)
      /\ UNCHANGED <<s15, s16>> /\ s13 = {c} /\ Transfer!CallOfStep(c) /\ s13' = {}
  BY DEF Transfer!WizardInv, Transfer!ImportedStay, Transfer!Answer, Transfer!drop, Transfer!landUpload,
       Transfer!landPreview, Transfer!landCommit
<1>1. CASE Transfer!drop(c)
  <2>1. s12' = s12
    BY <1>1 DEF Transfer!drop
  <2> QED BY <1>0, <2>1, AnsweredStep DEF Transfer!WizardShape, Transfer!PreviewTrue, Transfer!Would
<1>2. CASE Transfer!landUpload(c)
  <2>1. c.kind = "upload" /\ s12.step = 1
        /\ (Transfer!Done(c) => c.job \in DOMAIN s15 /\ s15[c.job].status = "uploaded")
    BY <1>0, <1>2 DEF Transfer!landUpload, Transfer!CallOfStep, Transfer!Done
  <2>2. CASE Transfer!Done(c)
    <3>1. s12' = [s12 EXCEPT !.uploading = FALSE, !.job = c.job, !.map = 0, !.step = 2]
      BY <1>2, <2>2 DEF Transfer!landUpload
    <3>2. /\ s12'.step = 2 /\ s12'.job = c.job /\ s12'.map = 0 /\ s12'.res = s12.res /\ s12'.prev = s12.prev
      BY <1>0, <3>1 DEF Transfer!WizardShape
    <3>b. s12' = [step |-> s12'.step, file |-> s12'.file, uploading |-> s12'.uploading, job |-> s12'.job,
              map |-> s12'.map, res |-> s12'.res,
              mapBusy |-> s12'.mapBusy, prev |-> s12'.prev, prevBusy |-> s12'.prevBusy, done |-> s12'.done,
              committing |-> s12'.committing]
      BY <1>0, <3>1 DEF Transfer!WizardShape
    <3>3. Transfer!WizardShape' /\ Transfer!PreviewTrue'
      BY <1>0, <2>1, <2>2, <3>2, <3>b DEF Transfer!WizardShape, Transfer!PreviewTrue
    <3> QED BY <1>0, <2>1, <2>2, <3>2, <3>3, AnsweredStep
  <2>3. CASE ~Transfer!Done(c)
    <3>1. s12' = [s12 EXCEPT !.uploading = FALSE]
      BY <1>2, <2>3 DEF Transfer!landUpload
    <3>2. s12'.step = s12.step /\ s12'.job = s12.job /\ s12'.prev = s12.prev /\ Transfer!WizardShape'
      BY <1>0, <3>1 DEF Transfer!WizardShape
    <3>3. Transfer!PreviewTrue'
      BY <1>0, <3>2 DEF Transfer!PreviewTrue, Transfer!Would
    <3> QED BY <1>0, <3>2, <3>3, AnsweredStep
  <2> QED BY <2>2, <2>3
<1>3. CASE Transfer!landPreview(c)
  <2>1. /\ c.kind = "preview" /\ s12.step = 3 /\ c.job = s12.job /\ c.job \in DOMAIN s15
        /\ (Transfer!Done(c) => c.out = Transfer!Would(c.job))
    BY <1>0, <1>3 DEF Transfer!landPreview, Transfer!CallOfStep, Transfer!Done
  <2>2. CASE Transfer!Done(c)
    <3>1. s12' = [s12 EXCEPT !.prevBusy = FALSE, !.prev = c.out, !.step = 3]
      BY <1>3, <2>2 DEF Transfer!landPreview
    <3>2. /\ s12'.step = 3 /\ s12'.job = s12.job /\ s12'.map = s12.map /\ s12'.res = s12.res
             /\ s12'.prev = Transfer!Would(s12.job)
      BY <1>0, <2>1, <2>2, <3>1 DEF Transfer!WizardShape
    <3>b. s12' = [step |-> s12'.step, file |-> s12'.file, uploading |-> s12'.uploading, job |-> s12'.job,
              map |-> s12'.map, res |-> s12'.res,
              mapBusy |-> s12'.mapBusy, prev |-> s12'.prev, prevBusy |-> s12'.prevBusy, done |-> s12'.done,
              committing |-> s12'.committing]
      BY <1>0, <3>1 DEF Transfer!WizardShape
    <3>c. Transfer!Would(s12.job) \in Transfer!Pairs /\ s12.job # 0
      <4>1. s15 \in Seq(Transfer!Job)
        BY DEF Transfer!WizardInv, Transfer!JobsMade
      <4>2. s15[s12.job] \in Transfer!Job /\ s12.job # 0
        BY <2>1, <4>1, ElementOfSeq
      <4> QED BY <4>2 DEF Transfer!Would, Transfer!Pairs, Transfer!Job
    <3>3. Transfer!WizardShape' /\ Transfer!PreviewTrue'
      BY <1>0, <2>1, <2>2, <3>2, <3>b, <3>c DEF Transfer!WizardShape, Transfer!PreviewTrue, Transfer!Would
    <3> QED BY <1>0, <2>1, <2>2, <3>2, <3>3, AnsweredStep
  <2>3. CASE ~Transfer!Done(c)
    <3>1. s12' = [s12 EXCEPT !.prevBusy = FALSE]
      BY <1>3, <2>3 DEF Transfer!landPreview
    <3>2. s12'.step = s12.step /\ s12'.job = s12.job /\ s12'.prev = s12.prev /\ Transfer!WizardShape'
      BY <1>0, <3>1 DEF Transfer!WizardShape
    <3>3. Transfer!PreviewTrue'
      BY <1>0, <3>2 DEF Transfer!PreviewTrue, Transfer!Would
    <3> QED BY <1>0, <3>2, <3>3, AnsweredStep
  <2> QED BY <2>2, <2>3
<1>4. CASE Transfer!landCommit(c)
  <2>1. s12' = [s12 EXCEPT !.committing = FALSE, !.done = @ \/ Transfer!Done(c)]
    BY <1>4 DEF Transfer!landCommit
  <2>2. s12'.step = s12.step /\ s12'.job = s12.job /\ s12'.prev = s12.prev /\ s12'.map = s12.map
        /\ s12'.res = s12.res
    BY <1>0, <2>1 DEF Transfer!WizardShape
  <2>b. s12' = [step |-> s12'.step, file |-> s12'.file, uploading |-> s12'.uploading, job |-> s12'.job,
            map |-> s12'.map, res |-> s12'.res,
              mapBusy |-> s12'.mapBusy, prev |-> s12'.prev, prevBusy |-> s12'.prevBusy, done |-> s12'.done,
              committing |-> s12'.committing]
    BY <1>0, <2>1 DEF Transfer!WizardShape
  <2>3. Transfer!WizardShape' /\ Transfer!PreviewTrue'
    BY <1>0, <2>2, <2>b DEF Transfer!WizardShape, Transfer!PreviewTrue, Transfer!Would
  <2> QED BY <1>0, <2>2, <2>3, AnsweredStep
<1> QED BY <1>1, <1>2, <1>3, <1>4

(* A mapping saved shows no rows until its preview is read.                          *)
LEMMA MappingAnswered ==
    ASSUME Transfer!WizardInv, NEW c \in s13, Transfer!landMapping(c)
    PROVE  Transfer!WizardInv'
<1>0. /\ Transfer!WizardShape /\ Transfer!PreviewTrue
         /\ (s12.job # 0 /\ s15[s12.job].status = "completed" => s12.step = 4)
      /\ UNCHANGED <<s15, s16>> /\ s13 = {c} /\ Transfer!CallOfStep(c) /\ c.kind = "map" /\ Transfer!opened
  BY DEF Transfer!WizardInv, Transfer!ImportedStay, Transfer!Answer, Transfer!landMapping
<1>1. /\ s12.step = 2 /\ c.job = s12.job /\ s12.job \in DOMAIN s15 /\ s12.job # 0
      /\ s15[s12.job].status # "completed"
  <2>1. s12.job \in DOMAIN s15 /\ s12.step = 2 /\ c.job = s12.job
    BY <1>0 DEF Transfer!CallOfStep
  <2>2. 0 \notin DOMAIN s15
    BY DEF Transfer!WizardInv, Transfer!JobsMade
  <2> QED BY <1>0, <2>1, <2>2
<1>2. CASE ~Transfer!Done(c)
  <2>1. s13' = {} /\ s12' = [s12 EXCEPT !.mapBusy = FALSE]
    BY <1>0, <1>2 DEF Transfer!landMapping
  <2>2. s12'.step = s12.step /\ s12'.job = s12.job /\ s12'.prev = s12.prev /\ Transfer!WizardShape'
    BY <1>0, <2>1 DEF Transfer!WizardShape
  <2>3. Transfer!PreviewTrue'
    BY <1>0, <2>2 DEF Transfer!PreviewTrue, Transfer!Would
  <2> QED BY <1>0, <2>1, <2>2, <2>3, AnsweredStep
<1>3. CASE Transfer!Done(c)
  <2>1. /\ Transfer!runPreview(c)
        /\ s12' = [s12 EXCEPT !.mapBusy = FALSE, !.prev = <<>>, !.done = FALSE, !.step = 3, !.prevBusy = @
               \/ s12.job # 0]
    BY <1>0, <1>1, <1>3 DEF Transfer!landMapping
  <2>2. s12'.step = 3 /\ s12'.job = s12.job /\ s12'.prev = <<>> /\ s12'.prevBusy /\ s12'.map = s12.map
        /\ s12'.res = s12.res
    BY <1>0, <1>1, <2>1 DEF Transfer!WizardShape
  <2>b. s12' = [step |-> s12'.step, file |-> s12'.file, uploading |-> s12'.uploading, job |-> s12'.job,
            map |-> s12'.map, res |-> s12'.res,
              mapBusy |-> s12'.mapBusy, prev |-> s12'.prev, prevBusy |-> s12'.prevBusy, done |-> s12'.done,
              committing |-> s12'.committing]
    BY <1>0, <2>1 DEF Transfer!WizardShape
  <2>3. Transfer!WizardShape' /\ Transfer!PreviewTrue' /\ s15[s12'.job].status # "completed"
    BY <1>0, <1>1, <2>2, <2>b DEF Transfer!WizardShape, Transfer!PreviewTrue
  <2>4. CASE s12.prevBusy
    <3>1. s13' = {}
      BY <1>0, <2>1, <2>4 DEF Transfer!runPreview
    <3> QED BY <1>0, <2>3, <3>1, AnsweredStep
  <2>5. CASE ~s12.prevBusy
    <3>1. Transfer!Sent(s13 \ {c}, "preview", s12.job, 0, s12.res, 0) /\ s13 \ {c} = {}
      BY <1>0, <2>1, <2>5 DEF Transfer!runPreview
    <3>2. PICK d : /\ s13' = {d} /\ Transfer!CallShape(d) /\ d.kind = "preview" /\ d.state = "sent"
                      /\ d.job = s12.job
                   /\ {d.map, d.res} \subseteq Int
      <4> DEFINE e == [kind |-> "preview", n |-> s14', state |-> "sent", job |-> s12.job, map |-> 0,
              res |-> s12.res, out |-> 0]
      <4>1. s13' = {e}
        BY <3>1 DEF Transfer!Sent
      <4>2. Transfer!CallShape(e) /\ e.kind = "preview" /\ e.state = "sent" /\ e.job = s12.job /\ e.map = 0
            /\ e.res = s12.res
        BY DEF Transfer!CallShape
      <4>3. s12.res \in Int
        BY <1>0 DEF Transfer!WizardShape
      <4> HIDE DEF e
      <4> QED BY <4>1, <4>2, <4>3
    <3>3. Transfer!CallOfStep(d)'
      BY <1>0, <1>1, <2>2, <3>2 DEF Transfer!CallOfStep, Transfer!CallShape
    <3> QED BY <1>0, <2>3, <3>2, <3>3, SentStep
  <2> QED BY <2>4, <2>5
<1> QED BY <1>2, <1>3

(* What the pipeline does leaves the wizard alone.                                 *)
LEMMA WizardStill == Transfer!WizardInv /\ UNCHANGED Transfer!wizardVars => Transfer!WizardInv'
<1> SUFFICES ASSUME Transfer!WizardInv, UNCHANGED Transfer!wizardVars PROVE Transfer!WizardInv'
  OBVIOUS
<1>1. UNCHANGED <<s12, s13, s15, s16>>
  BY DEF Transfer!wizardVars
<1>2. Transfer!WizardShape' /\ Transfer!JobsMade' /\ Transfer!PreviewTrue' /\ Transfer!ImportedStay'
      /\ Transfer!CommitAsShown' /\ Transfer!ImportedOnce'
  BY <1>1 DEF Transfer!WizardInv, Transfer!WizardShape, Transfer!JobsMade, Transfer!PreviewTrue,
       Transfer!ImportedStay, Transfer!CommitAsShown, Transfer!ImportedOnce, Transfer!Would
<1>3. \A c \in s13 : Transfer!CallOfStep(c)'
  BY <1>1 DEF Transfer!WizardInv, Transfer!CallOfStep, Transfer!CallShape, Transfer!opened, Transfer!Would
<1> QED BY <1>1, <1>2, <1>3 DEF Transfer!WizardInv

(* Every step of the wizard keeps WizardInv.                                       *)
LEMMA WizardNext == ASSUME Transfer!WizardInv, [Transfer!Next]_(Transfer!vars) PROVE Transfer!WizardInv'
<1>1. CASE Transfer!Next
  <2>1. CASE s1 = "import"
    <3>1. \/ Transfer!open \/ Transfer!close \/ Transfer!pickFile \/ Transfer!onBack \/ Transfer!mapColumn
             \/ Transfer!setResolution
          \/ Transfer!runUpload \/ Transfer!runSetMapping \/ Transfer!runCommit
          \/ \E c \in s13 : \/ Transfer!serve(c) \/ Transfer!refuseCall(c) \/ Transfer!drop(c)
                            \/ Transfer!landUpload(c) \/ Transfer!landMapping(c) \/ Transfer!landPreview(c)
                               \/ Transfer!landCommit(c)
      BY <1>1, <2>1
         DEF Transfer!Next, Transfer!File, Transfer!preflight, Transfer!refuse, Transfer!landPreflight,
              Transfer!landFile, Transfer!landAttachment, Transfer!leave, Transfer!landPost, Transfer!failPost,
              Transfer!reap,
             Transfer!Menu, Transfer!closeMenu, Transfer!toggleDeleted, Transfer!toggleFiles, Transfer!runExport,
                  Transfer!openExport, Transfer!pickFormat, Transfer!landExport, Transfer!failExport
    <3> QED BY <3>1, WizardLocal, WizardSends, CallServed, CallRefused, AnsweredSteps, MappingAnswered
  <2>2. CASE s1 # "import"
    <3>1. UNCHANGED Transfer!wizardVars
      BY <1>1, <2>2
         DEF Transfer!Next, Transfer!File, Transfer!preflight, Transfer!refuse, Transfer!landPreflight,
              Transfer!landFile, Transfer!landAttachment, Transfer!leave, Transfer!landPost, Transfer!failPost,
              Transfer!reap,
             Transfer!Wizard, Transfer!Local, Transfer!Menu, Transfer!open, Transfer!close, Transfer!pickFile,
                  Transfer!onBack, Transfer!mapColumn, Transfer!setResolution, Transfer!runUpload,
                  Transfer!runSetMapping,
             Transfer!runCommit, Transfer!serve, Transfer!refuseCall, Transfer!Answer, Transfer!drop,
                  Transfer!landUpload, Transfer!landMapping, Transfer!landPreview, Transfer!landCommit,
             Transfer!closeMenu, Transfer!toggleDeleted, Transfer!toggleFiles, Transfer!runExport,
                  Transfer!openExport, Transfer!pickFormat, Transfer!landExport, Transfer!failExport
    <3> QED BY <3>1, WizardStill
  <2> QED BY <2>1, <2>2
<1>2. CASE UNCHANGED Transfer!vars
  BY <1>2, WizardStill DEF Transfer!vars
<1> QED BY <1>1, <1>2

(* Inv holds when the page opens.                                                  *)
LEMMA TransfersBegin == Transfer!Init => Transfer!Inv
  BY PipelineBegins, WizardBegins DEF Transfer!Inv

(* Every step keeps Inv.                                                           *)
LEMMA TransfersStep == ASSUME Transfer!Inv, [Transfer!Next]_(Transfer!vars) PROVE Transfer!Inv'
  BY PipelineNext, WizardNext DEF Transfer!Inv

(* Inv holds the transfers' conjuncts of MadeWhole.                                *)
LEMMA TransfersWhole == Transfer!Inv => Transfer!UploadWhole /\ Transfer!CommitAsShown /\ Transfer!ImportedOnce
  BY PipelineWhole DEF Transfer!Inv, Transfer!WizardInv

-----------------------------------------------------------------------------
(* The user's own screens and addresses (myscreens/, shell/account-emails.ts): one     *)
(* call is out.                                                                        *)
(* Here s1 is panel, s2 is calls, s5 is list, s6 is views, s10 is forms, s11 is      *)
(* inputs, s12 is screens, s14 is shown, s15 is busy.                                *)

(* Inv holds when the page opens.                                                  *)
LEMMA MineBegins == Personal!Init => Personal!Inv
  BY DEF Personal!Init, Personal!Inv

(* Inv holds the page's conjunct of MadeWhole.                                     *)
LEMMA MineWhole == Personal!Inv => Personal!WrittenOnce
  BY DEF Personal!Inv, Personal!WrittenOnce

(* With no write out, the one sent is the only one.                                *)
LEMMA OneWritten == ASSUME NEW after, after = {}, NEW c, Personal!Sent(after, c) PROVE \A d, e \in s2' : d = e
  BY DEF Personal!Sent

(* A user who waits asks with nothing out.                                         *)
LEMMA MineAsked ==
    ASSUME Personal!Inv,
           \/ Personal!openNew
           \/ \E k \in DOMAIN s12 : Personal!settings(k)
           \/ \E k \in DOMAIN s10 : Personal!cancel(k) \/ Personal!typeTitle(k) \/ Personal!save(k)
              \/ Personal!remove(k)
           \/ \E i \in DOMAIN s5, delta \in {-1, 1} : Personal!move(i, delta)
           \/ \E v \in s6 : Personal!renameView(v) \/ Personal!deleteView(v)
           \/ \E w \in s11 : Personal!typeView(w) \/ Personal!saveView(w)
    PROVE  Personal!Inv'
<1>1. s2 = {} /\ s1 = "screens" /\ s1' = s1
  BY DEF Personal!Step, Personal!Here, Personal!Quiet, Personal!openNew, Personal!settings, Personal!cancel,
       Personal!typeTitle, Personal!save, Personal!remove, Personal!move, Personal!renameView, Personal!deleteView,
       Personal!typeView, Personal!saveView
<1>2. Personal!Orphaned(s2) = {}
  BY <1>1 DEF Personal!Orphaned
<1>3. s2' = {} \/ \E c : Personal!Sent({}, c)
  BY <1>1, <1>2 DEF Personal!Repaint, Personal!openNew, Personal!settings, Personal!cancel, Personal!typeTitle,
       Personal!save, Personal!remove, Personal!move, Personal!renameView, Personal!deleteView, Personal!typeView,
       Personal!saveView
<1> QED BY <1>1, <1>3, OneWritten DEF Personal!Inv

(* An answer ends the one write that is out.                                       *)
LEMMA MineAnswered ==
    ASSUME Personal!Inv, NEW c \in s2,
           Personal!serve(c) \/ Personal!fail(c) \/ Personal!landLoad(c) \/ Personal!landSaved(c)
           \/ Personal!landCreated(c) \/ Personal!landRename(c) \/ Personal!landQuiet(c)
    PROVE  Personal!Inv'
<1>1. s2 = {c} /\ s1 = "screens" /\ s1' = s1
  BY DEF Personal!Inv, Personal!Here, Personal!Answer, Personal!serve, Personal!fail, Personal!landLoad,
       Personal!landSaved, Personal!landCreated, Personal!landRename, Personal!landQuiet
<1>2. CASE Personal!serve(c)
  BY <1>1, <1>2 DEF Personal!Inv, Personal!serve, Personal!Served, Personal!serveLoad, Personal!serveCreate,
       Personal!serveSet, Personal!serveMove, Personal!serveRemove, Personal!serveView
<1>3. CASE Personal!fail(c)
  BY <1>1, <1>3, OneWritten DEF Personal!Inv, Personal!fail, Personal!load
<1>4. CASE Personal!landLoad(c)
  BY <1>1, <1>4 DEF Personal!Inv, Personal!landLoad, Personal!Orphaned
<1>5. CASE Personal!landSaved(c) \/ Personal!landRename(c)
  BY <1>1, <1>5, OneWritten DEF Personal!Inv, Personal!landSaved, Personal!landRename, Personal!load
<1>6. CASE Personal!landCreated(c)
  <2>1. Personal!load({})
    BY <1>1, <1>6 DEF Personal!landCreated
  <2> QED BY <1>1, <2>1, OneWritten DEF Personal!Inv, Personal!load
<1>7. CASE Personal!landQuiet(c)
  BY <1>1, <1>7 DEF Personal!Inv, Personal!landQuiet
<1> QED BY <1>2, <1>3, <1>4, <1>5, <1>6, <1>7

(* An address is written with nothing out, as the list was read since the last write.        *)
LEMMA AddressSteps ==
    ASSUME Personal!Inv,
           \/ Personal!addEmail
           \/ \E e \in OwnEmails : Personal!typeEmail(e)
           \/ \E a \in s14, kind \in {"primary", "drop", "verify", "add"} : Personal!changeEmail(a, kind)
           \/ \E c \in s2 : Personal!serveEmail(c) \/ Personal!landEmails(c) \/ Personal!landWrite(c)
              \/ Personal!failEmail(c)
    PROVE  Personal!Inv'
<1>1. s1 = "emails" /\ s1' = s1
  BY DEF Personal!There, Personal!addEmail, Personal!typeEmail, Personal!changeEmail, Personal!serveEmail,
       Personal!landEmails, Personal!landWrite, Personal!failEmail
<1>2. ASSUME NEW kind, NEW e, Personal!write(kind, e) PROVE Personal!Inv'
  <2>1. s2 = {} /\ s15'
    BY <1>1, <1>2 DEF Personal!Inv, Personal!write
  <2>2. \E c : Personal!Sent(s2, c)
    BY <1>2 DEF Personal!write
  <2> QED BY <2>1, <2>2, OneWritten DEF Personal!Inv
<1>3. ASSUME NEW e, Personal!typeEmail(e) PROVE Personal!Inv'
  BY <1>3, <1>1 DEF Personal!Inv, Personal!typeEmail
<1>4. ASSUME NEW c \in s2, Personal!serveEmail(c) PROVE Personal!Inv'
  BY <1>1, <1>4 DEF Personal!Inv, Personal!serveEmail
<1>5. ASSUME NEW c \in s2, Personal!landEmails(c) \/ Personal!failEmail(c) PROVE Personal!Inv'
  BY <1>1, <1>5 DEF Personal!Inv, Personal!landEmails, Personal!failEmail
<1>6. ASSUME NEW c \in s2, Personal!landWrite(c) PROVE Personal!Inv'
  <2>1. (s15 \/ s14 = {}) /\ UNCHANGED <<s15, s14>> /\ s2 \ {c} = {}
    BY <1>1, <1>6 DEF Personal!Inv, Personal!landWrite, Personal!mailVars
  <2>2. \E d : Personal!Sent(s2 \ {c}, d)
    BY <1>6 DEF Personal!landWrite, Personal!loadEmails
  <2> QED BY <1>1, <2>1, <2>2, OneWritten DEF Personal!Inv
<1> QED BY <1>2, <1>3, <1>4, <1>5, <1>6 DEF Personal!addEmail, Personal!changeEmail

(* Every step of the page keeps Inv.                                               *)
LEMMA MineStep == ASSUME Personal!Inv, [Personal!Next]_(Personal!vars) PROVE Personal!Inv'
<1>1. CASE Personal!Next
  BY <1>1, MineAsked, MineAnswered, AddressSteps DEF Personal!Next
<1>2. CASE UNCHANGED Personal!vars
  BY <1>2 DEF Personal!vars, Personal!mailVars, Personal!Inv
<1> QED BY <1>1, <1>2

-----------------------------------------------------------------------------
(* The pages together: a step of AnswersNext is one of its part's own, or leaves all   *)
(* the slots as they are.                                                              *)
LEMMA InitAnswers == AnswersInit => AnswersInv
  BY GridBegins, BoardBegins, HastyBoardBegins, ProjectBegins, RecordsBegin, MailBegins,
     EntryBegins, HastyOnceBegins, TransfersBegin, MineBegins
     DEF AnswersInit, AnswersInv

(* Each part has a step of its own, or none.                                        *)
LEMMA StepOfPart ==
    ASSUME [AnswersNext]_vars
    PROVE  /\ part' = part
           /\ part = "grid" => [Table!Next]_(Table!vars)
           /\ part = "board" => [Board!Next]_(Board!vars)
           /\ part = "hasty board" => [HastyBoard!Next]_(HastyBoard!vars)
           /\ part = "project" => [OneProject!Next]_(OneProject!vars)
           /\ part = "records" => [Records!Next]_(Records!vars)
           /\ part = "mail" => [Mail!Next]_(Mail!vars)
           /\ part = "entry" => [Entry!Next]_(Entry!vars)
           /\ part = "hasty entry" => [HastyEntry!Next]_(HastyEntry!vars)
           /\ part = "transfers" => [Transfer!Next]_(Transfer!vars)
           /\ part = "mine" => [Personal!Next]_(Personal!vars)
<1>1. CASE AnswersNext
  BY <1>1 DEF AnswersNext
<1>2. CASE UNCHANGED vars
  <2>1. part' = part /\ UNCHANGED Table!vars
    BY <1>2 DEF vars, Table!vars, Table!queryVars, Table!selVars
  <2>2. UNCHANGED Board!vars /\ UNCHANGED HastyBoard!vars
    BY <1>2 DEF vars, Board!vars, Board!cursorVars, HastyBoard!vars, HastyBoard!cursorVars
  <2>3. UNCHANGED OneProject!vars
    BY <1>2 DEF vars, OneProject!vars, OneProject!pageVars, OneProject!panelVars, OneProject!areaVars,
       OneProject!server
  <2>4. UNCHANGED Records!vars
    BY <1>2 DEF vars, Records!vars, Records!formVars, Records!fileVars
  <2>5. UNCHANGED Mail!vars
    BY <1>2 DEF vars, Mail!vars, Mail!pageVars, Mail!jobVars
  <2>6. UNCHANGED Entry!vars /\ UNCHANGED HastyEntry!vars
    BY <1>2 DEF vars, Entry!vars, HastyEntry!vars
  <2>7. UNCHANGED Transfer!vars
    BY <1>2 DEF vars, Transfer!vars, Transfer!fileVars, Transfer!wizardVars, Transfer!menuVars
  <2>8. UNCHANGED Personal!vars
    BY <1>2 DEF vars, Personal!vars, Personal!pageVars, Personal!mailVars
  <2> QED BY <2>1, <2>2, <2>3, <2>4, <2>5, <2>6, <2>7, <2>8
<1> QED BY <1>1, <1>2

(* So the invariant is inductive,                                                   *)
LEMMA NextAnswers == AnswersInv /\ [AnswersNext]_vars => AnswersInv'
  BY StepOfPart, GridStep, BoardStep, HastyBoardStep, ProjectStep, RecordsStep, MailStep,
     EntryStep, HastyOnceStep, TransfersStep, MineStep DEF AnswersInv

(* and has the properties.                                                          *)
LEMMA InvAnswers == AnswersInv => OwnAnswers
  BY RecordsFilesOwn DEF AnswersInv, OwnAnswers, Table!Inv, OneProject!Inv, Mail!Inv

(* A late answer is never shown in another row, card, project, theme or account than   *)
(* the one it was asked for (grid/grid.ts, kanban/kanban.ts, areas/area-switches.ts,   *)
(* admin/theme-files.ts, mailin/comm-routes.ts).                                       *)
THEOREM LateAnswersOwn == AnswersSpec => []OwnAnswers
  BY InitAnswers, NextAnswers, InvAnswers, PTL DEF AnswersSpec

(* The parts' invariants hold every conjunct of MadeWhole.                         *)
LEMMA InvMade == AnswersInv => MadeWhole
  BY EntryWhole, TransfersWhole, MineWhole DEF AnswersInv, MadeWhole, HastyEntry!OnceInv

(* A form makes one card, with the description, the tag and the files it held when it   *)
(* was submitted; an upload that is done has made the file's content, and fails for a    *)
(* cause outside only; an import does once what its preview showed; one address is     *)
(* written at a time (quick-entry/quick-entry.ts, task-detail/upload.ts,               *)
(* import/import-wizard.ts, shell/account-emails.ts).                                  *)
THEOREM SubmissionsWhole == AnswersSpec => []MadeWhole
  BY InitAnswers, NextAnswers, InvMade, PTL DEF AnswersSpec
=============================================================================

------------------------------ MODULE Comments ------------------------------
(***************************************************************************)
(* A card's comments and its activity feed (task-detail/task-comments.ts):   *)
(* one paged stream, read again after every write, feeds both; a comment is  *)
(* posted optimistically and edited in place.                               *)
(* The server's rows are numbered as they are written; Own is a comment of    *)
(* the user's that is there at the start.                                   *)
(***************************************************************************)
EXTENDS Integers, FiniteSets, FiniteSetsExt

CONSTANTS
    Own,        \* the id of a comment the user may edit
    Limit,      \* the rows of a page
    Old,        \* the rows there are at the start
    MaxRows,    \* bound: rows the server gets to
    MaxReads,   \* bound: reads of the stream
    Patient     \* whether the stream is read, and the user acts, one at a time

VARIABLES
    rows,        \* ids shown, -1 the comment being posted
    bodies,      \* what the shown comments say: id -> text
    loading, loadingMore, hasMore,
    draft,       \* the text in the composer, 0 when empty
    posting,     \* the text being posted, 0 when none
    edit,        \* the edit of Own: [text, busy], text 0 when not edited
    reads,       \* reads on their way: [id, append, before, page]
    asked,       \* number of reads so far
    writes,      \* writes on their way: [kind, text, done]
    texts,       \* number of texts typed so far
    missed,      \* whether a read has failed since the last one from the top
    stream,      \* the server's number of rows
    said         \* what the server's comments say: id -> text

vars == <<rows, bodies, loading, loadingMore, hasMore, draft, posting, edit, reads, asked, writes, texts, missed, stream, said>>
feedVars == <<rows, bodies, loading, loadingMore, hasMore>>
boxVars == <<draft, posting, edit, texts>>
readVars == <<reads, asked, missed>>
serverVars == <<stream, said>>

NoEdit == [text |-> 0, busy |-> FALSE]
Unread == {0}
oldestId == IF rows \ {-1} = {} THEN stream + 1 ELSE Min(rows \ {-1})

(* activity.select: the newest rows, or the newest older than a row.         *)
Page(before) == {r \in 1..stream : r < before /\ Cardinality({s \in r..stream : s < before}) <= Limit}
ServerReads(r) ==
    /\ r \in reads /\ r.page = Unread
    /\ reads' = (reads \ {r}) \cup {[r EXCEPT !.page = Page(r.before), !.said = said]}
    /\ UNCHANGED <<feedVars, boxVars, asked, missed, writes, serverVars>>

Free == Patient => reads = {} /\ writes = {}
Ask(append) ==
    /\ asked < MaxReads /\ asked' = asked + 1 /\ UNCHANGED missed
    /\ reads' = reads \cup {[id |-> asked', append |-> append, page |-> Unread, said |-> said,
                             before |-> IF append THEN oldestId ELSE MaxRows + 1]}

-----------------------------------------------------------------------------
(* loadActivity: from the top, or the page older than the oldest row shown.  *)
reload ==
    /\ Free /\ Ask(FALSE)
    /\ hasMore' = TRUE /\ loading' = TRUE
    /\ UNCHANGED <<rows, bodies, loadingMore, boxVars, writes, serverVars>>
loadMore ==
    /\ Free /\ hasMore /\ ~loadingMore /\ rows \ {-1} # {} /\ Ask(TRUE)
    /\ loadingMore' = TRUE
    /\ UNCHANGED <<rows, bodies, loading, hasMore, boxVars, writes, serverVars>>

(* A page from the top replaces what is shown, the comment being posted with  *)
(* it; an older one is merged in. A mutant merges both.                    *)
MergedAlways(r) == rows \cup r.page
Merged(r) == IF r.append THEN rows \cup r.page ELSE r.page
landActivity(r, ok) ==
    /\ r \in reads /\ (ok => r.page # Unread)
    /\ reads' = reads \ {r}
    /\ missed' = (~ok \/ (missed /\ r.append))
    /\ IF ~ok
       THEN loading' = FALSE /\ loadingMore' = FALSE /\ UNCHANGED <<rows, bodies, hasMore>>
       ELSE /\ rows' = Merged(r)
            /\ bodies' = [i \in {Own} \cup rows' |-> IF i \in r.page THEN r.said[i] ELSE IF i \in DOMAIN bodies THEN bodies[i] ELSE 0]
            /\ hasMore' = (hasMore /\ Cardinality(r.page) = Limit)
            /\ IF r.append THEN loadingMore' = FALSE /\ UNCHANGED loading ELSE loading' = FALSE /\ UNCHANGED loadingMore
    /\ UNCHANGED <<boxVars, asked, writes, serverVars>>

-----------------------------------------------------------------------------
(* The composer is locked while its text is posted.                         *)
type ==
    /\ posting = 0 /\ draft = 0
    /\ texts' = texts + 1 /\ draft' = texts' /\ texts < MaxRows - Old
    /\ UNCHANGED <<feedVars, posting, edit, readVars, writes, serverVars>>
postComment ==
    /\ Free /\ draft # 0 /\ posting = 0
    /\ posting' = draft /\ draft' = 0
    /\ rows' = rows \cup {-1}
    /\ bodies' = [i \in DOMAIN bodies \cup {-1} |-> IF i = -1 THEN draft ELSE bodies[i]]
    /\ writes' = writes \cup {[kind |-> "insert", text |-> draft, done |-> FALSE]}
    /\ UNCHANGED <<loading, loadingMore, hasMore, edit, texts, readVars, serverVars>>

startEdit ==
    /\ edit = NoEdit /\ Own \in rows
    /\ edit' = [text |-> bodies[Own], busy |-> FALSE]
    /\ UNCHANGED <<feedVars, draft, posting, texts, readVars, writes, serverVars>>
typeEdit ==
    /\ edit.text # 0 /\ ~edit.busy /\ texts < MaxRows - Old
    /\ texts' = texts + 1 /\ edit' = [edit EXCEPT !.text = texts']
    /\ UNCHANGED <<feedVars, draft, posting, readVars, writes, serverVars>>
cancelEdit ==
    /\ edit.text # 0 /\ ~edit.busy /\ edit' = NoEdit
    /\ UNCHANGED <<feedVars, draft, posting, texts, readVars, writes, serverVars>>
commitEdit ==
    /\ Free /\ edit.text # 0 /\ ~edit.busy
    /\ edit' = [edit EXCEPT !.busy = TRUE]
    /\ writes' = writes \cup {[kind |-> "update", text |-> edit.text, done |-> FALSE]}
    /\ UNCHANGED <<feedVars, draft, posting, texts, readVars, serverVars>>

(* The server writes a row for either, and other people write theirs.        *)
ServerWrites(w) ==
    /\ w \in writes /\ ~w.done /\ stream < MaxRows
    /\ writes' = (writes \ {w}) \cup {[w EXCEPT !.done = TRUE]}
    /\ stream' = stream + 1
    /\ said' = IF w.kind = "insert" THEN [said EXCEPT ![stream'] = w.text] ELSE [said EXCEPT ![Own] = w.text]
    /\ UNCHANGED <<feedVars, boxVars, readVars>>
Others ==
    /\ stream < MaxRows - 1 /\ stream' = stream + 1
    /\ UNCHANGED <<feedVars, boxVars, readVars, writes, said>>

(* A write that was done is followed by a read from the top; a refused comment *)
(* goes back to the composer, a refused edit to its editor.                  *)
landWrite(w) ==
    /\ w \in writes
    /\ writes' = writes \ {w}
    /\ IF w.kind = "insert"
       THEN /\ posting' = 0 /\ rows' = rows \ {-1}
            /\ bodies' = [i \in DOMAIN bodies \ {-1} |-> bodies[i]]
            /\ draft' = IF w.done THEN 0 ELSE w.text
            /\ UNCHANGED edit
       ELSE /\ edit' = IF w.done THEN NoEdit ELSE [edit EXCEPT !.busy = FALSE]
            /\ UNCHANGED <<posting, rows, bodies, draft>>
    /\ IF w.done THEN Ask(FALSE) /\ hasMore' = TRUE /\ loading' = TRUE
       ELSE UNCHANGED <<readVars, hasMore, loading>>
    /\ UNCHANGED <<loadingMore, texts, serverVars>>

-----------------------------------------------------------------------------
Init ==
    /\ rows = {} /\ bodies = [i \in {Own} |-> 0]
    /\ loading = TRUE /\ loadingMore = FALSE /\ hasMore = TRUE
    /\ draft = 0 /\ posting = 0 /\ edit = NoEdit /\ texts = 0
    /\ stream = Old /\ said = [i \in 1..MaxRows |-> IF i = Own THEN -1 ELSE 0]
    /\ reads = {[id |-> 1, append |-> FALSE, page |-> Unread, said |-> said, before |-> MaxRows + 1]}
    /\ asked = 1 /\ missed = FALSE /\ writes = {}
Next ==
    \/ reload \/ loadMore \/ type \/ postComment \/ startEdit \/ typeEdit \/ cancelEdit \/ commitEdit \/ Others
    \/ \E r \in reads : ServerReads(r) \/ landActivity(r, TRUE) \/ landActivity(r, FALSE)
    \/ \E w \in writes : ServerWrites(w) \/ landWrite(w)
Spec == Init /\ [][Next]_vars

-----------------------------------------------------------------------------
TypeOK ==
    /\ rows \subseteq {-1} \cup 1..stream /\ {loading, loadingMore, hasMore} \subseteq BOOLEAN
    /\ {draft, posting} \subseteq 0..texts /\ -1 \in rows => posting # 0

(* The feed has no hole: no row between two that are shown is missing, and no  *)
(* older row is left when the feed offers no more (task-comments.ts:406).     *)
FeedWhole ==
    LET shown == rows \ {-1} IN
    /\ \A a, b \in shown : \A r \in a..b : r \in shown
    /\ shown # {} /\ ~hasMore => 1 \in shown

(* A text that was typed and not said yet stays in a box or on its way, unless *)
(* an edit is given up (task-comments.ts:423 copies it before a repaint).     *)
Unsaid == {draft, posting, edit.text} \cup {w.text : w \in {v \in writes : ~v.done}}
TextsKeptStep ==
    \A t \in Unsaid \ Unsaid' : t = 0 \/ (t = edit.text /\ ~edit.busy) \/ \E i \in 1..MaxRows : said[i]' = t
TextsKept == [][TextsKeptStep]_vars

(* With nothing on its way and no read failed, the comments that are shown say  *)
(* what they say on the server.                                           *)
CommentsShown == reads = {} /\ writes = {} /\ ~missed => \A i \in rows : bodies[i] = said[i]
=============================================================================

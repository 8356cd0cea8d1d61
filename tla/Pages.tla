------------------------------- MODULE Pages -------------------------------
(***************************************************************************)
(* A page's place in its site: the tree of a project's pages as the page's own view     *)
(* shows and changes it (pages/page-structure.ts, new-page-button.ts, and what it     *)
(* says of the published copies, page-publications.ts), while other users move pages    *)
(* too, each move its own transaction (card_move_batch.sql). The view is of page 1;     *)
(* 0 is the project.                                                             *)
(***************************************************************************)
EXTENDS Integers, SequencesExt

CONSTANTS
    Start,                         \* the parents of the pages there are at first
    MaxPages, MaxCalls, MaxOthers, \* bounds: pages ever made, calls sent, steps of other users
    Races                          \* whether moves may overlap on the server

VARIABLES
    parent, sort, hidden, current, \* the server's pages; current: the copy published of page 1 is as it is now
    moves,                         \* the moves checked and not committed yet
    nodes, loaded, busy, error, adding, pubs, \* the view
    calls, asked, missed, others, stale \* stale: others changed something since the view was read

siteVars == <<parent, sort, hidden, current, moves>>
viewVars == <<nodes, loaded, busy, error, adding, pubs>>
vars == <<siteVars, viewVars, calls, asked, missed, others, stale>>

Self == 1
Pages == DOMAIN parent
PageNodes == [p \in Pages |-> [parent |-> parent[p], sort |-> sort[p], hidden |-> hidden[p]]]

(* The parent walk of card_ancestors, and the view's subtreeIds.                   *)
Walk(from, Step(_)) == LET f[k \in 0..MaxPages] == IF k = 0 THEN {from} ELSE LET s == f[k - 1] IN s \cup Step(s) IN f[MaxPages]
Ancestors(p) == Walk(p, LAMBDA s : {parent[q] : q \in s \ {0}})
subtreeIds(id) == Walk(id, LAMBDA s : {q \in DOMAIN nodes : nodes[q].parent \in s})

siteOrder(ids) == SetToSortSeq(ids, LAMBDA a, b : nodes[a].sort < nodes[b].sort \/ (nodes[a].sort = nodes[b].sort /\ a < b))
Kids == siteOrder({p \in DOMAIN nodes : nodes[p].parent = Self})
(* All the siblings are numbered again, and the changed ones written.             *)
reorderWrites(siblings, i, j) ==
    LET order == [siblings EXCEPT ![i] = siblings[j], ![j] = siblings[i]]
    IN  {[id |-> order[k], sort |-> 10 * k] : k \in {m \in DOMAIN order : nodes[order[m]].sort # 10 * m}}

Call(kind) == [kind |-> kind, state |-> "sent", n |-> asked, to |-> 0, writes |-> {}, nodes |-> <<>>, current |-> TRUE]
Sent(after, c) == asked < MaxCalls /\ asked' = asked + 1 /\ calls' = after \cup {c}

-----------------------------------------------------------------------------
(* The user's steps. Each write disables the controls until the reload after it.     *)
View == UNCHANGED siteVars /\ UNCHANGED <<others, stale, missed>>
write(c) ==
    /\ View /\ loaded /\ ~busy /\ busy' = TRUE /\ error' = FALSE
    /\ Sent(calls, c) /\ UNCHANGED <<nodes, loaded, adding, pubs>>
moveUnder(to) ==
    /\ loaded /\ to \in ({0} \cup DOMAIN nodes) \ subtreeIds(Self) /\ to # nodes[Self].parent
    /\ write([Call("move") EXCEPT !.to = to])
reorder(i, dir) ==
    /\ loaded /\ {i, i + dir} \subseteq DOMAIN Kids
    /\ write([Call("sort") EXCEPT !.writes = reorderWrites(Kids, i, i + dir)])
setFlag == loaded /\ write([Call("flag") EXCEPT !.to = IF nodes[Self].hidden THEN 0 ELSE 1])
addChild == \* its own button only, and then the new page opens
    /\ View /\ loaded /\ ~busy /\ ~adding /\ adding' = TRUE
    /\ Sent(calls, Call("add")) /\ UNCHANGED <<nodes, loaded, busy, error, pubs>>

-----------------------------------------------------------------------------
(* The server. A move locks its page, checks that it closes no cycle, and writes;      *)
(* another page's move may commit between its check and its write.                  *)
CheckMove(p, to) ==
    /\ (~Races => moves = {}) /\ ~\E m \in moves : m.page = p
    /\ to = 0 \/ p \notin Ancestors(to)
beginMove(c) ==
    /\ c \in calls /\ c.kind = "move" /\ c.state = "sent" /\ CheckMove(Self, c.to)
    /\ moves' = moves \cup {[page |-> Self, to |-> c.to]} /\ calls' = (calls \ {c}) \cup {[c EXCEPT !.state = "moving"]}
    /\ UNCHANGED <<parent, sort, hidden, current, asked, missed, others, stale>> /\ UNCHANGED viewVars
otherMove(p, to) ==
    /\ others < MaxOthers /\ others' = others + 1 /\ p # to /\ CheckMove(p, to)
    /\ moves' = moves \cup {[page |-> p, to |-> to]} /\ UNCHANGED <<parent, sort, hidden, current, calls, asked, missed, stale>> /\ UNCHANGED viewVars
commitMove(m) ==
    /\ m \in moves /\ moves' = moves \ {m} /\ parent' = [parent EXCEPT ![m.page] = m.to]
    /\ LET own == {c \in calls : c.kind = "move" /\ c.state = "moving" /\ m.page = Self}
       IN  calls' = (calls \ own) \cup {[c EXCEPT !.state = "done"] : c \in own} /\ stale' = (stale \/ own = {})
    /\ current' = (current /\ m.page # Self) /\ UNCHANGED <<sort, hidden, asked, missed, others>> /\ UNCHANGED viewVars

Serve(c, kind, reply) == c \in calls /\ c.kind = kind /\ c.state = "sent" /\ calls' = (calls \ {c}) \cup {[reply EXCEPT !.state = "done"]}
              /\ UNCHANGED <<moves, asked, missed, others>> /\ UNCHANGED viewVars
serveLoad(c) == \* the pages and the copies, asked in one tick, are one batch
    Serve(c, "load", [c EXCEPT !.nodes = PageNodes, !.current = current]) /\ stale' = FALSE /\ UNCHANGED <<parent, sort, hidden, current>>
serveSort(c) == \* one batch, one transaction
    /\ Serve(c, "sort", c) /\ UNCHANGED <<parent, hidden, current, stale>>
    /\ sort' = [p \in Pages |-> IF \E w \in c.writes : w.id = p THEN (CHOOSE w \in c.writes : w.id = p).sort ELSE sort[p]]
serveFlag(c) == Serve(c, "flag", c) /\ hidden' = [hidden EXCEPT ![Self] = c.to = 1] /\ current' = FALSE /\ UNCHANGED <<parent, sort, stale>>
newPage(under) == parent' = Append(parent, under) /\ sort' = Append(sort, 0) /\ hidden' = Append(hidden, FALSE)
serveAdd(c) == Len(parent) < MaxPages /\ Serve(c, "add", c) /\ newPage(Self) /\ UNCHANGED <<current, stale>>
otherPublish ==
    /\ others < MaxOthers /\ others' = others + 1 /\ ~current /\ current' = TRUE /\ stale' = TRUE
    /\ UNCHANGED <<parent, sort, hidden, moves, calls, asked, missed>> /\ UNCHANGED viewVars

-----------------------------------------------------------------------------
(* The answers. A write's, or its fault, reads the pages and the copies again.      *)
Answer(c, kind) == View /\ c \in calls /\ c.kind = kind /\ c.state = "done"
load(after) == Sent(after, Call("load"))
landLoad(c) ==
    /\ Answer(c, "load") /\ calls' = calls \ {c} /\ nodes' = c.nodes /\ loaded' = TRUE /\ busy' = FALSE /\ pubs' = c.current
    /\ UNCHANGED <<asked, error, adding>>
afterWrite(c) == (\E k \in {"move", "sort", "flag"} : Answer(c, k)) /\ load(calls \ {c}) /\ UNCHANGED viewVars
landAdd(c) == \* the new page's view takes this one's place
    /\ Answer(c, "add") /\ nodes' = <<>> /\ loaded' = FALSE /\ busy' = FALSE /\ error' = FALSE /\ adding' = FALSE /\ pubs' = TRUE
    /\ load({})
fail(c) ==
    /\ c \in calls /\ c.state = "sent" /\ UNCHANGED siteVars /\ UNCHANGED <<others, stale>>
    /\ missed' = (missed \/ c.kind = "load")
    /\ error' = (error \/ c.kind \in {"move", "sort", "flag"}) /\ adding' = (adding /\ c.kind # "add")
    /\ IF c.kind \in {"move", "sort", "flag"} THEN load(calls \ {c}) ELSE calls' = calls \ {c} /\ UNCHANGED asked
    /\ UNCHANGED <<nodes, loaded, busy, pubs>>

-----------------------------------------------------------------------------
Init ==
    /\ parent = Start /\ sort = [p \in DOMAIN Start |-> 0] /\ hidden = [p \in DOMAIN Start |-> FALSE] /\ current = TRUE /\ moves = {}
    /\ nodes = <<>> /\ loaded = FALSE /\ busy = FALSE /\ error = FALSE /\ adding = FALSE /\ pubs = TRUE
    /\ asked = 1 /\ missed = FALSE /\ others = 0 /\ stale = FALSE
    /\ calls = {[kind |-> k, state |-> "sent", n |-> 0, to |-> 0, writes |-> {}, nodes |-> <<>>, current |-> TRUE] : k \in {"load"}}

Next ==
    \/ \E to \in 0..MaxPages : moveUnder(to)
    \/ \E i \in 1..MaxPages, dir \in {-1, 1} : reorder(i, dir)
    \/ setFlag \/ addChild
    \/ \E c \in calls : beginMove(c) \/ serveLoad(c) \/ serveSort(c) \/ serveFlag(c) \/ serveAdd(c)
                        \/ landLoad(c) \/ afterWrite(c) \/ landAdd(c) \/ fail(c)
    \/ \E p \in Pages, to \in {0} \cup Pages : otherMove(p, to)
    \/ \E m \in moves : commitMove(m)
    \/ otherPublish

Spec == Init /\ [][Next]_vars

-----------------------------------------------------------------------------
(* The types of the tree and of the view.                                        *)
TypeOK ==
    /\ parent \in Seq(0..MaxPages) /\ sort \in Seq(0..10 * MaxPages) /\ DOMAIN nodes \subseteq Pages
    /\ moves \subseteq [page : Pages, to : {0} \cup Pages] /\ busy \in BOOLEAN

(* The pages stay a tree: every one reaches the project (card_move_batch.sql, the cycle   *)
(* guard).                                                                       *)
NoCycle == \A p \in Pages : 0 \in Ancestors(p)

(* Once a write and the reload after it are over, the view shows the tree there is,      *)
(* unless others changed it since; it says of the published copies what is so; and it    *)
(* is usable again, unless that reload was refused (page-structure.ts afterWrite).     *)
PlaceTrue ==
    calls = {} /\ ~missed =>
        /\ ~busy /\ ~adding
        /\ ~stale => nodes = PageNodes /\ pubs = current
=============================================================================

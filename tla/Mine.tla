-------------------------------- MODULE Mine --------------------------------
(***************************************************************************)
(* What a user keeps for themselves: the page of their own screens and views           *)
(* (myscreens/my-screens.ts, with its settings form, my-screen-settings.ts) and          *)
(* their addresses (shell/account-emails.ts). Each behaviour follows one (panel).       *)
(* A title is 0 or 1; an empty name in the form of a new screen is 0.               *)
(***************************************************************************)
EXTENDS Integers, Sequences, FiniteSets

CONSTANTS
    Orders,               \* the screens' places in Mine at the start, by id
    MaxScreens, MaxCalls, \* bounds: screens ever made, calls sent
    Emails,
    Patient               \* whether the user waits for each answer before the next step

VARIABLES
    panel,
    calls, asked, missed,
    list, views, loaded, editing, creating, forms, inputs, \* the page; forms: by screen, 0 the new one's; inputs: the renamings open
    screens, stored,                                       \* the server's screens and views
    shown, busy, adding, addresses                         \* the addresses shown, a write running, the one typed, the server's

pageVars == <<list, views, loaded, editing, creating, forms, inputs>>
mailVars == <<shown, busy, adding, addresses>>
vars == <<panel, calls, asked, missed, pageVars, screens, stored, mailVars>>

Here == panel = "screens" /\ UNCHANGED <<panel, mailVars>>
Quiet == Patient => calls = {}
Ids(s) == {s[i].id : i \in DOMAIN s}
(* my_screen.list: by place, then the oldest.                                      *)
Before(a, b) == a.order < b.order \/ (a.order = b.order /\ a.id < b.id)
Mine ==
    LET rows == {[id |-> i, order |-> screens[i].order, title |-> screens[i].title] : i \in {j \in DOMAIN screens : ~screens[j].gone}}
    IN  [n \in 1 .. Cardinality(rows) |-> CHOOSE r \in rows : Cardinality({q \in rows : Before(q, r)}) = n - 1]
myViewsOnShared == {[id |-> v, title |-> stored[v].title] : v \in {w \in DOMAIN stored : ~stored[w].gone}}

Call(kind) == [kind |-> kind, state |-> "sent", n |-> asked, id |-> 0, title |-> 0, place |-> 0, next |-> 0, dead |-> FALSE, rows |-> <<>>, views |-> {}]
Sent(after, c) == asked < MaxCalls /\ asked' = asked + 1 /\ calls' = after \cup {c}
load(after) == Sent(after, Call("load"))

(* A repaint builds the open forms again from their rows: what was typed is gone, and    *)
(* the answers to the old forms' calls are dropped.                               *)
Fresh(rows) == [k \in ({editing'} \cap Ids(rows)) \cup (IF creating' THEN {0} ELSE {}) |->
                  IF k = 0 THEN 0 ELSE rows[CHOOSE i \in DOMAIN rows : rows[i].id = k].title]
Orphaned(cs) == {[c EXCEPT !.dead = @ \/ c.kind \in {"create", "set", "remove"}] : c \in cs}
paint == forms' = Fresh(list') /\ inputs' = {}

-----------------------------------------------------------------------------
(* The page's own steps.                                                        *)
Step == Here /\ Quiet /\ UNCHANGED <<missed, screens, stored>>
Repaint == UNCHANGED <<asked, list, views, loaded>> /\ paint /\ calls' = Orphaned(calls)
settings(id) == Step /\ loaded /\ id \in Ids(list) /\ editing' = (IF editing = id THEN -1 ELSE id) /\ UNCHANGED creating /\ Repaint
openNew == Step /\ loaded /\ ~creating /\ creating' = TRUE /\ UNCHANGED editing /\ Repaint
cancel(k) ==
    /\ Step /\ k \in DOMAIN forms
    /\ (IF k = 0 THEN creating' = FALSE /\ UNCHANGED editing ELSE editing' = -1 /\ UNCHANGED creating)
    /\ Repaint
typeTitle(k) ==
    /\ Step /\ k \in DOMAIN forms /\ forms' = [forms EXCEPT ![k] = 1 - @]
    /\ UNCHANGED <<calls, asked, list, views, loaded, editing, creating, inputs>>
save(k) == \* nothing stops a second press
    /\ Step /\ k \in DOMAIN forms /\ (k = 0 => forms[k] = 1)
    /\ Sent(calls, [Call(IF k = 0 THEN "create" ELSE "set") EXCEPT !.id = k, !.title = forms[k]])
    /\ UNCHANGED pageVars
remove(k) == Step /\ k \in DOMAIN forms \ {0} /\ Sent(calls, [Call("remove") EXCEPT !.id = k]) /\ UNCHANGED pageVars

(* Swap a screen with its neighbour, both places written at once.                 *)
move(i, delta) ==
    LET j == i + delta
        a == list[i]
        b == list[j]
        ao == IF a.order = b.order THEN a.order + delta ELSE b.order
    IN  /\ Step /\ {i, j} \subseteq DOMAIN list
        /\ list' = [list EXCEPT ![i] = [b EXCEPT !.order = a.order], ![j] = [a EXCEPT !.order = ao]]
        /\ UNCHANGED <<views, loaded, editing, creating>> /\ paint
        /\ Sent(Orphaned(calls), [Call("move") EXCEPT !.id = a.id, !.place = ao, !.next = b.id, !.title = a.order])

renameView(v) ==
    /\ Step /\ ~\E w \in inputs : w.id = v.id
    /\ inputs' = inputs \cup {v} /\ UNCHANGED <<calls, asked, list, views, loaded, editing, creating, forms>>
typeView(w) ==
    /\ Step /\ inputs' = (inputs \ {w}) \cup {[w EXCEPT !.title = 1 - @]}
    /\ UNCHANGED <<calls, asked, list, views, loaded, editing, creating, forms>>
saveView(w) ==
    /\ Step /\ w \in inputs
    /\ IF w \in views THEN UNCHANGED <<editing, creating>> /\ Repaint
       ELSE Sent(calls, [Call("rename") EXCEPT !.id = w.id, !.title = w.title]) /\ UNCHANGED pageVars
deleteView(v) == \* only the views are painted again
    /\ Step /\ ~\E w \in inputs : w.id = v.id
    /\ views' = views \ {v} /\ inputs' = {} /\ UNCHANGED <<list, loaded, editing, creating, forms>>
    /\ Sent(calls, [Call("unview") EXCEPT !.id = v.id])

-----------------------------------------------------------------------------
(* The server's side.                                                           *)
Served(c, reply) == c.state = "sent" /\ calls' = (calls \ {c}) \cup {[reply EXCEPT !.state = "done"]}
LastOrder == LET s == Mine IN IF s = <<>> THEN 0 ELSE s[Len(s)].order
Live(i) == i \in DOMAIN screens /\ ~screens[i].gone
serveLoad(c) == c.kind = "load" /\ Served(c, [c EXCEPT !.rows = Mine, !.views = myViewsOnShared]) /\ UNCHANGED <<screens, stored>>
serveCreate(c) ==
    /\ c.kind = "create" /\ Len(screens) < MaxScreens
    /\ screens' = Append(screens, [order |-> LastOrder + 10, title |-> c.title, gone |-> FALSE])
    /\ Served(c, c) /\ UNCHANGED stored
serveSet(c) == c.kind = "set" /\ Live(c.id) /\ screens' = [screens EXCEPT ![c.id].title = c.title] /\ Served(c, c) /\ UNCHANGED stored
serveMove(c) ==
    /\ c.kind = "move" /\ Live(c.id) /\ Live(c.next)
    /\ screens' = [screens EXCEPT ![c.id].order = c.place, ![c.next].order = c.title]
    /\ Served(c, c) /\ UNCHANGED stored
serveRemove(c) == c.kind = "remove" /\ Live(c.id) /\ screens' = [screens EXCEPT ![c.id].gone = TRUE] /\ Served(c, c) /\ UNCHANGED stored
serveView(c) ==
    /\ c.kind \in {"rename", "unview"} /\ ~stored[c.id].gone
    /\ stored' = IF c.kind = "rename" THEN [stored EXCEPT ![c.id].title = c.title] ELSE [stored EXCEPT ![c.id].gone = TRUE]
    /\ Served(c, c) /\ UNCHANGED screens
serve(c) ==
    /\ Here /\ UNCHANGED <<asked, missed, pageVars>>
    /\ serveLoad(c) \/ serveCreate(c) \/ serveSet(c) \/ serveMove(c) \/ serveRemove(c) \/ serveView(c)

(* The answers. A reload shows the page again whichever of two was asked last.       *)
Answer(c, kinds) == Here /\ c \in calls /\ c.kind \in kinds /\ c.state = "done" /\ UNCHANGED <<missed, screens, stored>>
landLoad(c) ==
    /\ Answer(c, {"load"}) /\ list' = c.rows /\ views' = c.views /\ loaded' = TRUE
    /\ UNCHANGED <<asked, editing, creating>> /\ paint /\ calls' = Orphaned(calls \ {c})
landSaved(c) ==
    /\ Answer(c, {"set", "remove"}) /\ ~c.dead /\ editing' = -1 /\ load(calls \ {c})
    /\ UNCHANGED <<list, views, loaded, creating, forms, inputs>>
landCreated(c) == \* the page gives way to the new screen, and is read again when next opened
    /\ Answer(c, {"create"}) /\ ~c.dead
    /\ list' = <<>> /\ views' = {} /\ loaded' = FALSE /\ editing' = -1 /\ creating' = FALSE /\ forms' = <<>> /\ inputs' = {}
    /\ load({[d EXCEPT !.dead = TRUE] : d \in {e \in calls : e # c /\ e.kind # "load"}})
landRename(c) == Answer(c, {"rename"}) /\ ~c.dead /\ load(calls \ {c}) /\ UNCHANGED pageVars
landQuiet(c) == (* a move's, a deletion's, one of a form that is gone *)
    /\ Answer(c, {"move", "unview", "create", "set", "remove", "rename"}) /\ (c.dead \/ c.kind \in {"move", "unview"})
    /\ calls' = calls \ {c} /\ UNCHANGED <<asked, pageVars>>
(* A refusal: a move and a deletion read the page again; a refused save keeps its      *)
(* form, with a line; the others say nothing.                                    *)
(* A mutant of Rereads: a refused move is left as it is shown.                     *)
RereadsViews(c) == c.kind = "unview" /\ ~c.dead
Rereads(c) == c.kind \in {"move", "unview"} /\ ~c.dead
fail(c) ==
    /\ Here /\ c \in calls /\ c.state = "sent" /\ UNCHANGED <<screens, stored, pageVars>>
    /\ missed' = (missed \/ c.kind = "load" \/ (c.dead /\ c.kind \in {"move", "unview"}))
    /\ IF Rereads(c) THEN load(calls \ {c}) ELSE calls' = calls \ {c} /\ UNCHANGED asked

-----------------------------------------------------------------------------
(* shell/account-emails.ts: one write at a time, and then the list again.          *)
There == panel = "emails" /\ UNCHANGED <<panel, pageVars, screens, stored>>
loadEmails(after) == Sent(after, [kind |-> "list", state |-> "sent", n |-> asked, email |-> 0, rows |-> {}])
write(kind, e) ==
    /\ ~busy /\ shown # {} /\ busy' = TRUE /\ UNCHANGED <<missed, shown, addresses>>
    /\ Sent(calls, [kind |-> kind, state |-> "sent", n |-> asked, email |-> e, rows |-> {}])
typeEmail(e) == There /\ shown # {} /\ adding = 0 /\ adding' = e /\ UNCHANGED <<calls, asked, missed, shown, busy, addresses>>
addEmail == There /\ adding # 0 /\ write("add", adding) /\ adding' = 0
changeEmail(a, kind) ==
    /\ There /\ a \in shown /\ write(kind, a.email) /\ UNCHANGED adding
    /\ CASE kind = "primary" -> a.verified /\ ~a.primary
         [] kind = "drop" -> ~a.primary
         [] kind \in {"verify", "add"} -> ~a.verified
Became(c) ==
    LET old == {a \in addresses : a.email = c.email}
    IN  CASE c.kind = "add" -> IF old = {} THEN addresses \cup {[email |-> c.email, verified |-> FALSE, primary |-> FALSE]} ELSE addresses
          [] c.kind = "verify" -> (addresses \ old) \cup {[a EXCEPT !.verified = TRUE] : a \in old}
          [] c.kind = "primary" -> {[a EXCEPT !.primary = a.email = c.email] : a \in addresses}
          [] c.kind = "drop" -> addresses \ old
          [] OTHER -> addresses
serveEmail(c) ==
    /\ There /\ c \in calls /\ c.state = "sent" /\ addresses' = Became(c)
    /\ calls' = (calls \ {c}) \cup {[c EXCEPT !.state = "done", !.rows = addresses]}
    /\ UNCHANGED <<asked, missed, shown, busy, adding>>
landEmails(c) ==
    /\ There /\ c \in calls /\ c.kind = "list" /\ c.state = "done" /\ calls' = calls \ {c}
    /\ shown' = c.rows /\ busy' = FALSE /\ UNCHANGED <<asked, missed, adding, addresses>>
landWrite(c) ==
    /\ There /\ c \in calls /\ c.kind # "list" /\ c.state = "done" /\ loadEmails(calls \ {c})
    /\ UNCHANGED <<missed, mailVars>>
failEmail(c) ==
    /\ There /\ c \in calls /\ c.state = "sent" /\ calls' = calls \ {c} /\ busy' = FALSE
    /\ missed' = (missed \/ c.kind = "list") /\ UNCHANGED <<asked, shown, adding, addresses>>

-----------------------------------------------------------------------------
Init ==
    /\ panel \in {"screens", "emails"} /\ asked = 0 /\ missed = FALSE
    /\ list = <<>> /\ views = {} /\ loaded = FALSE /\ editing = -1 /\ creating = FALSE /\ forms = <<>> /\ inputs = {}
    /\ screens = [i \in DOMAIN Orders |-> [order |-> Orders[i], title |-> 0, gone |-> FALSE]] /\ stored = <<[title |-> 0, gone |-> FALSE]>>
    /\ shown = {} /\ busy = FALSE /\ adding = 0 /\ addresses = {[email |-> 0, verified |-> TRUE, primary |-> TRUE]}
    /\ calls = IF panel = "emails" THEN {[kind |-> "list", state |-> "sent", n |-> -1, email |-> 0, rows |-> {}]}
               ELSE {[Call("load") EXCEPT !.n = -1]}

Next ==
    \/ openNew
    \/ \E k \in DOMAIN screens : settings(k)
    \/ \E k \in DOMAIN forms : cancel(k) \/ typeTitle(k) \/ save(k) \/ remove(k)
    \/ \E i \in DOMAIN list, delta \in {-1, 1} : move(i, delta)
    \/ \E v \in views : renameView(v) \/ deleteView(v)
    \/ \E w \in inputs : typeView(w) \/ saveView(w)
    \/ \E c \in calls : \/ serve(c) \/ fail(c) \/ landLoad(c) \/ landSaved(c) \/ landCreated(c) \/ landRename(c) \/ landQuiet(c)
                        \/ serveEmail(c) \/ landEmails(c) \/ landWrite(c) \/ failEmail(c)
    \/ addEmail
    \/ \E e \in Emails : typeEmail(e)
    \/ \E a \in shown, kind \in {"primary", "drop", "verify", "add"} : changeEmail(a, kind)

Spec == Init /\ [][Next]_vars

-----------------------------------------------------------------------------
(* The types of the page, its forms and the addresses.                           *)
TypeOK ==
    /\ Ids(list) \subseteq DOMAIN screens /\ editing \in {-1} \cup DOMAIN screens
    /\ DOMAIN forms \subseteq {0} \cup DOMAIN screens /\ \A k \in DOMAIN forms : forms[k] \in {0, 1}
    /\ busy \in BOOLEAN /\ adding \in {0} \cup Emails

(* With nothing in flight, and no read refused, the page shows the screens in their      *)
(* stored order and the views there are, and the addresses are the server's             *)
(* (my-screens.ts move, deleteView; account-emails.ts write).                        *)
MineTrue ==
    calls = {} /\ ~missed =>
        /\ panel = "screens" => list = Mine /\ views = myViewsOnShared
        /\ panel = "emails" => shown = addresses

(* One form never makes two screens, and one address write runs at a time               *)
(* (my-screen-settings.ts save, account-emails.ts busy).                            *)
WrittenOnce ==
    /\ panel = "screens" => \A c, d \in calls : c.kind = "create" /\ d.kind = "create" => c = d
    /\ panel = "emails" => \A c, d \in calls : c.kind # "list" /\ d.kind # "list" => c = d

-----------------------------------------------------------------------------
(* What holds at every step of a user who waits: one call is out, and with the addresses   *)
(* shown a write that runs holds the others back until the list is read again.        *)
Inv ==
    /\ \A c, d \in calls : c = d
    /\ panel = "emails" => calls = {} \/ busy \/ shown = {}
=============================================================================

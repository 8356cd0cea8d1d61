----------------------------- MODULE TaskPanels -----------------------------
(***************************************************************************)
(* The side panels of a task: its parent and children                        *)
(* (task-detail/related-tasks-panel.ts), its links (task-detail/task-links.ts)  *)
(* and its tags (task-detail/tags-editor.ts).  They share nothing but the      *)
(* task, so each behaviour follows one of them (panel).                      *)
(* The task is card 1; a card's relation is kept on the child, 0 is the        *)
(* default one.  A batch of calls runs whole or not at all.                   *)
(***************************************************************************)
EXTENDS Integers, FiniteSets

CONSTANTS
    Cards,      \* the other cards
    Later,      \* one of them, made later as a subtask of the task
    Rels,       \* the relations, 0 among them
    Urls,       \* what can be linked
    Tags, Path, \* the tags, and the prefix each one's path starts with, 0 for none
    MaxCalls,   \* bound: batches sent
    Patient     \* whether the user and the refreshes wait for what is on its way

Panels == {"related", "links", "tags"}

VARIABLES
    panel,
    calls, asked, \* what is on its way, and how much was sent so far
    missed,       \* whether a read failed since the last one that did not
    parent, rel, children, listed,  \* what is shown of the relations: children as [card, rel]
    busy,         \* whether the relations' or the tags' buttons are off
    picker,       \* the open picker: <<which, picked>>, picked 0 when nothing is
    links, form,  \* links shown; the add form: [url, adding], url -1 when it is closed
    applied, known, \* tags shown, tags whose path is known
    par, relOf, linked, tagged      \* the server's

vars == <<panel, calls, asked, missed, parent, rel, children, listed, busy, picker, links, form, applied, known, par, relOf, linked, tagged>>
relVars == <<parent, rel, children, listed, picker>>
linkVars == <<links, form>>
tagVars == <<applied, known>>
serverVars == <<par, relOf, linked, tagged>>

Me == 1
NoPicker == <<"none", 0>>
Shown == [parent |-> parent, rel |-> rel, children |-> children, listed |-> listed]
Children == {[card |-> c, rel |-> relOf[c]] : c \in {d \in Cards : par[d] = Me}}

Free == Patient => calls = {}
Send(after, kind, x, y, prev) ==
    /\ asked < MaxCalls /\ asked' = asked + 1
    /\ calls' = after \cup {[n |-> asked', kind |-> kind, x |-> x, y |-> y, prev |-> prev, state |-> "sent", got |-> {}]}
Answered(c, kind) == c \in calls /\ c.kind = kind /\ c.state # "sent"
Ok(c) == c.state = "done"

-----------------------------------------------------------------------------
(* related-tasks-panel.ts: the pickers for a parent and for a child.         *)
openPicker(which) ==
    /\ panel = "related" /\ ~busy
    /\ which = "parent" => parent = 0
    /\ picker' = <<which, IF which = "parent" THEN parent ELSE 0>>
    /\ UNCHANGED <<panel, calls, asked, missed, parent, rel, children, listed, busy, linkVars, tagVars, serverVars>>
pick(c) ==
    /\ picker # NoPicker /\ par[c] # -1 /\ picker' \in {<<picker[1], c>>, NoPicker} /\ picker' # picker
    /\ UNCHANGED <<panel, calls, asked, missed, parent, rel, children, listed, busy, linkVars, tagVars, serverVars>>

(* A new parent, or none, is shown before the server has it.                 *)
writeParent(p, r) ==
    /\ panel = "related" /\ ~busy /\ Free
    /\ IF p = 0 THEN parent # 0 /\ UNCHANGED <<rel, picker>>
       ELSE picker = <<"parent", p>> /\ picker' = NoPicker /\ rel' = r
    /\ parent' = p /\ busy' = TRUE
    /\ Send(calls, "parent", p, r, Shown)
    /\ UNCHANGED <<panel, missed, children, listed, linkVars, tagVars, serverVars>>
(* A mutant of landParent: a refusal leaves the relation as picked.           *)
landParentKeepsRel(c) ==
    /\ Answered(c, "parent") /\ calls' = calls \ {c}
    /\ busy' = FALSE
    /\ IF ~Ok(c) THEN parent' = c.prev.parent /\ UNCHANGED rel
       ELSE UNCHANGED parent /\ rel' = IF c.x = 0 THEN 0 ELSE rel
    /\ UNCHANGED <<panel, asked, missed, children, listed, picker, linkVars, tagVars, serverVars>>
landParent(c) ==
    /\ Answered(c, "parent") /\ calls' = calls \ {c}
    /\ busy' = FALSE
    /\ IF ~Ok(c) THEN parent' = c.prev.parent /\ rel' = c.prev.rel
       ELSE UNCHANGED parent /\ rel' = IF c.x = 0 THEN 0 ELSE rel
    /\ UNCHANGED <<panel, asked, missed, children, listed, picker, linkVars, tagVars, serverVars>>

(* The relation to the parent; the buttons stay on meanwhile.                *)
commitRelationship(r) ==
    /\ panel = "related" /\ ~busy /\ Free /\ parent # 0 /\ r # rel
    /\ rel' = r /\ Send(calls, "rel", r, 0, Shown)
    /\ UNCHANGED <<panel, missed, parent, children, listed, busy, picker, linkVars, tagVars, serverVars>>
landRelationship(c) ==
    /\ Answered(c, "rel") /\ calls' = calls \ {c}
    /\ rel' = IF Ok(c) THEN rel ELSE c.prev.rel
    /\ UNCHANGED <<panel, asked, missed, parent, children, listed, busy, picker, linkVars, tagVars, serverVars>>

(* A child's relation; a refusal is undone on the row the user changed, which  *)
(* is not shown any more when the children were read again.                  *)
Related(c, r) == {IF d.card = c THEN [d EXCEPT !.rel = r] ELSE d : d \in children}
commitChildRelationship(d, r) ==
    /\ panel = "related" /\ ~busy /\ Free /\ d \in children /\ r # d.rel
    /\ children' = Related(d.card, r)
    /\ Send(calls, "childRel", d.card, r, Shown)
    /\ UNCHANGED <<panel, missed, parent, rel, listed, busy, picker, linkVars, tagVars, serverVars>>
landChildRelationship(c) ==
    /\ Answered(c, "childRel") /\ calls' = calls \ {c}
    /\ children' = IF ~Ok(c) /\ listed = c.prev.listed
                   THEN Related(c.x, (CHOOSE d \in c.prev.children : d.card = c.x).rel) ELSE children
    /\ UNCHANGED <<panel, asked, missed, parent, rel, listed, busy, picker, linkVars, tagVars, serverVars>>

unlinkChild(d) ==
    /\ panel = "related" /\ Free /\ d \in children
    /\ children' = children \ {d}
    /\ Send(calls, "unlink", d.card, 0, Shown)
    /\ UNCHANGED <<panel, missed, parent, rel, listed, busy, picker, linkVars, tagVars, serverVars>>
landUnlink(c) ==
    /\ Answered(c, "unlink") /\ calls' = calls \ {c}
    /\ IF Ok(c) THEN UNCHANGED <<children, listed>> ELSE children' = c.prev.children /\ listed' = c.prev.listed
    /\ UNCHANGED <<panel, asked, missed, parent, rel, busy, picker, linkVars, tagVars, serverVars>>

(* A task already there is made a child, unless it is this one, its parent or  *)
(* one of its children as far as the panel knows; the children are then read.  *)
canAddChild(c) == c \notin {Me, parent} \cup {d.card : d \in children}
addExistingChild(c, r) ==
    /\ panel = "related" /\ ~busy /\ Free /\ picker = <<"child", c>> /\ canAddChild(c)
    /\ picker' = NoPicker /\ busy' = TRUE
    /\ Send(calls, "adopt", c, r, Shown)
    /\ UNCHANGED <<panel, missed, parent, rel, children, listed, linkVars, tagVars, serverVars>>
landAdopt(c) ==
    /\ Answered(c, "adopt") /\ busy' = FALSE
    /\ IF Ok(c) THEN Send(calls \ {c}, "children", 0, 0, Shown) ELSE calls' = calls \ {c} /\ UNCHANGED asked
    /\ UNCHANGED <<panel, missed, relVars, linkVars, tagVars, serverVars>>

(* The children are read again when a task was created somewhere (a subtask,    *)
(* perhaps) and when the task is refreshed.                                *)
loadChildren ==
    /\ panel = "related" /\ Free /\ Send(calls, "children", 0, 0, Shown)
    /\ par' \in {par, IF par[Later] = -1 THEN [par EXCEPT ![Later] = Me] ELSE par}
    /\ UNCHANGED <<panel, missed, relVars, busy, linkVars, tagVars, relOf, linked, tagged>>
landChildren(c) ==
    /\ Answered(c, "children") /\ calls' = calls \ {c} /\ missed' = ~Ok(c)
    /\ IF Ok(c) THEN children' = c.got /\ listed' = c.n ELSE UNCHANGED <<children, listed>>
    /\ UNCHANGED <<panel, asked, parent, rel, busy, picker, linkVars, tagVars, serverVars>>

-----------------------------------------------------------------------------
(* task-links.ts                                                           *)
loadLinks ==
    /\ panel = "links" /\ Free /\ Send(calls, "links", 0, 0, Shown)
    /\ UNCHANGED <<panel, missed, relVars, busy, linkVars, tagVars, serverVars>>
landLinks(c) ==
    /\ Answered(c, "links") /\ calls' = calls \ {c} /\ missed' = ~Ok(c)
    /\ links' = IF Ok(c) THEN c.got ELSE links
    /\ UNCHANGED <<panel, asked, relVars, busy, form, tagVars, serverVars>>
toggleForm ==
    /\ panel = "links" /\ (Patient => ~form.adding)
    /\ form' = [form EXCEPT !.url = IF @ = -1 THEN 0 ELSE -1]
    /\ UNCHANGED <<panel, calls, asked, missed, relVars, busy, links, tagVars, serverVars>>
typeUrl(u) ==
    /\ form.url \notin {-1, u} /\ (Patient => ~form.adding)
    /\ form' = [form EXCEPT !.url = u]
    /\ UNCHANGED <<panel, calls, asked, missed, relVars, busy, links, tagVars, serverVars>>
doAdd ==
    /\ Free /\ form.url \in Urls /\ ~form.adding
    /\ form' = [form EXCEPT !.adding = TRUE]
    /\ Send(calls, "link", form.url, 0, Shown)
    /\ UNCHANGED <<panel, missed, relVars, busy, links, tagVars, serverVars>>
(* A mutant of landAdd: the form is closed by any answer.                     *)
landAddCloses(c) ==
    /\ Answered(c, "link")
    /\ form' = [url |-> -1, adding |-> FALSE]
    /\ IF Ok(c) THEN Send(calls \ {c}, "links", 0, 0, Shown) ELSE calls' = calls \ {c} /\ UNCHANGED asked
    /\ UNCHANGED <<panel, missed, relVars, busy, links, tagVars, serverVars>>
landAdd(c) ==
    /\ Answered(c, "link")
    /\ form' = [url |-> IF Ok(c) THEN -1 ELSE form.url, adding |-> FALSE]
    /\ IF Ok(c) THEN Send(calls \ {c}, "links", 0, 0, Shown) ELSE calls' = calls \ {c} /\ UNCHANGED asked
    /\ UNCHANGED <<panel, missed, relVars, busy, links, tagVars, serverVars>>
doRemove(u) ==
    /\ panel = "links" /\ Free /\ u \in links
    /\ links' = links \ {u} /\ Send(calls, "unlinkUrl", u, 0, Shown)
    /\ UNCHANGED <<panel, missed, relVars, busy, form, tagVars, serverVars>>
landRemove(c) ==
    /\ Answered(c, "unlinkUrl")
    /\ IF Ok(c) THEN calls' = calls \ {c} /\ UNCHANGED asked ELSE Send(calls \ {c}, "links", 0, 0, Shown)
    /\ UNCHANGED <<panel, missed, relVars, busy, linkVars, tagVars, serverVars>>

-----------------------------------------------------------------------------
(* tags-editor.ts: one change at a time, whatever the user does.              *)
Ungrouped == 0
prefixOf(t) == IF t \in known THEN Path[t] ELSE Ungrouped
slotKeys == {Path[t] : t \in known} \cup {prefixOf(t) : t \in applied}
appliedInSlot(k) == {t \in applied : prefixOf(t) = k}
addOptionsForSlot(k) == {t \in known \ applied : Path[t] = k}

landCatalogue ==
    /\ panel = "tags" /\ known # Tags /\ known' = Tags
    /\ UNCHANGED <<panel, calls, asked, missed, relVars, busy, linkVars, applied, serverVars>>
applyTag(t) ==
    /\ panel = "tags" /\ ~busy /\ \E k \in slotKeys : t \in addOptionsForSlot(k)
    /\ applied' = applied \cup {t} /\ busy' = TRUE
    /\ Send(calls, "apply", t, 0, applied)
    /\ UNCHANGED <<panel, missed, relVars, linkVars, known, serverVars>>
removeTag(t) ==
    /\ panel = "tags" /\ ~busy /\ t \in applied
    /\ applied' = applied \ {t} /\ busy' = TRUE
    /\ Send(calls, "remove", t, 0, applied)
    /\ UNCHANGED <<panel, missed, relVars, linkVars, known, serverVars>>
(* The tags the server took away for a new one go with it.                   *)
landTags(c) ==
    /\ Answered(c, "apply") \/ Answered(c, "remove")
    /\ calls' = calls \ {c} /\ busy' = FALSE
    /\ applied' = IF ~Ok(c) THEN c.prev ELSE {t \in applied : t = c.x \/ t \notin c.got}
    /\ UNCHANGED <<panel, asked, missed, relVars, linkVars, known, serverVars>>

-----------------------------------------------------------------------------
(* card.select_with_attributes, attribute.update, link.*, tag.*; tags with the  *)
(* same prefix exclude each other.  A card is -1 until it is made.            *)
ServerRuns(c) ==
    LET siblings == {t \in tagged \ {c.x} : Path[t] = Path[c.x] /\ Path[t] # Ungrouped} IN
    /\ c \in calls /\ c.state = "sent"
    /\ calls' = (calls \ {c}) \cup {[c EXCEPT !.state = "done",
                    !.got = CASE c.kind = "children" -> Children [] c.kind = "links" -> linked [] c.kind = "apply" -> siblings [] OTHER -> {}]}
    /\ par' = CASE c.kind = "parent" -> [par EXCEPT ![Me] = c.x] [] c.kind = "unlink" -> [par EXCEPT ![c.x] = 0]
                [] c.kind = "adopt" -> [par EXCEPT ![c.x] = Me] [] OTHER -> par
    /\ relOf' = CASE c.kind = "parent" -> [relOf EXCEPT ![Me] = c.y] [] c.kind = "unlink" -> [relOf EXCEPT ![c.x] = 0]
                  [] c.kind \in {"adopt", "childRel"} -> [relOf EXCEPT ![c.x] = c.y]
                  [] c.kind = "rel" -> [relOf EXCEPT ![Me] = c.x] [] OTHER -> relOf
    /\ linked' = CASE c.kind = "link" -> linked \cup {c.x} [] c.kind = "unlinkUrl" -> linked \ {c.x} [] OTHER -> linked
    /\ tagged' = CASE c.kind = "apply" -> (tagged \ siblings) \cup {c.x} [] c.kind = "remove" -> tagged \ {c.x} [] OTHER -> tagged
    /\ UNCHANGED <<panel, asked, missed, relVars, busy, linkVars, tagVars>>
Refused(c) ==
    /\ c \in calls /\ c.state = "sent" /\ calls' = (calls \ {c}) \cup {[c EXCEPT !.state = "refused"]}
    /\ UNCHANGED <<panel, asked, missed, relVars, busy, linkVars, tagVars, serverVars>>

Init ==
    /\ panel \in Panels /\ asked = 0 /\ calls = {} /\ missed = FALSE
    /\ par = [c \in Cards \cup {Me} |-> IF c = Later THEN -1 ELSE IF c = 2 THEN Me ELSE 0]
    /\ relOf = [c \in Cards \cup {Me} |-> 0]
    /\ parent = 0 /\ rel = 0 /\ listed = 0 /\ children = {[card |-> 2, rel |-> 0]}
    /\ busy = FALSE /\ picker = NoPicker
    /\ linked = {1} /\ links = {1} /\ form = [url |-> -1, adding |-> FALSE]
    /\ tagged = {1} /\ applied = {1} /\ known = {}
Next ==
    \/ \E w \in {"parent", "child"} : openPicker(w)
    \/ \E c \in Cards : pick(c) \/ (\E r \in Rels : writeParent(c, r) \/ addExistingChild(c, r))
    \/ writeParent(0, 0) \/ loadChildren \/ loadLinks \/ toggleForm \/ doAdd \/ landCatalogue
    \/ \E r \in Rels : commitRelationship(r) \/ \E d \in children : commitChildRelationship(d, r)
    \/ \E d \in children : unlinkChild(d)
    \/ \E u \in Urls : typeUrl(u) \/ doRemove(u)
    \/ \E t \in Tags : applyTag(t) \/ removeTag(t)
    \/ \E c \in calls : \/ landParent(c) \/ landRelationship(c) \/ landChildRelationship(c) \/ landUnlink(c) \/ landAdopt(c)
                        \/ landChildren(c) \/ landLinks(c) \/ landAdd(c) \/ landRemove(c) \/ landTags(c)
                        \/ ServerRuns(c) \/ Refused(c)
Spec == Init /\ [][Next]_vars

-----------------------------------------------------------------------------
TypeOK ==
    /\ parent \in {0} \cup Cards /\ rel \in Rels /\ children \subseteq [card : Cards, rel : Rels]
    /\ links \subseteq Urls /\ form.url \in {-1, 0} \cup Urls /\ {busy, form.adding} \subseteq BOOLEAN
    /\ applied \subseteq Tags /\ known \subseteq Tags

(* With nothing on its way and no read failed, the panels show the relations,   *)
(* links and tags the server has.                                          *)
PanelsTrue ==
    calls = {} /\ ~missed =>
        /\ parent = par[Me] /\ rel = relOf[Me] /\ children = Children
        /\ links = linked /\ applied = tagged /\ ~busy /\ ~form.adding

(* An address being typed is lost only to the answer that added it, or when the *)
(* form is closed (task-links.ts:332).                                      *)
AddressKeptStep ==
    form.url \in Urls /\ form'.url = -1 => form' = [form EXCEPT !.url = -1] \/ form.url \in linked
AddressKept == [][AddressKeptStep]_vars
=============================================================================

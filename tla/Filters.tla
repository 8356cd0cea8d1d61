------------------------------ MODULE Filters ------------------------------
(***************************************************************************)
(* A screen's filter: predicates and the query made of one                  *)
(* (filter/predicate.ts), and the bar that edits, saves and restores them   *)
(* (shell/screen-filter-bar.ts, filter/quick-chips.ts,                     *)
(* filter/predicate-filter.ts, filter/screen-resolve.ts).                  *)
(***************************************************************************)
EXTENDS Integers, Sequences, FiniteSets, SequencesExt

CONSTANTS
    Cards,       \* records [id, assignee, phase, title, body]: the last two tell whether the word is in them
    Snippets,    \* id -> the assignees the named filter asks for
    Screens,     \* id -> [values, base, toggles, required, preset, pred, group]
    Scope,       \* the assignees a personal screen is about
    None,
    MaxEdits,    \* bound: changes to the filter
    MaxSaves     \* bound: saved views written

VARIABLES
    at,          \* the screen shown, None while one is resolved
    predicate, group, search, fields,   \* screen.predicate, group, search, searchFields
    active,      \* screen -> activeFilterId: Unvisited, None or a view's id
    session,     \* screen -> session.phase and session.search
    stored,      \* screen -> the view in localStorage
    filters, shownDefault, \* the list of views as landed, defaultFilterId
    saving,      \* the write to come back, and its undo
    edits, saves,
    views, defaults   \* the server's views and default_filter of each screen

vars == <<at, predicate, group, search, fields, active, session, stored, filters, shownDefault,
          saving, edits, saves, views, defaults>>
queryVars == <<search, fields>>
serverVars == <<views, defaults>>

Unvisited == 0
Phases == {"triage", "active", "terminal"}

(* Predicates: leaves on an attribute, groups under a connective.            *)
Leaf(attr, op, vals) == [kind |-> "leaf", attr |-> attr, op |-> op, vals |-> vals, kids |-> <<>>]
Group(c, kids) == [kind |-> c, attr |-> "", op |-> "", vals |-> {}, kids |-> kids]
IsLeaf(p) == p.kind = "leaf"

(* A predicate and all that is under it. An edit nests it one level deeper at *)
(* most, and the query puts the search and the scope around it.             *)
Deep == MaxEdits + 5
Nodes(p) ==
    LET level[n \in 0 .. Deep] == IF n = 0 THEN {p} ELSE UNION {Range(q.kids) : q \in level[n - 1]}
    IN UNION {level[n] : n \in 0 .. Deep}

-----------------------------------------------------------------------------
(* What the server makes of a predicate: a leaf without values asks nothing. *)
LeafHolds(p, c) ==
    CASE p.op = "snippet" -> \A s \in p.vals : c.assignee \in Snippets[s]
      [] p.vals = {} -> TRUE
      [] p.op = "hasPhase" -> c.phase \in p.vals
      [] p.op = "contains" -> "word" \in p.vals /\ c[p.attr]
      [] OTHER -> c[p.attr] \in p.vals
Holds(p, c) ==
    LET holds[q \in Nodes(p)] ==
            CASE IsLeaf(q) -> LeafHolds(q, c)
              [] q.kind = "and" -> \A i \in DOMAIN q.kids : holds[q.kids[i]]
              [] q.kind = "or" -> \E i \in DOMAIN q.kids : holds[q.kids[i]]
              [] OTHER -> ~holds[q.kids[1]]
    IN holds[p]
HoldsAll(p, c) == p = None \/ Holds(p, c)

(* isValid: a NOT has one child; the server refuses any other.              *)
isValid(p) == \A q \in Nodes(p) : q.kind = "not" => Len(q.kids) = 1

(* rootView and fromRootChildren: the root as a flat AND, and back.          *)
rootView(p) == IF p = None THEN <<>> ELSE IF p.kind = "and" THEN p.kids ELSE <<p>>
fromRootChildren(kids) == IF kids = <<>> THEN None ELSE IF Len(kids) = 1 THEN kids[1] ELSE Group("and", kids)

PhaseLeaf(p) == IsLeaf(p) /\ p.op = "hasPhase"
PlainLeaf(p, attr) == IsLeaf(p) /\ p.attr = attr /\ p.op # "hasPhase"
upsertTopLevelLeaf(p, leaf) ==
    fromRootChildren(Append(SelectSeq(rootView(p), LAMBDA k : ~PlainLeaf(k, leaf.attr)), leaf))
removeTopLevelLeaf(p, attr) == fromRootChildren(SelectSeq(rootView(p), LAMBDA k : ~PlainLeaf(k, attr)))
topLevelPhases(p) ==
    LET found == SelectSeq(rootView(p), PhaseLeaf) IN IF found = <<>> THEN {} ELSE found[1].vals
withTopLevelPhases(p, s) ==
    LET kept == SelectSeq(rootView(p), LAMBDA k : ~PhaseLeaf(k))
    IN fromRootChildren(IF s = {} THEN kept ELSE Append(kept, Leaf("phase", "hasPhase", s)))
(* selectedValues, selectedSnippetIds: what the chips show of a predicate.   *)
selectedValues(p, attr) ==
    LET found == SelectSeq(rootView(p), LAMBDA k : PlainLeaf(k, attr))
    IN IF found = <<>> \/ found[1].op # "in" THEN {} ELSE found[1].vals
selectedSnippetIds(p) == UNION {rootView(p)[i].vals : i \in {j \in DOMAIN rootView(p) : rootView(p)[j].op = "snippet"}}
Leaves(ids) ==
    LET order == SetToSeq(ids) IN [n \in DOMAIN order |-> Leaf("_snippet", "snippet", {order[n]})]
setSelectedSnippets(p, ids) ==
    fromRootChildren(SelectSeq(rootView(p), LAMBDA k : ~(IsLeaf(k) /\ k.op = "snippet")) \o Leaves(ids))

(* applySearchFilter: the search is a flat leaf, or a tree of its own when it *)
(* names ids or several fields; a flat predicate rides in `where`.           *)
Ids(needle) == CASE needle = "1" -> {1} [] needle = "1,2" -> {1, 2} [] OTHER -> {}
FieldLeaves(needle, fs) ==
    SelectSeq(<<Leaf("title", "contains", {needle}), Leaf("body", "contains", {needle})>>, LAMBDA l : l.attr \in fs)
isFlatAndOfLeaves(p) == IsLeaf(p) \/ (p.kind = "and" /\ \A i \in DOMAIN p.kids : IsLeaf(p.kids[i]))
toWhereLeaves(p) == IF IsLeaf(p) THEN <<p>> ELSE p.kids
searchTree(needle, fs) ==
    LET ids == Leaf("id", "in", Ids(needle)) IN
    CASE Cardinality(Ids(needle)) > 1 -> ids
      [] Cardinality(Ids(needle)) = 1 -> Group("or", <<ids>> \o FieldLeaves(needle, fs))
      [] needle # "" /\ Len(FieldLeaves(needle, fs)) > 1 -> Group("or", FieldLeaves(needle, fs))
      [] OTHER -> None
searchLeaves(needle, fs) == IF needle = "" \/ searchTree(needle, fs) # None THEN <<>> ELSE FieldLeaves(needle, fs)
applySearchFilter(needle, fs, p) ==
    LET st == searchTree(needle, fs)
        sl == searchLeaves(needle, fs)
        flat == p = None \/ isFlatAndOfLeaves(p)
        user == IF p = None THEN <<>> ELSE toWhereLeaves(p)
        clause == IF st # None THEN <<st>> ELSE sl
    IN CASE flat /\ st = None -> [where |-> sl \o user, tree |-> None]
         [] p = None -> [where |-> <<>>, tree |-> st]
         [] flat -> [where |-> <<>>, tree |-> Group("and", <<st>> \o user)]
         [] clause = <<>> -> [where |-> <<>>, tree |-> p]
         [] OTHER -> [where |-> <<>>, tree |-> Group("and", clause \o <<p>>)]
(* A mutant of withScopeTree: the flat leaves are left behind.               *)
withScopeTreeOnly(q, scope) ==
    IF scope = None THEN q
    ELSE [where |-> <<>>, tree |-> Group("and", (IF q.tree # None THEN <<q.tree>> ELSE <<>>) \o <<scope>>)]
withScopeTree(q, scope) ==
    IF scope = None THEN q
    ELSE [where |-> <<>>, tree |-> Group("and", (IF q.tree # None THEN <<q.tree>> ELSE q.where) \o <<scope>>)]
scopeTree == IF Scope = {} THEN None ELSE Leaf("assignee", "in", Scope)

-----------------------------------------------------------------------------
Of(s) == Screens[s]
basePhases(s) == IF Of(s).toggles THEN Of(s).base ELSE {}
setGroup(s, g) == IF Of(s).required /\ g = "" THEN "status" ELSE g
default(s) == IF Of(s).required THEN "status" ELSE ""

(* persistView: on a change of the leaves, with the selection as it is then   *)
(* and no phases; a temporary id does not read back.                       *)
Selected(a) == IF a > 0 THEN a ELSE None
View(p, g, a) == [pred |-> withTopLevelPhases(p, {}), group |-> g, active |-> IF a = None THEN None ELSE Selected(a)]
Write(p, g, a) ==
    /\ predicate' = p /\ group' = g /\ active' = [active EXCEPT ![at] = a]
    /\ stored' = IF p = None /\ predicate = None /\ g = group THEN stored
                 ELSE [stored EXCEPT ![at] = View(p, g, a)]
Edit == at # None /\ edits < MaxEdits /\ edits' = edits + 1

(* Bound: a screen is not left while a view is being saved.                 *)
Stays == saving = None

sessionPhases(s) == IF session[s].phases # None THEN session[s].phases ELSE basePhases(s)

(* applyScreenDefaults: the screen's default view, or an empty filter; one    *)
(* that is no longer listed is selected and clears the filter.               *)
Defaults(s, d, listed, g) ==
    IF d = None THEN [pred |-> None, group |-> g, active |-> None]
    ELSE IF d \notin listed THEN [pred |-> None, group |-> g, active |-> d]
    ELSE [pred |-> views[d].pred, group |-> setGroup(s, views[d].group), active |-> d]

(* The screen resolves and its bar is mounted: restoreView, then the default  *)
(* of a first visit, then the phases, then the view is stored.               *)
openScreen(s) ==
    /\ at # s /\ Stays /\ edits < MaxEdits /\ edits' = edits + 1
    /\ at' = s /\ filters' = {v \in DOMAIN views : views[v].screen = s}
    /\ shownDefault' = IF defaults[s] \in filters' THEN defaults[s] ELSE None
    /\ search' = session[s].search /\ fields' = {"title", "body"}
    /\ LET v == stored[s]
           kept == IF v = None THEN [pred |-> predicate, group |-> default(s), active |-> active[s]]
                   ELSE [pred |-> v.pred, group |-> setGroup(s, v.group), active |-> v.active]
           shown == IF kept.active = Unvisited THEN Defaults(s, shownDefault', filters', kept.group) ELSE kept
           p == IF Of(s).toggles \/ session[s].phases # None THEN withTopLevelPhases(shown.pred, sessionPhases(s)) ELSE shown.pred
       IN /\ predicate' = p /\ group' = shown.group
          /\ active' = [active EXCEPT ![s] = shown.active]
          /\ stored' = [stored EXCEPT ![s] = View(p, shown.group, shown.active)]
    /\ UNCHANGED <<session, saving, saves, serverVars>>

(* A reload keeps localStorage and nothing else.                           *)
reload ==
    /\ at # None /\ Stays /\ edits < MaxEdits /\ edits' = edits + 1
    /\ at' = None /\ predicate' = None /\ group' = "" /\ search' = "" /\ fields' = {}
    /\ active' = [s \in DOMAIN Screens |-> Unvisited]
    /\ session' = [s \in DOMAIN Screens |-> [phases |-> None, search |-> ""]]
    /\ filters' = {} /\ shownDefault' = None
    /\ UNCHANGED <<stored, saving, saves, serverVars>>

-----------------------------------------------------------------------------
(* The controls.                                                           *)
togglePhase(ph) ==
    /\ Edit /\ Of(at).toggles
    /\ LET cur == topLevelPhases(predicate)
           next == IF cur = {} THEN Phases \ {ph} ELSE IF ph \in cur THEN cur \ {ph} ELSE cur \cup {ph}
           phases == IF next = Phases THEN {} ELSE next
       IN /\ Write(withTopLevelPhases(predicate, phases), group, active[at])
          /\ session' = [session EXCEPT ![at].phases = phases]
    /\ UNCHANGED <<at, queryVars, filters, shownDefault, saving, saves, serverVars>>

toggleValue(v) ==
    /\ Edit /\ v \in Of(at).values
    /\ LET cur == selectedValues(predicate, "assignee")
           next == IF v \in cur THEN cur \ {v} ELSE cur \cup {v}
       IN Write(IF next = {} THEN removeTopLevelLeaf(predicate, "assignee")
                ELSE upsertTopLevelLeaf(predicate, Leaf("assignee", "in", next)), group, active[at])
    /\ UNCHANGED <<at, queryVars, session, filters, shownDefault, saving, saves, serverVars>>

toggleSnippet(id) ==
    /\ Edit
    /\ LET cur == selectedSnippetIds(predicate)
       IN Write(setSelectedSnippets(predicate, IF id \in cur THEN cur \ {id} ELSE cur \cup {id}), group, active[at])
    /\ UNCHANGED <<at, queryVars, session, filters, shownDefault, saving, saves, serverVars>>

(* The Advanced editor works on the predicate as a group, and an AND of none  *)
(* is no filter.                                                           *)
root == IF predicate = None THEN Group("and", <<>>) ELSE IF IsLeaf(predicate) THEN Group("and", <<predicate>>) ELSE predicate
writeValue(r) == Write(IF r = Group("and", <<>>) THEN None ELSE r, group, active[at])
editTree ==
    /\ Edit
    /\ \/ \E v \in Of(at).values : writeValue([root EXCEPT !.kids = Append(@, Leaf("assignee", "in", {v}))])
       \/ \E i \in DOMAIN root.kids :
             writeValue([root EXCEPT !.kids = SubSeq(@, 1, i - 1) \o SubSeq(@, i + 1, Len(@))])
       \/ \E c \in {"and", "or", "not"} : c # root.kind /\ writeValue([root EXCEPT !.kind = c])
    /\ UNCHANGED <<at, queryVars, session, filters, shownDefault, saving, saves, serverVars>>

typeSearch(needle, fs) ==
    /\ Edit /\ <<needle, fs>> # <<search, fields>>
    /\ search' = needle /\ fields' = fs
    /\ session' = [session EXCEPT ![at].search = needle]
    /\ UNCHANGED <<at, predicate, group, active, stored, filters, shownDefault, saving, saves, serverVars>>

pickGroup(g) ==
    /\ Edit /\ g # group /\ (Of(at).required => g # "")
    /\ Write(predicate, g, active[at])
    /\ UNCHANGED <<at, queryVars, session, filters, shownDefault, saving, saves, serverVars>>

(* The view being saved is listed under a temporary id.                     *)
Temp == -1
card(id) == IF id = Temp THEN saving.view ELSE views[id]

(* applyPreset: no view keeps the phases of the session; a view that is not   *)
(* listed clears the filter.                                               *)
applyPreset(id) ==
    /\ Edit
    /\ IF id = None
       THEN Write(withTopLevelPhases(None, sessionPhases(at)), default(at), None)
       ELSE id \in filters /\ Write(card(id).pred, setGroup(at, card(id).group), id)
    /\ UNCHANGED <<at, queryVars, session, filters, shownDefault, saving, saves, serverVars>>

(* Clear: the default view and the base phases.                            *)
clearAll ==
    /\ Edit
    /\ search' = "" /\ UNCHANGED fields
    /\ LET d == Defaults(at, shownDefault, filters, default(at)) IN
       Write(withTopLevelPhases(d.pred, basePhases(at)), d.group, d.active)
    /\ session' = [session EXCEPT ![at] = [phases |-> basePhases(at), search |-> ""]]
    /\ UNCHANGED <<at, filters, shownDefault, saving, saves, serverVars>>

-----------------------------------------------------------------------------
(* Saved views: listed and selected at once, undone when refused.            *)
Start(call) ==
    /\ at # None /\ saving = None /\ saves < MaxSaves
    /\ saves' = saves + 1
    /\ saving' = call
Save(kind, id) ==
    [kind |-> kind, id |-> id, view |-> [screen |-> at, pred |-> predicate, group |-> group],
     screen |-> at, undo |-> filters]

saveCurrentAsNew ==
    /\ Start(Save("insert", 10 + saves))
    /\ filters' = filters \cup {Temp}
    /\ active' = [active EXCEPT ![at] = Temp]
    /\ UNCHANGED <<at, predicate, group, queryVars, session, stored, shownDefault, edits, serverVars>>

setActiveAsDefault ==
    /\ at # None /\ active[at] # None /\ active[at] # Temp
    /\ Start(Save("default", active[at]))
    /\ shownDefault' = active[at]
    /\ UNCHANGED <<at, predicate, group, active, queryVars, session, stored, filters, edits, serverVars>>

deleteActive ==
    /\ at # None /\ active[at] \in filters \ {Temp}
    /\ Start(Save("delete", active[at]))
    /\ filters' = filters \ {active[at]}
    /\ Write(withTopLevelPhases(None, sessionPhases(at)), default(at), None)
    /\ UNCHANGED <<at, queryVars, session, shownDefault, edits, serverVars>>

(* The server does the write or refuses it.                                *)
ServerSaves ==
    IF saving.kind = "insert" THEN views' = views @@ (saving.id :> saving.view) /\ UNCHANGED defaults
    ELSE IF saving.kind = "delete" THEN views' = [i \in DOMAIN views \ {saving.id} |-> views[i]] /\ UNCHANGED defaults
    ELSE defaults' = [defaults EXCEPT ![saving.screen] = saving.id] /\ UNCHANGED views

(* The row gets its id, or the list is put back; a default stays as set.     *)
landSave(ok) ==
    /\ saving # None
    /\ saving' = None
    /\ IF ok THEN ServerSaves ELSE UNCHANGED serverVars
    /\ IF saving.kind = "default" THEN UNCHANGED <<filters, active>>
       ELSE IF ~ok THEN /\ filters' = saving.undo
                        /\ active' = IF saving.kind = "insert" THEN [active EXCEPT ![at] = None] ELSE active
       ELSE IF saving.kind = "insert"
       THEN filters' = (filters \ {Temp}) \cup {saving.id} /\ active' = [active EXCEPT ![at] = saving.id]
       ELSE UNCHANGED <<filters, active>>
    /\ UNCHANGED <<at, predicate, group, queryVars, session, stored, shownDefault, edits, saves>>

-----------------------------------------------------------------------------
Init ==
    /\ at = None /\ predicate = None /\ group = "" /\ search = "" /\ fields = {}
    /\ active = [s \in DOMAIN Screens |-> Unvisited]
    /\ session = [s \in DOMAIN Screens |-> [phases |-> None, search |-> ""]]
    /\ stored = [s \in DOMAIN Screens |-> None]
    /\ filters = {} /\ shownDefault = None /\ saving = None /\ edits = 0 /\ saves = 0
    /\ views = [i \in {Of(s).preset : s \in DOMAIN Screens} \ {None} |->
                   LET s == CHOOSE t \in DOMAIN Screens : Of(t).preset = i
                   IN [screen |-> s, pred |-> Of(s).pred, group |-> Of(s).group]]
    /\ defaults = [s \in DOMAIN Screens |-> Of(s).preset]

Next ==
    \/ \E s \in DOMAIN Screens : openScreen(s)
    \/ reload
    \/ \E ph \in Phases : togglePhase(ph)
    \/ at # None /\ \E v \in Of(at).values : toggleValue(v)
    \/ \E id \in DOMAIN Snippets : toggleSnippet(id)
    \/ editTree
    \/ \E n \in {"", "word", "1", "1,2"}, fs \in {{"title"}, {"body"}, {"title", "body"}} : typeSearch(n, fs)
    \/ pickGroup("assignee") \/ pickGroup("")
    \/ \E id \in filters \cup {None} : applyPreset(id)
    \/ clearAll
    \/ saveCurrentAsNew \/ setActiveAsDefault \/ deleteActive
    \/ \E ok \in BOOLEAN : landSave(ok)
Spec == Init /\ [][Next]_vars

-----------------------------------------------------------------------------
TypeOK ==
    /\ at \in DOMAIN Screens \cup {None}
    /\ \A s \in DOMAIN Screens : active[s] \in Int \cup {None}
    /\ filters \subseteq Int /\ defaults \in [DOMAIN Screens -> Int \cup {None}]
    /\ topLevelPhases(predicate) \subseteq Phases

(* The query asks for the cards the filter, the search and the screen's scope *)
(* describe, in whichever of its two forms it is sent (predicate.ts:659).     *)
SearchFinds(c) ==
    \/ search = ""
    \/ c.id \in Ids(search)
    \/ search = "word" /\ \E f \in fields : c[f]
QueryMeans ==
    (predicate # None => isValid(predicate)) =>
        LET q == withScopeTree(applySearchFilter(search, fields, predicate), scopeTree) IN
        \A c \in Cards :
            (\A i \in DOMAIN q.where : Holds(q.where[i], c)) /\ HoldsAll(q.tree, c)
                <=> HoldsAll(predicate, c) /\ SearchFinds(c) /\ HoldsAll(scopeTree, c)

(* The chips and the phase boxes say what the filter does: no card that is     *)
(* listed lies outside the values they show.                                *)
ChipsTrue ==
    predicate # None /\ isValid(predicate) =>
        \A c \in Cards : Holds(predicate, c) =>
            /\ topLevelPhases(predicate) # {} => c.phase \in topLevelPhases(predicate)
            /\ selectedValues(predicate, "assignee") # {} => c.assignee \in selectedValues(predicate, "assignee")

(* A screen shows a filter of its own: nothing of the screen left before, and  *)
(* after a reload nothing that was not stored.                              *)
Uses(p) == IF p = None THEN {} ELSE UNION {q.vals : q \in {r \in Nodes(p) : IsLeaf(r) /\ r.attr = "assignee"}}
OwnView == at # None => Uses(predicate) \subseteq Of(at).values

(* With nothing on its way the list shows the screen's views as the server     *)
(* has them.                                                              *)
ViewsListed == at # None /\ saving = None => filters = {v \in DOMAIN views : views[v].screen = at}

(* "selection always rides a predicate change" (screen-filter-bar.ts:628): the *)
(* selected view is the one a reload selects again.                          *)
SelectionStored == at # None /\ saving = None => stored[at].active = active[at]
=============================================================================

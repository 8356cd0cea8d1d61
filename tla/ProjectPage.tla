---------------------------- MODULE ProjectPage ----------------------------
(***************************************************************************)
(* A project's own page (project-detail/): its header, its tasks under the      *)
(* screen's search and filter, and the panel that edits its properties; and the *)
(* switches of its areas (areas/area-switches.ts), also a page of their own,     *)
(* where the project picked changes. Each behaviour follows one of them.         *)
(* The page is spawned again for another project (AppShell), so it has one.      *)
(***************************************************************************)
EXTENDS Integers, Sequences, FiniteSets

CONSTANTS
    Named,      \* the tasks whose title has the needle
    Flat,       \* the tasks that match the flat filter
    Later,      \* a task an import adds
    MaxCalls,   \* bound: batches sent
    Patient     \* whether the user waits for every answer

VARIABLES
    panel,
    calls, asked, missed,
    header, tabs, tasks, sel, search, pred, went, \* the page; went: the task it was left for
    open, pproj, schema, labels, text, row, \* the properties panel; what its inputs hold; the open attribute's value
    scope, areas, loaded, confirming, busy, errs, seq, \* the switches
    srv, imported, sareas \* the server's project, whether the import ran, and each project's areas

pageVars == <<header, tabs, tasks, sel, search, pred, went>>
panelVars == <<open, pproj, schema, labels, text, row>>
areaVars == <<scope, areas, loaded, confirming, busy, errs, seq>>
server == <<srv, imported, sareas>>
vars == <<panel, calls, asked, missed, pageVars, panelVars, areaVars, server>>

Unread == [title |-> 0, desc |-> 0, lead |-> 0]
Preds == {"none", "flat", "tree"}
Free == Patient => calls = {}
Tasks == Named \cup Flat

Call(kind, attr, to, prev) ==
    [kind |-> kind, n |-> 0, state |-> "sent", attr |-> attr, to |-> to, prev |-> prev, got |-> {}, proj |-> Unread]
(* The calls of one tick are one batch, answered in their order.                 *)
Send(after, cs) ==
    /\ asked + Len(cs) <= MaxCalls /\ asked' = asked + Len(cs)
    /\ calls' = after \cup {[cs[i] EXCEPT !.n = asked + i] : i \in DOMAIN cs}
Answered(c, kind) == c \in calls /\ c.kind = kind /\ c.state # "sent"
Ok(c) == c.state = "done"
Here == panel = "project" /\ went = 0

-----------------------------------------------------------------------------
(* project-layout.ts: a filter that is not a flat AND is not asked of the        *)
(* server, nor applied to what it answers.                                   *)
Where(s, p) == (IF s = 1 THEN Named ELSE Tasks) \cap (IF p = "flat" THEN Flat ELSE Tasks)
(* A list is in the order of its numbers.                                  *)
InOrder(S) == [n \in 1 .. Cardinality(S) |-> CHOOSE t \in S : Cardinality({u \in S : u < t}) = n - 1]
loadTasks(s, p) == <<Call("tasks", p, s, 0)>>
setFilter(s, p) ==
    /\ Here /\ Free /\ <<s, p>> # <<search, pred>> /\ search' = s /\ pred' = p
    /\ Send(calls, loadTasks(s, p))
    /\ UNCHANGED <<panel, missed, header, tabs, tasks, sel, went, panelVars, areaVars, server>>
import ==
    /\ Here /\ Free /\ ~imported /\ imported' = TRUE /\ Send(calls, loadTasks(search, pred))
    /\ UNCHANGED <<panel, missed, pageVars, panelVars, areaVars, srv, sareas>>
landTasks(c) ==
    /\ Answered(c, "tasks") /\ calls' = calls \ {c}
    /\ IF Ok(c) THEN tasks' = InOrder(c.got) /\ sel' = 1 ELSE UNCHANGED <<tasks, sel>>
    /\ missed' = (missed \/ ~Ok(c))
    /\ UNCHANGED <<panel, asked, header, tabs, search, pred, went, panelVars, areaVars, server>>
landScreens(c) ==
    /\ Answered(c, "screens") /\ calls' = calls \ {c} /\ tabs' = (tabs \/ Ok(c)) /\ missed' = (missed \/ ~Ok(c))
    /\ UNCHANGED <<panel, asked, header, tasks, sel, search, pred, went, panelVars, areaVars, server>>
landHeader(c) ==
    /\ Answered(c, "header") /\ calls' = calls \ {c} /\ missed' = (missed \/ ~Ok(c))
    /\ header' = IF Ok(c) THEN c.proj ELSE header
    /\ UNCHANGED <<panel, asked, tabs, tasks, sel, search, pred, went, panelVars, areaVars, server>>
moveSelection(d) ==
    /\ Here /\ ~open
    /\ sel' = IF tasks = <<>> \/ sel + d < 1 THEN 1 ELSE IF sel + d > Len(tasks) THEN Len(tasks) ELSE sel + d
    /\ UNCHANGED <<panel, calls, asked, missed, header, tabs, tasks, search, pred, went, panelVars, areaVars, server>>
(* Leaving destroys the page: no answer reaches it.                          *)
openTask(i) ==
    /\ Here /\ i \in DOMAIN tasks /\ went' = tasks[i] /\ sel' = i /\ calls' = {}
    /\ UNCHANGED <<panel, asked, missed, header, tabs, tasks, search, pred, panelVars, areaVars, server>>
openSelected == openTask(sel)

-----------------------------------------------------------------------------
(* project-properties-panel.ts.                                              *)
openProperties ==
    /\ Here /\ Free /\ ~open /\ open' = TRUE
    /\ pproj' = Unread /\ text' = [title |-> 0, desc |-> 0] /\ row' = 0
    /\ Send(calls, IF schema THEN <<Call("project", "", 0, 0)>> ELSE <<Call("project", "", 0, 0), Call("schema", "", 0, 0)>>)
    /\ UNCHANGED <<panel, missed, pageVars, schema, labels, areaVars, server>>
close ==
    /\ Here /\ open /\ open' = FALSE
    /\ UNCHANGED <<panel, calls, asked, missed, pageVars, pproj, schema, labels, text, row, areaVars, server>>

resolveRefLabels(p) == IF schema /\ p.lead # 0 THEN <<Call("labels", "", p.lead, 0)>> ELSE <<>>
TextOf(p) == [title |-> p.title, desc |-> p.desc]
landProject(c) ==
    /\ Answered(c, "project") /\ missed' = (missed \/ ~Ok(c))
    /\ IF Ok(c) THEN /\ pproj' = c.proj /\ text' = TextOf(c.proj) /\ row' = 0
                     /\ Send(calls \ {c}, resolveRefLabels(c.proj))
       ELSE calls' = calls \ {c} /\ UNCHANGED <<asked, pproj, text, row>>
    /\ UNCHANGED <<panel, pageVars, open, schema, labels, areaVars, server>>
landSchema(c) ==
    /\ Answered(c, "schema") /\ (\A d \in calls : d.n # c.n - 1) /\ calls' = calls \ {c}
    /\ schema' = (schema \/ Ok(c)) /\ missed' = (missed \/ ~Ok(c)) /\ row' = IF Ok(c) THEN 0 ELSE row
    /\ UNCHANGED <<panel, asked, pageVars, open, pproj, labels, text, areaVars, server>>
landLabels(c) ==
    /\ Answered(c, "labels") /\ calls' = calls \ {c} /\ missed' = (missed \/ ~Ok(c))
    /\ labels' = IF Ok(c) THEN labels \cup {c.to} ELSE labels
    /\ row' = IF Ok(c) THEN 0 ELSE row
    /\ UNCHANGED <<panel, asked, pageVars, open, pproj, schema, text, areaVars, server>>
summaryFor == IF pproj.lead \in labels THEN "title" ELSE "number"

type(a, v) ==
    /\ Here /\ open /\ pproj # Unread /\ text[a] # v /\ text' = [text EXCEPT ![a] = v]
    /\ UNCHANGED <<panel, calls, asked, missed, pageVars, open, pproj, schema, labels, row, areaVars, server>>
commitAttribute(a, v) ==
    /\ pproj # Unread /\ pproj' = [pproj EXCEPT ![a] = v] /\ header' = pproj'
    /\ text' = IF a \in DOMAIN text THEN [text EXCEPT ![a] = v] ELSE text
    /\ Send(calls, <<Call("save", a, v, pproj[a])>>)
    /\ UNCHANGED <<panel, missed, tabs, tasks, sel, search, pred, went, open, schema, labels, row, areaVars, server>>
commitTitle ==
    /\ Here /\ open /\ Free /\ text.title \notin {0, pproj.title}
    /\ commitAttribute("title", text.title)
revertText(a) ==
    /\ Here /\ open /\ text[a] # pproj[a] /\ text' = [text EXCEPT ![a] = pproj[a]]
    /\ UNCHANGED <<panel, calls, asked, missed, pageVars, open, pproj, schema, labels, row, areaVars, server>>
commitDescription == Here /\ open /\ Free /\ text.desc # pproj.desc /\ commitAttribute("desc", text.desc)
mountEditor ==
    /\ Here /\ open /\ pproj # Unread /\ schema /\ row = 0 /\ row' = 1
    /\ UNCHANGED <<panel, calls, asked, missed, pageVars, open, pproj, schema, labels, text, areaVars, server>>
pick(v) == Here /\ open /\ row = 1 /\ Free /\ commitAttribute("lead", v)
landSave(c) ==
    /\ Answered(c, "save")
    /\ IF Ok(c) THEN Send(calls \ {c}, resolveRefLabels(pproj)) /\ UNCHANGED <<header, pproj, text>>
       ELSE /\ calls' = calls \ {c} /\ UNCHANGED asked
            /\ pproj' = IF pproj = Unread THEN Unread ELSE [pproj EXCEPT ![c.attr] = c.prev]
            /\ text' = IF c.attr \in DOMAIN text THEN [text EXCEPT ![c.attr] = pproj'[c.attr]] ELSE text
            /\ header' = IF pproj = Unread THEN header ELSE pproj'
    /\ UNCHANGED <<panel, missed, tabs, tasks, sel, search, pred, went, open, schema, labels, row, areaVars, server>>

-----------------------------------------------------------------------------
(* area-switches.ts: area 2 needs area 1.                                    *)
Keys == {1, 2}
Unswitched(on) == Send(on, <<Call("areas", "", scope', seq')>>)
load ==
    /\ panel = "areas" /\ seq = 0 /\ seq' = 1 /\ UNCHANGED scope /\ Unswitched(calls)
    /\ UNCHANGED <<panel, missed, pageVars, panelVars, areas, loaded, confirming, busy, errs, server>>
pickProject ==
    /\ panel = "areas" /\ Free /\ seq > 0 /\ scope' = 3 - scope /\ seq' = seq + 1
    /\ areas' = {} /\ loaded' = FALSE /\ confirming' = 0 /\ errs' = {} /\ Unswitched(calls)
    /\ UNCHANGED <<panel, missed, pageVars, panelVars, busy, server>>
landAreas(c) ==
    /\ Answered(c, "areas") /\ calls' = calls \ {c}
    /\ loaded' = (loaded \/ c.prev = seq)
    /\ missed' = IF c.prev = seq THEN ~Ok(c) ELSE missed
    /\ IF Ok(c) /\ c.prev = seq THEN areas' = c.got /\ busy' = 0 ELSE UNCHANGED <<areas, busy>>
    /\ UNCHANGED <<panel, asked, pageVars, panelVars, scope, confirming, errs, seq, server>>
rowOf(k) == panel = "areas" /\ loaded /\ \E a \in areas : a[1] = k
isOn(k) == <<k, TRUE>> \in areas
confirm(k) ==
    /\ rowOf(k) /\ isOn(k) /\ busy # k /\ confirming' = k
    /\ UNCHANGED <<panel, calls, asked, missed, pageVars, panelVars, scope, areas, loaded, busy, errs, seq, server>>
cancel ==
    /\ confirming # 0 /\ busy # confirming /\ confirming' = 0
    /\ UNCHANGED <<panel, calls, asked, missed, pageVars, panelVars, scope, areas, loaded, busy, errs, seq, server>>
set(k, on) ==
    /\ rowOf(k) /\ busy # k /\ Free /\ (IF on THEN ~isOn(k) /\ confirming # k ELSE confirming = k)
    /\ busy' = k /\ confirming' = 0 /\ errs' = {e \in errs : e[2] # k}
    /\ Send(calls, <<Call("set", IF on THEN "on" ELSE "off", scope, k)>>)
    /\ UNCHANGED <<panel, missed, pageVars, panelVars, scope, areas, loaded, seq, server>>
landSet(c) ==
    /\ Answered(c, "set") /\ UNCHANGED scope
    /\ IF Ok(c) THEN seq' = seq + 1 /\ Unswitched(calls \ {c}) /\ UNCHANGED <<busy, errs>>
       ELSE busy' = 0 /\ errs' = errs \cup {<<c.to, c.prev>>} /\ calls' = calls \ {c} /\ UNCHANGED <<asked, seq>>
    /\ UNCHANGED <<panel, missed, pageVars, panelVars, areas, loaded, confirming, server>>

-----------------------------------------------------------------------------
(* card.select_with_attributes, attribute.update, area.list and area.set.        *)
ServerRuns(c) ==
    /\ c \in calls /\ c.state = "sent"
    /\ c.kind = "set" /\ c.attr = "off" => ~(c.prev = 1 /\ <<2, TRUE>> \in sareas[c.to])
    /\ calls' = (calls \ {c}) \cup {[c EXCEPT !.state = "done", !.proj = IF c.kind \in {"project", "header"} THEN srv ELSE Unread, !.got =
            CASE c.kind = "tasks" -> Where(c.to, c.attr) \ (IF imported THEN {} ELSE {Later})
              [] c.kind = "areas" -> sareas[c.to]
              [] OTHER -> {}]}
    /\ srv' = IF c.kind = "save" THEN [srv EXCEPT ![c.attr] = c.to] ELSE srv
    /\ sareas' = IF c.kind # "set" THEN sareas
                 ELSE [sareas EXCEPT ![c.to] = {<<k, IF c.attr = "on" /\ k <= c.prev THEN TRUE
                                                    ELSE IF k = c.prev THEN FALSE ELSE <<k, TRUE>> \in sareas[c.to]>> : k \in Keys}]
    /\ UNCHANGED <<panel, asked, missed, pageVars, panelVars, areaVars, imported>>
Refused(c) ==
    /\ c \in calls /\ c.state = "sent" /\ calls' = (calls \ {c}) \cup {[c EXCEPT !.state = "refused"]}
    /\ UNCHANGED <<panel, asked, missed, pageVars, panelVars, areaVars, server>>

Init ==
    /\ panel \in {"project", "areas"} /\ missed = FALSE
    /\ IF panel = "project"
       THEN asked = 3 /\ calls = {[Call(<<"header", "screens", "tasks">>[i], "none", 0, 0) EXCEPT !.n = i] : i \in 1 .. 3}
       ELSE asked = 0 /\ calls = {}
    /\ header = Unread /\ tabs = FALSE /\ tasks = <<>> /\ sel = 1 /\ search = 0 /\ pred = "none" /\ went = 0
    /\ open = FALSE /\ pproj = Unread /\ schema = FALSE /\ labels = {} /\ text = [title |-> 0, desc |-> 0] /\ row = 0
    /\ scope = 1 /\ areas = {} /\ loaded = FALSE /\ confirming = 0 /\ busy = 0 /\ errs = {} /\ seq = 0
    /\ srv = [title |-> 1, desc |-> 0, lead |-> 1] /\ imported = FALSE
    /\ sareas = <<{<<1, FALSE>>, <<2, FALSE>>}, {<<1, TRUE>>, <<2, FALSE>>}>>
Next ==
    \/ \E s \in {0, 1}, p \in Preds : setFilter(s, p)
    \/ import \/ (\E d \in {-1, 1} : moveSelection(d)) \/ openSelected \/ openProperties \/ close
    \/ \E a \in DOMAIN text : (\E v \in {0, 2} : type(a, v)) \/ revertText(a)
    \/ commitTitle \/ commitDescription \/ mountEditor \/ (\E v \in {0, 2} : pick(v))
    \/ load \/ pickProject \/ cancel \/ (\E k \in Keys : confirm(k) \/ \E on \in BOOLEAN : set(k, on))
    \/ \E c \in calls : \/ landTasks(c) \/ landScreens(c) \/ landHeader(c) \/ landProject(c) \/ landSchema(c) \/ landLabels(c)
                         \/ landSave(c) \/ landAreas(c) \/ landSet(c) \/ ServerRuns(c) \/ Refused(c)
Spec == Init /\ [][Next]_vars

-----------------------------------------------------------------------------
TypeOK ==
    /\ panel \in {"project", "areas"} /\ pred \in Preds /\ sel \in 1 .. Cardinality(Tasks) + 1
    /\ busy \in {0} \cup Keys /\ confirming \in {0} \cup Keys /\ labels \subseteq 1 .. 2

(* With nothing on its way and no read failed, the page and its panel show the   *)
(* server's project, the tasks of the search and filter last set, and the areas  *)
(* of the project picked, none of them waiting.                              *)
ProjectTrue ==
    calls = {} /\ ~missed =>
        /\ Here => header = srv /\ tabs
                   /\ tasks = InOrder(Where(search, pred) \ (IF imported THEN {} ELSE {Later}))
        /\ Here /\ open => pproj = srv
        /\ panel = "areas" /\ loaded => areas = sareas[scope] /\ busy = 0

(* A switch's refusal is shown by the project it was refused for.             *)
RefusalsOwn == \A e \in errs : e[1] = scope

(* A card reference is shown by its title once its title could be read.         *)
LabelsResolve == Here /\ open /\ schema /\ calls = {} /\ ~missed /\ pproj.lead # 0 => summaryFor = "title"

-----------------------------------------------------------------------------
(* What holds at every step of a user who waits: a switch that is being set is of the *)
(* project picked, which is why its refusal is too.                             *)
CallShape(c) ==
    c = [kind |-> c.kind, n |-> c.n, state |-> c.state, attr |-> c.attr, to |-> c.to,
         prev |-> c.prev, got |-> c.got, proj |-> c.proj]
SetsHere == \A c \in calls : CallShape(c) /\ (c.kind = "set" => c.to = scope)
Inv == SetsHere /\ RefusalsOwn
=============================================================================

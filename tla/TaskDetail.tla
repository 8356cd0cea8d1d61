----------------------------- MODULE TaskDetail -----------------------------
(***************************************************************************)
(* One card's screen (task-detail/task-detail.ts, panel-model.ts): it waits  *)
(* for what it needs before it shows anything, may send the user to another   *)
(* screen instead, then edits the title, the description and the panel's      *)
(* attributes, each shown at once, and polls for activity of others.          *)
(***************************************************************************)
EXTENDS Integers, FiniteSets

CONSTANTS
    Imperative,  \* attributes edited in place: title, description
    PanelAttrs,  \* those edited by the panel's rows
    Values,    \* what an attribute may hold
    None,
    MaxSaves,  \* bound: saves made
    MaxNews,   \* bound: the server's newest activity id
    MaxPolls,  \* bound: polls under way
    Patient    \* whether an attribute is edited again only when its save has ended

VARIABLES
    profile,   \* of the screen: redirects a comm, has a parent route
    card,      \* what the id names: "card", "comm" or "gone"; and whether its parent has a screen
    view,      \* "loading", "landing", "shown", "notFound" or "left"
    asked,     \* reads of the load that have no answer yet: gates of afterAll
    task,      \* task.attributes and the panel's state of each
    editing,   \* the draft in each open editor, or None
    saves, made,
    overlay,   \* the menu or the dialog that is open
    poll,      \* pollSinceId, pollNewCount
    polls,     \* polls under way
    server,    \* the card's attributes on the server
    news       \* its newest activity id

loadVars == <<profile, card, asked>>
editVars == <<task, editing, saves, made>>
pollVars == <<poll, polls>>
serverVars == <<server, news>>
vars == <<loadVars, view, editVars, overlay, pollVars, serverVars>>

Attrs == Imperative \cup PanelAttrs
First == CHOOSE v \in Values : TRUE

Init ==
    /\ profile \in {[redirects |-> b, via |-> ~b] : b \in BOOLEAN}   \* a task, a page
    /\ card \in {[is |-> "card", shownByParent |-> b] : b \in BOOLEAN}
               \cup {[is |-> x, shownByParent |-> FALSE] : x \in {"comm", "gone"}}
    /\ view = "loading" /\ asked = {"task"}
    /\ task = [a \in Attrs |-> [value |-> None, is |-> "unset"]]
    /\ editing = [a \in Imperative |-> None]
    /\ saves = {} /\ made = 0 /\ overlay = None
    /\ poll = [since |-> 0, new |-> 0] /\ polls = {}
    /\ server = [a \in Attrs |-> First] /\ news = 0

-----------------------------------------------------------------------------
(* Loading.  A read of the card that fails leaves the screen as it is.       *)
Gates == {"areas", "labels"} \cup (IF profile.via THEN {"parent"} ELSE {})

(* What a gate stands for, answered or not (loadSectionAreas has both).       *)
LeavesOpen(gate) == asked' = asked \ {gate}

(* The card, or none: a comm may be its parent's (redirectIfCommCard).       *)
loadTask(answered) ==
    /\ view = "loading" /\ "task" \in asked
    /\ CASE ~answered -> asked' = {} /\ UNCHANGED <<view, task>>
         [] card.is = "card" -> /\ view' = "landing"
                                /\ asked' = Gates
                                /\ task' = [a \in Attrs |-> [value |-> server[a], is |-> "value"]]
         [] OTHER -> /\ IF profile.redirects THEN asked' = {"comm"} /\ UNCHANGED view
                                            ELSE asked' = {} /\ view' = "notFound"
                     /\ UNCHANGED task
    /\ UNCHANGED <<profile, card, editing, saves, made, overlay, pollVars, serverVars>>

redirectIfCommCard(answered) ==
    /\ "comm" \in asked
    /\ asked' = {}
    /\ view' = IF answered /\ card.is = "comm" THEN "left" ELSE "notFound"
    /\ UNCHANGED <<profile, card, editVars, overlay, pollVars, serverVars>>

(* The gates of landTask; each passes on an answer and on a fault.           *)
pollOnce(seed, more) == Cardinality(more) < MaxPolls /\ polls' = more \cup {[seed |-> seed, since |-> poll.since, answer |-> None]}
showLoaded == view' = "shown" /\ pollOnce(TRUE, {}) /\ UNCHANGED poll
paint == IF asked' = {} THEN showLoaded ELSE UNCHANGED <<view, pollVars>>
openOnParentIfItIs(answered) ==
    IF answered /\ card.shownByParent THEN view' = "left" /\ UNCHANGED pollVars
                                      ELSE paint
Gate(gate, answered) ==
    /\ view = "landing" /\ gate \in asked
    /\ LeavesOpen(gate)
    /\ IF gate = "parent" THEN openOnParentIfItIs(answered) ELSE paint
    /\ UNCHANGED <<profile, card, editVars, overlay, serverVars>>

-----------------------------------------------------------------------------
(* Editing in place.                                                       *)
Saving(a) == \E s \in saves : s.attr = a

Draft(a) == task[a].value   \* titleText, descriptionText
startEdit(a) ==
    /\ view = "shown" /\ overlay = None /\ editing[a] = None
    /\ Patient => ~Saving(a)
    /\ editing' = [editing EXCEPT ![a] = Draft(a)]
    /\ UNCHANGED <<loadVars, view, task, saves, made, overlay, pollVars, serverVars>>
type(a, v) ==
    /\ view = "shown" /\ editing[a] \notin {None, v}
    /\ editing' = [editing EXCEPT ![a] = v]
    /\ UNCHANGED <<loadVars, view, task, saves, made, overlay, pollVars, serverVars>>
cancelEdit(a) ==
    /\ view = "shown" /\ editing[a] # None
    /\ editing' = [editing EXCEPT ![a] = None]
    /\ UNCHANGED <<loadVars, view, task, saves, made, overlay, pollVars, serverVars>>

(* The value is shown and sent; the one it replaces is kept for a fault.    *)
commitAttribute(a, v) ==
    /\ made < MaxSaves
    /\ made' = made + 1
    /\ task' = [task EXCEPT ![a] = [value |-> v, is |-> "pending"]]
    /\ saves' = saves \cup {[n |-> made + 1, attr |-> a, value |-> v, prev |-> task[a].value, ran |-> "no"]}

(* commitTitle, commitDescription; blur after Enter finds the editor closed. *)
commitEdit(a) ==
    /\ view = "shown" /\ editing[a] # None
    /\ editing' = [editing EXCEPT ![a] = None]
    /\ IF editing[a] = Draft(a) THEN UNCHANGED <<task, saves, made>>
                                     ELSE commitAttribute(a, editing[a])
    /\ UNCHANGED <<loadVars, view, overlay, pollVars, serverVars>>

(* A row of the panel is disabled while its save is pending.                *)
panelCommit(a, v) ==
    /\ view = "shown" /\ overlay = None /\ a \in PanelAttrs /\ task[a].is # "pending" /\ v # task[a].value
    /\ commitAttribute(a, v)
    /\ UNCHANGED <<loadVars, view, editing, overlay, pollVars, serverVars>>

(* PanelModel: a confirm of what is not pending changes nothing.            *)
confirmCommit(p) == IF p.is = "pending" THEN [p EXCEPT !.is = "value"] ELSE p
rejectCommit(prev) == [value |-> prev, is |-> "error"]

(* postRender builds an open editor anew, from the value put back.           *)
landSave(s) ==
    /\ view # "left" /\ s.ran # "no"
    /\ saves' = saves \ {s}
    /\ IF s.ran = "yes"
       THEN /\ task' = [task EXCEPT ![s.attr] = confirmCommit(task[s.attr])]
            /\ pollOnce(TRUE, polls)      \* noteOwnActivity
            /\ UNCHANGED editing
       ELSE /\ task' = [task EXCEPT ![s.attr] = rejectCommit(s.prev)]
            /\ editing' = IF s.attr \in Imperative /\ editing[s.attr] # None
                          THEN [editing EXCEPT ![s.attr] = s.prev] ELSE editing
            /\ UNCHANGED polls
    /\ UNCHANGED <<loadVars, view, made, overlay, poll, serverVars>>

-----------------------------------------------------------------------------
(* The actions menu, the move and the purge.                                *)
toggleActionsMenu ==
    /\ view = "shown" /\ overlay \in {None, "menu"} /\ \A a \in Imperative : editing[a] = None
    /\ overlay' = IF overlay = None THEN "menu" ELSE None
    /\ UNCHANGED <<loadVars, view, editVars, pollVars, serverVars>>
openDialog(d) ==
    /\ view = "shown" /\ overlay = "menu"
    /\ overlay' = d
    /\ UNCHANGED <<loadVars, view, editVars, pollVars, serverVars>>
closeDialog ==
    /\ view = "shown" /\ overlay \in {"move", "purge"}
    /\ overlay' = None
    /\ UNCHANGED <<loadVars, view, editVars, pollVars, serverVars>>

(* doMove, doPurge: the dialog closes at once; the answer, if one comes that *)
(* is no fault, leaves for the destination or the list.                      *)
confirmDialog(answered) ==
    /\ view = "shown" /\ overlay \in {"move", "purge"}
    /\ overlay' = None
    /\ view' = IF answered THEN "left" ELSE view
    /\ UNCHANGED <<loadVars, editVars, pollVars, serverVars>>
jumpTask ==   \* and goBack
    /\ view = "shown"
    /\ view' = "left"
    /\ UNCHANGED <<loadVars, editVars, overlay, pollVars, serverVars>>

-----------------------------------------------------------------------------
(* The background poll: each tick asks what came after pollSinceId.          *)
tick ==
    /\ view = "shown" /\ \A p \in polls : p.seed
    /\ pollOnce(FALSE, polls)
    /\ UNCHANGED <<loadVars, view, editVars, overlay, poll, serverVars>>
refreshFeeds ==
    /\ view = "shown" /\ poll.new > 0 /\ polls = {}
    /\ pollOnce(TRUE, polls)
    /\ UNCHANGED <<loadVars, view, editVars, overlay, poll, serverVars>>
landPoll(p) ==
    /\ view = "shown" /\ p.answer # None
    /\ polls' = polls \ {p}
    /\ poll' = IF p.seed THEN [since |-> p.answer, new |-> 0] ELSE [poll EXCEPT !.new = p.answer]
    /\ UNCHANGED <<loadVars, view, editVars, overlay, serverVars>>

-----------------------------------------------------------------------------
ServerSaves(s) ==
    /\ s.ran = "no"
    /\ \/ /\ server' = [server EXCEPT ![s.attr] = s.value]
          /\ news < MaxNews /\ news' = news + 1
          /\ saves' = (saves \ {s}) \cup {[s EXCEPT !.ran = "yes"]}
       \/ saves' = (saves \ {s}) \cup {[s EXCEPT !.ran = "refused"]} /\ UNCHANGED serverVars
    /\ UNCHANGED <<loadVars, view, task, editing, made, overlay, pollVars>>
ServerPolls(p) ==
    /\ p.answer = None
    /\ \/ polls' = (polls \ {p}) \cup {[p EXCEPT !.answer = IF p.seed THEN news ELSE news - p.since]}
       \/ polls' = polls \ {p}
    /\ UNCHANGED <<loadVars, view, editVars, overlay, poll, serverVars>>
Others ==
    /\ view = "shown" /\ news < MaxNews - MaxSaves
    /\ news' = news + 1
    /\ UNCHANGED <<loadVars, view, editVars, overlay, pollVars, server>>

Next ==
    \/ \E ok \in BOOLEAN : loadTask(ok) \/ redirectIfCommCard(ok) \/ confirmDialog(ok)
                           \/ \E g \in {"areas", "labels", "parent"} : Gate(g, ok)
    \/ \E a \in Imperative : startEdit(a) \/ cancelEdit(a) \/ commitEdit(a) \/ \E v \in Values : type(a, v)
    \/ \E a \in Attrs, v \in Values : panelCommit(a, v)
    \/ \E s \in saves : landSave(s) \/ ServerSaves(s)
    \/ toggleActionsMenu \/ (\E d \in {"move", "purge"} : openDialog(d)) \/ closeDialog \/ jumpTask
    \/ tick \/ refreshFeeds \/ Others \/ \E p \in polls : landPoll(p) \/ ServerPolls(p)

Spec == Init /\ [][Next]_vars

-----------------------------------------------------------------------------
TypeOK ==
    /\ view \in {"loading", "landing", "shown", "notFound", "left"}
    /\ task \in [Attrs -> [value : Values \cup {None}, is : {"unset", "value", "pending", "error"}]]
    /\ editing \in [Imperative -> Values \cup {None}]
    /\ poll.since \in 0 .. MaxNews /\ poll.new \in 0 .. MaxNews

(* With no save under way an attribute shows what the server has, and none    *)
(* is shown as pending.                                                     *)
AttributesTrue ==
    view = "shown" => \A a \in Attrs :
        ~Saving(a) => task[a].value = server[a] /\ task[a].is # "pending"

(* A draft changes only by its user's typing, saving or giving it up.       *)
DraftKeptStep ==
    \A a \in Imperative : editing[a] # None /\ editing'[a] # None /\ editing'[a] # editing[a]
          => saves' = saves
DraftKept == [][DraftKeptStep]_vars
=============================================================================

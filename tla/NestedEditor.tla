---------------------------- MODULE NestedEditor ----------------------------
(***************************************************************************)
(* The editors that hang below a selected row of an admin screen            *)
(* (admin/nested-editor.ts): a workflow's transitions, an agent's tokens and *)
(* roles, a screen's filters, the role mappings.  Selecting a row loads the slices of its       *)
(* editor under one gate (loadSeq); each write loads again what it changed.  *)
(* An agent's two slices share the gate, and their writes load the agent     *)
(* they were for, whoever is selected by then.                               *)
(***************************************************************************)
EXTENDS Integers, FiniteSets

CONSTANTS
    Items,      \* rows of the screen
    None,
    MaxCalls,   \* bound: calls made
    Patient     \* whether a row's reads and writes end before the next is selected or written

VARIABLES
    kind,       \* which editor this is
    items,      \* the parent's rows
    selected,   \* the parent's selectedId
    shown,      \* what each slice shows: a row and the version read of it
    calls,      \* calls under way
    made,
    failed,     \* slices whose newest read had a fault
    preview,    \* what the delete guard shows: the summary of the row previewed, or Blockers
    version     \* version[s][i]: writes the server has committed to a row's slice

vars == <<kind, items, selected, shown, calls, made, failed, preview, version>>

Kinds == {"flowSteps", "agentTokens", "screenFilters", "roleMappings"}
SlicesOf(k) == CASE k = "flowSteps" -> {"steps", "valueCards"}
                 [] k = "agentTokens" -> {"tokens", "agentRoles"}
                 [] k = "screenFilters" -> {"filters"}
                 [] k = "roleMappings" -> {"mappings"}
Slices == SlicesOf(kind)
NoAnswer == -1   \* a fault
Blockers == "blockers"   \* why a delete was refused, in the summary's place
Nothing == [item |-> None, version |-> 0]
Version == 0 .. MaxCalls
Call == [n : 1 .. MaxCalls, op : {"read", "write", "rename", "preview", "delete"}, slice : Slices \cup {None},
         item : Items, counts : BOOLEAN, answer : Version \cup {None, NoAnswer}]

Init ==
    /\ kind \in Kinds
    /\ items = Items
    /\ selected = None
    /\ shown = [s \in Slices |-> Nothing]
    /\ calls = {}
    /\ made = 0
    /\ failed = {}
    /\ preview = None
    /\ version = [s \in Slices |-> [i \in Items |-> 0]]

-----------------------------------------------------------------------------
New(n, op, s, i) == [n |-> made + n, op |-> op, slice |-> s, item |-> i, counts |-> TRUE, answer |-> None]

(* ++loadSeq: no earlier read counts any more (a mutant leaves them); then  *)
(* one read per slice.                                                     *)
SupersedeNone(left) == left
Supersede(left) == {IF c.op = "read" THEN [c EXCEPT !.counts = FALSE] ELSE c : c \in left}
Reads(left, ss, i) ==
    LET number == CHOOSE f \in [ss -> 1 .. Cardinality(ss)] : \A s, t \in ss : s # t => f[s] # f[t]
    IN  /\ made + Cardinality(ss) <= MaxCalls
        /\ calls' = Supersede(left) \cup {New(number[s], "read", s, i) : s \in ss}
        /\ made' = made + Cardinality(ss)
        /\ failed' = failed \ ss

loadFor(left, i) ==
    IF i = None THEN calls' = left /\ UNCHANGED <<made, failed>> ELSE Reads(left, Slices, i)

(* After a write: reload() looks up the selection, loadTokens,              *)
(* loadAgentRoles and loadScreenFilters take the row the write was for.     *)
reloadAfter(left, c) ==
    IF kind = "flowSteps" THEN loadFor(left, selected) ELSE Reads(left, {c.slice}, c.item)

select(i) ==
    /\ i # selected
    /\ kind = "roleMappings" => selected = None   \* its one load, on mount
    /\ Patient => \A c \in calls : c.op = "read"
    /\ selected' = i
    /\ loadFor(calls, i)
    /\ UNCHANGED <<kind, items, shown, preview, version>>

Send(op, s) ==
    /\ selected # None
    /\ Patient => calls = {}
    /\ made < MaxCalls
    /\ calls' = calls \cup {New(1, op, s, selected)}
    /\ made' = made + 1
    /\ UNCHANGED <<kind, items, selected, shown, failed, preview, version>>

saveStep == kind = "flowSteps" /\ Send("write", "steps")           \* and deleteStep, reorderSteps
mintToken == kind = "agentTokens" /\ Send("write", "tokens")       \* and revokeToken
assignAgentRole == kind = "agentTokens" /\ Send("write", "agentRoles")  \* and revokeAgentRole
updateFilterAttr == kind = "screenFilters" /\ Send("write", "filters")  \* and addFilter, deleteFilter
setMapping == kind = "roleMappings" /\ Send("write", "mappings")   \* and deleteMapping
renameFlow == kind = "flowSteps" /\ Send("rename", None)
previewFlowDelete == kind = "flowSteps" /\ Send("preview", None)
(* The summary's own button, beside the row selected by now; the blockers have *)
(* none.                                                                   *)
confirmFlowDelete == kind = "flowSteps" /\ preview \in Items /\ Send("delete", None)
CancelDelete ==
    /\ preview \in Items
    /\ preview' = None
    /\ UNCHANGED <<kind, items, selected, shown, calls, made, failed, version>>

-----------------------------------------------------------------------------
ServerRuns(c) ==
    /\ c.answer = None
    /\ LET v == IF c.slice = None THEN 0 ELSE version[c.slice][c.item] + (IF c.op = "write" THEN 1 ELSE 0)
       IN  /\ calls' = (calls \ {c}) \cup {[c EXCEPT !.answer = v]}
           /\ version' = IF c.slice = None THEN version ELSE [version EXCEPT ![c.slice][c.item] = v]
    /\ UNCHANGED <<kind, items, selected, shown, made, failed, preview>>

Refused(c) ==
    /\ c.answer = None
    /\ calls' = (calls \ {c}) \cup {[c EXCEPT !.answer = NoAnswer]}
    /\ UNCHANGED <<kind, items, selected, shown, made, failed, preview, version>>

(* An answer, or a fault: a delete refused for its steps shows them in the   *)
(* guard, every other fault only a message.                                 *)
landRead(c) ==
    /\ c.op = "read"
    /\ calls' = calls \ {c}
    /\ shown' = IF c.counts /\ c.answer # NoAnswer
                THEN [shown EXCEPT ![c.slice] = [item |-> c.item, version |-> c.answer]] ELSE shown
    /\ failed' = IF c.counts /\ c.answer = NoAnswer THEN failed \cup {c.slice} ELSE failed
    /\ UNCHANGED <<items, selected, made, preview>>

landWrite(c) ==
    /\ c.op = "write"
    /\ IF c.answer = NoAnswer THEN calls' = calls \ {c} /\ UNCHANGED <<made, failed>>
                               ELSE reloadAfter(calls \ {c}, c)
    /\ UNCHANGED <<items, selected, shown, preview>>

(* The new name goes into the parent's rows, which wakes the load effect.   *)
landRename(c) ==
    /\ c.op = "rename"
    /\ IF c.answer = NoAnswer THEN calls' = calls \ {c} /\ UNCHANGED <<made, failed>>
                               ELSE loadFor(calls \ {c}, selected)
    /\ UNCHANGED <<items, selected, shown, preview>>

landPreview(c) ==
    /\ c.op = "preview"
    /\ calls' = calls \ {c}
    /\ preview' = IF c.answer = NoAnswer THEN preview ELSE c.item
    /\ UNCHANGED <<items, selected, shown, made, failed>>

removeParentItem(c) ==
    /\ c.op = "delete"
    /\ IF c.answer = NoAnswer
       THEN preview' \in {preview, Blockers} /\ calls' = calls \ {c} /\ UNCHANGED <<items, selected, made, failed>>
       ELSE /\ preview' = None
            /\ items' = items \ {c.item}
            /\ selected' = IF selected = c.item THEN None ELSE selected
            /\ loadFor(calls \ {c}, selected')
    /\ UNCHANGED shown

land(c) ==
    /\ c.answer # None
    /\ landRead(c) \/ landWrite(c) \/ landRename(c) \/ landPreview(c) \/ removeParentItem(c)
    /\ UNCHANGED <<kind, version>>

-----------------------------------------------------------------------------
Next ==
    \/ \E i \in items \cup {None} : select(i)
    \/ saveStep \/ mintToken \/ assignAgentRole \/ updateFilterAttr \/ setMapping
    \/ renameFlow \/ previewFlowDelete \/ confirmFlowDelete \/ CancelDelete
    \/ \E c \in calls : ServerRuns(c) \/ Refused(c) \/ land(c)

Spec == Init /\ [][Next]_vars

-----------------------------------------------------------------------------
TypeOK ==
    /\ selected \in items \cup {None}
    /\ preview \in Items \cup {None, Blockers}
    /\ shown \in [Slices -> [item : Items \cup {None}, version : Version]]
    /\ \A c \in calls : c.slice \in Slices \cup {None} /\ c.item \in Items /\ c.n <= made
    /\ Cardinality({c.n : c \in calls}) = Cardinality(calls)

(* With nothing under way and no fault, every slice shows the selected row   *)
(* as the server has it: "all under ONE load gate so a stale agent switch    *)
(* can't interleave" (loadAgentDetail).                                     *)
ShowsSelected ==
    calls = {} /\ selected # None =>
        \A s \in Slices \ failed : shown[s] = [item |-> selected, version |-> version[s][selected]]

(* A delete is sent for the row whose summary is shown beside its button:    *)
(* "a recycled / re-rendered editor never carries stale data"               *)
(* (nested-editor.ts:22).                                                  *)
DeletesPreviewed ==
    [][\A c \in calls' : c.n > made /\ c.op = "delete" => c.item = preview]_vars
=============================================================================

----------------------------- MODULE ProjectList ----------------------------
(***************************************************************************)
(* The project list (projects/project-list.ts): two optimistic lists, real  *)
(* projects and templates, with one dialog that creates and edits.  A        *)
(* created row has a negative id until its answer brings the real one.       *)
(*                                                                          *)
(* The three ways to make a project (plain, a stamp of a template, a         *)
(* composition of bundles) differ only in the call, as do the two to make a  *)
(* template.  A POST is refused or runs; its answer is not lost (WebData     *)
(* has that).                                                               *)
(***************************************************************************)
EXTENDS Integers, SequencesExt

CONSTANTS
    Titles,       \* titles
    Descriptions, \* descriptions that are not empty
    Blank,        \* the empty text
    None,
    MaxMade,      \* bound: rows created
    MaxPosts,     \* bound: POSTs made
    AddAnother,   \* whether a second one is created before the first's answer
    BothFields    \* whether one save may change title and description

VARIABLES
    projects, templates,   \* shell.projects, shell.projectTemplates: rows
    dialog,                \* what the dialog is for: None, a create or an edit of a row
    draft,                 \* its fields
    prompting,             \* the dismiss guard asks
    pendingOptimisticId,   \* the temporary id the next create's answer is for
    made,                  \* temporary ids given out
    posts,                 \* POSTs under way
    sent,                  \* POSTs made
    reading,               \* the templates query: "none", "sent" or what it read
    cards                  \* the server's projects: id -> row

listVars == <<projects, templates>>
dialogVars == <<dialog, draft, prompting>>
createVars == <<pendingOptimisticId, made>>
serverVars == <<posts, sent, reading, cards>>
vars == <<listVars, dialogVars, createVars, serverVars>>

Fields == [title : Titles \cup {Blank}, description : Descriptions \cup {Blank}, isTemplate : BOOLEAN]
RealIds == 1 .. MaxMade + 2
Row == [id : RealIds \cup {-n : n \in 1 .. MaxMade}, title : Titles,
        description : Descriptions \cup {Blank}, isTemplate : BOOLEAN]
Pending(r) == r.id < 0
AsRow(n) == [id |-> n, title |-> cards[n].title, description |-> cards[n].description,
             isTemplate |-> cards[n].isTemplate]

Quiet == posts = {}

(* One real project and one template; mounting asks for the templates.     *)
Init ==
    /\ cards = [n \in 1 .. 2 |-> [title |-> CHOOSE t \in Titles : TRUE, description |-> Blank,
                                  isTemplate |-> n = 2]]
    /\ projects = <<AsRow(1)>>
    /\ templates = <<>>
    /\ dialog = None
    /\ draft = [title |-> Blank, description |-> Blank, isTemplate |-> FALSE]
    /\ prompting = FALSE
    /\ pendingOptimisticId = None
    /\ made = 0
    /\ posts = {}
    /\ sent = 0
    /\ reading = <<"sent">>

-----------------------------------------------------------------------------
(* The dialog.                                                             *)

Empty == [title |-> Blank, description |-> Blank, isTemplate |-> FALSE]
Original == IF dialog = <<"create">> THEN Empty
            ELSE [title |-> dialog[2].title, description |-> dialog[2].description,
                  isTemplate |-> dialog[2].isTemplate]
isDirty == draft # Original

openCreate ==
    /\ dialog = None
    /\ dialog' = <<"create">>
    /\ draft' = Empty
    /\ UNCHANGED <<prompting, listVars, createVars, serverVars>>

(* A pending row has no card to edit; the dialog keeps the row as it was.  *)
openEditor(r) ==
    /\ dialog = None
    /\ ~Pending(r)
    /\ dialog' = <<"edit", r>>
    /\ draft' = [title |-> r.title, description |-> r.description, isTemplate |-> r.isTemplate]
    /\ UNCHANGED <<prompting, listVars, createVars, serverVars>>

type(fields) ==
    /\ dialog # None /\ ~prompting /\ fields # draft
    /\ dialog[1] = "edit" => fields.isTemplate = draft.isTemplate
    /\ ~BothFields => fields.title = Original.title \/ fields.description = Original.description
    /\ draft' = fields
    /\ UNCHANGED <<dialog, prompting, listVars, createVars, serverVars>>

Close == dialog' = None /\ prompting' = FALSE /\ draft' = Empty

(* Cancel, the × and Escape: at once when clean; Escape in the prompt backs out. *)
dismiss(escape) ==
    /\ dialog # None
    /\ \/ ~isDirty /\ ~prompting /\ Close
       \/ isDirty /\ ~prompting /\ prompting' = TRUE /\ UNCHANGED <<dialog, draft>>
       \/ prompting /\ escape /\ prompting' = FALSE /\ UNCHANGED <<dialog, draft>>
    /\ UNCHANGED <<listVars, createVars, serverVars>>

Discard ==
    /\ prompting /\ Close
    /\ UNCHANGED <<listVars, createVars, serverVars>>

-----------------------------------------------------------------------------
(* Writes: the optimistic patch of one list, the snapshot kept, the calls   *)
(* of one event in one POST.                                               *)
Op(kind, list, id, text, before) ==
    [kind |-> kind, list |-> list, id |-> id, text |-> text, before |-> before]
Send(ops) ==
    /\ sent < MaxPosts
    /\ sent' = sent + 1
    /\ posts' = posts \cup {[ops |-> ops, ran |-> "no", ids |-> {}]}
SetList(list, rows) ==
    IF list = "projects" THEN projects' = rows /\ UNCHANGED templates
                         ELSE templates' = rows /\ UNCHANGED projects
ListOf(list) == IF list = "projects" THEN projects ELSE templates

(* add, fireCreate, fireCompose: Enter clears the dialog for another one.  *)
add(keepOpen) ==
    LET list == IF draft.isTemplate THEN "templates" ELSE "projects"
        row == [id |-> -(made + 1), title |-> draft.title, description |-> draft.description,
                isTemplate |-> draft.isTemplate]
    IN  /\ dialog = <<"create">> /\ ~prompting /\ draft.title # Blank
        /\ made < MaxMade
        /\ AddAnother \/ Quiet
        /\ made' = made + 1
        /\ pendingOptimisticId' = row.id
        /\ SetList(list, Append(ListOf(list), row))
        /\ Send(<<Op("create", list, row.id, draft, ListOf(list))>>)
        /\ IF keepOpen THEN draft' = Empty /\ UNCHANGED <<dialog, prompting>>
                       ELSE Close
        /\ UNCHANGED <<reading, cards>>

(* save, fireEdit: one call per changed field, each with its own snapshot;  *)
(* both patch shell.projects, also for a template.                         *)
patchRowField(rows, id, field, text) ==
    [n \in DOMAIN rows |-> IF rows[n].id = id THEN [rows[n] EXCEPT ![field] = text] ELSE rows[n]]
save ==
    LET id == dialog[2].id
        changed == SelectSeq(<<"title", "description">>, LAMBDA f : draft[f] # Original[f])
        after(n) == IF n = 0 THEN projects ELSE patchRowField(projects, id, changed[1], draft[changed[1]])
    IN  /\ dialog # None /\ dialog[1] = "edit" /\ ~prompting /\ draft.title # Blank
        /\ Quiet
        /\ IF changed = <<>> THEN UNCHANGED <<projects, posts, sent>>
           ELSE /\ projects' = patchRowField(after(Len(changed) - 1), id, changed[Len(changed)],
                                             draft[changed[Len(changed)]])
                /\ Send([n \in DOMAIN changed |->
                            Op(changed[n], "projects", id, draft, after(n - 1))])
        /\ Close
        /\ UNCHANGED <<templates, reading, cards, createVars>>

fireDelete ==
    LET r == dialog[2]
        list == IF r.isTemplate THEN "templates" ELSE "projects"
    IN  /\ dialog # None /\ dialog[1] = "edit" /\ ~prompting
        /\ Quiet
        /\ SetList(list, SelectSeq(ListOf(list), LAMBDA x : x.id # r.id))
        /\ Send(<<Op("delete", list, r.id, draft, ListOf(list))>>)
        /\ Close
        /\ UNCHANGED <<reading, cards, createVars>>

-----------------------------------------------------------------------------
(* The server runs all of a POST or none of it.                            *)
ServerRuns(p) ==
    LET op == p.ops[1]
        new == 2 - op.id
    IN  /\ p.ran = "no"
        /\ \/ /\ op.kind = "create"
              /\ cards' = [n \in DOMAIN cards \cup {new} |-> IF n = new THEN op.text ELSE cards[n]]
              /\ posts' = (posts \ {p}) \cup {[p EXCEPT !.ran = "yes", !.ids = {new}]}
           \/ /\ op.kind = "delete"
              /\ cards' = [n \in DOMAIN cards \ {op.id} |-> cards[n]]
              /\ posts' = (posts \ {p}) \cup {[p EXCEPT !.ran = "yes"]}
           \/ /\ op.kind \in {"title", "description"} /\ op.id \in DOMAIN cards
              /\ LET fields == {p.ops[n].kind : n \in DOMAIN p.ops}
                 IN  cards' = [cards EXCEPT ![op.id] =
                         [f \in DOMAIN op.text |-> IF f \in fields THEN op.text[f] ELSE cards[op.id][f]]]
              /\ posts' = (posts \ {p}) \cup {[p EXCEPT !.ran = "yes"]}
        /\ UNCHANGED <<sent, reading, listVars, dialogVars, createVars>>
Refused(p) ==
    /\ p.ran = "no"
    /\ posts' = (posts \ {p}) \cup {[p EXCEPT !.ran = "refused"]}
    /\ UNCHANGED <<sent, reading, cards, listVars, dialogVars, createVars>>

(* promoteTemp: whatever create this answers, the row of the latest         *)
(* temporary id gets the id.                                               *)
promoteTemp(rows, id) ==
    [n \in DOMAIN rows |-> IF rows[n].id = pendingOptimisticId THEN [rows[n] EXCEPT !.id = id] ELSE rows[n]]

(* landCreated, landStamped and their two siblings; a fault restores the    *)
(* snapshots, in the order of the calls.                                   *)
settle(p) ==
    LET op == p.ops[1]
        last == p.ops[Len(p.ops)]
    IN  /\ p.ran # "no"
        /\ posts' = posts \ {p}
        /\ \/ /\ p.ran = "yes" /\ op.kind = "create"
              /\ SetList(op.list, promoteTemp(ListOf(op.list), CHOOSE id \in p.ids : TRUE))
              /\ pendingOptimisticId' = None
           \/ /\ p.ran = "yes" /\ op.kind # "create"
              /\ UNCHANGED <<pendingOptimisticId, listVars>>
           \/ /\ p.ran = "refused"
              /\ SetList(last.list, last.before)
              /\ UNCHANGED pendingOptimisticId
        /\ UNCHANGED <<made, sent, reading, cards, dialogVars>>

(* The templates query: what it read lands as the whole list.              *)
TemplatesRead ==
    /\ reading = <<"sent">>
    /\ reading' = <<"read", SetToSeq({AsRow(n) : n \in {n \in DOMAIN cards : cards[n].isTemplate}})>>
    /\ UNCHANGED <<posts, sent, cards, listVars, dialogVars, createVars>>
landTemplates ==
    /\ reading # None /\ reading[1] = "read"
    /\ reading' = None
    /\ templates' = reading[2]
    /\ UNCHANGED <<projects, posts, sent, cards, dialogVars, createVars>>

-----------------------------------------------------------------------------
Rows == ToSet(projects) \cup ToSet(templates)

Next ==
    \/ openCreate \/ save \/ fireDelete \/ Discard
    \/ \E r \in Rows : openEditor(r)
    \/ \E fields \in Fields : type(fields)
    \/ \E b \in BOOLEAN : dismiss(b) \/ add(b)
    \/ \E p \in posts : ServerRuns(p) \/ Refused(p) \/ settle(p)
    \/ TemplatesRead \/ landTemplates

Spec == Init /\ [][Next]_vars

-----------------------------------------------------------------------------
TypeOK ==
    /\ Rows \subseteq Row
    /\ draft \in Fields
    /\ prompting => dialog # None
    /\ DOMAIN cards \subseteq RealIds

(* With no write under way, a project shown with an id is the server's       *)
(* project of that id: answers promote the right row, and a fault leaves     *)
(* nothing of what it refused (fireEdit: "each optimistically patches the    *)
(* matching shell.projects row and rolls back on fault").                   *)
ShownIsTrue ==
    Quiet => \A r \in ToSet(projects) :
        ~Pending(r) => r.id \in DOMAIN cards /\ r = AsRow(r.id)

(* What was typed is dropped only by the prompt's Discard.                 *)
DraftGuardedStep ==
    dialog # None /\ isDirty /\ dialog' = None => prompting \/ posts' # posts
DraftGuarded == [][DraftGuardedStep]_vars
=============================================================================

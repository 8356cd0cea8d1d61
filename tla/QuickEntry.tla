----------------------------- MODULE QuickEntry -----------------------------
(***************************************************************************)
(* The new-task overlay (quick-entry/quick-entry.ts, submission.ts,         *)
(* default-status.ts): a form, the uploads of its files, the insert, and the *)
(* tags and files bound to the new card when the insert has answered.        *)
(* What is typed is known by the number of the form it was typed in.         *)
(***************************************************************************)
EXTENDS Integers, FiniteSets

CONSTANTS
    Statuses,    \* the project's statuses: [id, phase, sort]
    BasePhase,   \* the phase the screen starts in
    None,
    MaxForms,    \* bound: forms filled in
    MaxFiles,    \* bound: files queued
    MaxCards,    \* bound: cards created
    Patient,     \* whether the form is left alone while it is submitted
    LateFaults   \* whether a tag or a file can fail to bind

VARIABLES
    opened, asking, submitting,  \* the overlay, its discard question, the submit
    form,        \* [entry, title, desc, tag, atts]
    files,       \* number of files queued so far
    uploads,     \* submits with files to upload: [job, remaining, failed]
    inserts,     \* inserts on their way
    binds,       \* tags and files on their way: [card, part]
    cards,       \* the server's cards
    made,        \* number of cards made
    toast        \* the card that Undo deletes

vars == <<opened, asking, submitting, form, files, uploads, inserts, binds, cards, made, toast>>
screenVars == <<opened, asking, submitting, form, files>>
callVars == <<uploads, inserts, binds>>
serverVars == <<cards, made>>

NewForm(n) == [entry |-> n, title |-> FALSE, desc |-> FALSE, tag |-> FALSE, atts |-> {}]
Att(id, status) == [id |-> id, status |-> status]
Ready(f) == {a.id : a \in {b \in f.atts : b.status = "ready"}}

(* resolveDefaultCreateStatus without a default of the screen or the flow: a *)
(* sub-task starts active; else the first status of the screen's phase, of   *)
(* triage, or active.                                                      *)
firstByPhase(ph) ==
    LET of == {s \in Statuses : s.phase = ph}
    IN IF of = {} THEN None
       ELSE (CHOOSE s \in of : \A t \in of : s.sort < t.sort \/ (s.sort = t.sort /\ s.id <= t.id)).id
resolveDefaultCreateStatus(subtask) ==
    LET tries == IF subtask THEN <<"active", BasePhase, "triage", "active">> ELSE <<BasePhase, "triage", "active">>
        found == {i \in DOMAIN tries : firstByPhase(tries[i]) # None}
    IN IF found = {} THEN None ELSE firstByPhase(tries[CHOOSE i \in found : \A j \in found : i <= j])

-----------------------------------------------------------------------------
(* What the user does.                                                     *)
open ==
    /\ form.entry < MaxForms /\ (Patient => ~submitting)
    /\ opened' = TRUE /\ asking' = FALSE
    /\ form' = NewForm(form.entry + 1)
    /\ UNCHANGED <<submitting, files, callVars, serverVars, toast>>

close == opened' = FALSE /\ asking' = FALSE /\ form' = NewForm(form.entry + 1)
isDirty == form.title \/ form.desc \/ form.tag \/ form.atts # {}
requestDismiss ==
    /\ opened /\ ~submitting /\ ~asking
    /\ IF isDirty THEN asking' = TRUE /\ UNCHANGED <<opened, form>> ELSE close
    /\ UNCHANGED <<submitting, files, callVars, serverVars, toast>>
answerDismiss(discard) ==
    /\ asking
    /\ IF discard THEN close ELSE asking' = FALSE /\ UNCHANGED <<opened, form>>
    /\ UNCHANGED <<submitting, files, callVars, serverVars, toast>>

(* The title and the description are locked while the form is submitted; the *)
(* rest is not.                                                            *)
Free == opened /\ (Patient => ~submitting)
type ==
    /\ opened /\ ~submitting
    /\ form' \in {[form EXCEPT !.title = TRUE], [form EXCEPT !.desc = TRUE]} /\ form' # form
    /\ UNCHANGED <<opened, asking, submitting, files, callVars, serverVars, toast>>
pick ==
    /\ Free
    /\ form' = [form EXCEPT !.tag = ~@]
    /\ UNCHANGED <<opened, asking, submitting, files, callVars, serverVars, toast>>
queueFiles ==
    /\ Free /\ files < MaxFiles
    /\ files' = files + 1
    /\ form' = [form EXCEPT !.atts = @ \cup {Att(files', "queued")}]
    /\ UNCHANGED <<opened, asking, submitting, callVars, serverVars, toast>>
removeAttachment(a) ==
    /\ Free
    /\ form' = [form EXCEPT !.atts = @ \ {a}]
    /\ UNCHANGED <<opened, asking, submitting, files, callVars, serverVars, toast>>

-----------------------------------------------------------------------------
(* submit takes the title and the status at once; the rest of the form        *)
(* is read when the files are up. `meant` is the form as it was submitted.    *)
Job(f, shut) ==
    [entry |-> f.entry, status |-> resolveDefaultCreateStatus(FALSE), shut |-> shut,
     meant |-> [desc |-> f.desc, tag |-> f.tag, files |-> {a.id : a \in f.atts}]]
fireSubmit(job, f) ==
    inserts' = inserts \cup {[job |-> job, desc |-> f.desc, tag |-> f.tag, files |-> Ready(f)]}

(* The files a submit sends; a mutant passes over those that failed before.   *)
ToUploadQueued(f) == {a \in f.atts : a.status = "queued"}
ToUpload(f) == {a \in f.atts : a.status # "ready"}

submit(shut) ==
    /\ opened /\ ~submitting /\ form.title /\ made + Cardinality(inserts) < MaxCards
    /\ Statuses = {} \/ resolveDefaultCreateStatus(FALSE) # None
    /\ asking' = FALSE /\ submitting' = TRUE
    /\ LET todo == ToUpload(form) IN
       IF todo = {}
       THEN fireSubmit(Job(form, shut), form) /\ UNCHANGED <<form, uploads>>
       ELSE /\ form' = [form EXCEPT !.atts = (@ \ todo) \cup {Att(a.id, "uploading") : a \in todo}]
            /\ uploads' = uploads \cup {[job |-> Job(form, shut), remaining |-> {a.id : a \in todo}]}
            /\ UNCHANGED inserts
    /\ UNCHANGED <<opened, files, binds, serverVars, toast>>

(* A file is up, of this form or of one replaced since; the last one sends    *)
(* the insert. One that fails ends the submit, and its form may be sent again.*)
SetStatus(f, id, status) ==
    [f EXCEPT !.atts = {IF a.id = id THEN Att(id, status) ELSE a : a \in f.atts}]
uploadDone(u, id) ==
    /\ id \in u.remaining
    /\ IF ~opened THEN uploads' = uploads \ {u} /\ UNCHANGED <<form, inserts>>
       ELSE LET rest == [u EXCEPT !.remaining = @ \ {id}] IN
            /\ form' = SetStatus(form, id, "ready")
            /\ IF rest.remaining = {}
               THEN uploads' = uploads \ {u} /\ fireSubmit(u.job, form')
               ELSE uploads' = (uploads \ {u}) \cup {rest} /\ UNCHANGED inserts
    /\ UNCHANGED <<opened, asking, submitting, files, binds, serverVars, toast>>
uploadFails(u, id) ==
    /\ id \in u.remaining
    /\ uploads' = uploads \ {u}
    /\ IF opened THEN form' = SetStatus(form, id, "error") /\ submitting' = FALSE ELSE UNCHANGED <<form, submitting>>
    /\ UNCHANGED <<opened, asking, files, inserts, binds, serverVars, toast>>

(* The insert answers: the tag and the files are sent with the card's id, and *)
(* the form is closed, or cleared for the next task.                       *)
landInsert(c, ok) ==
    /\ c \in inserts
    /\ inserts' = inserts \ {c}
    /\ submitting' = FALSE
    /\ IF ok
       THEN /\ made' = made + 1 /\ toast' = made'
            /\ cards' = cards \cup {[id |-> made', entry |-> c.job.entry, status |-> c.job.status, meant |-> c.job.meant,
                                     desc |-> c.desc, tag |-> FALSE, files |-> {}]}
            /\ binds' = binds \cup {[card |-> made', part |-> f] : f \in c.files}
                              \cup {[card |-> made', part |-> None] : x \in {y \in {1} : c.tag}}
            /\ opened' = (opened /\ ~c.job.shut)
            /\ asking' = (asking /\ ~c.job.shut)
            /\ form' = IF c.job.shut /\ ~opened THEN form ELSE NewForm(form.entry + 1)
       ELSE UNCHANGED <<opened, asking, form, binds, cards, made, toast>>
    /\ UNCHANGED <<files, uploads>>

(* A tag or a file is bound, or the overlay shows the fault and takes a submit. *)
landBind(b, ok) ==
    /\ b \in binds /\ (ok \/ LateFaults)
    /\ binds' = binds \ {b}
    /\ IF ok THEN /\ cards' = {IF c.id # b.card THEN c
                               ELSE IF b.part = None THEN [c EXCEPT !.tag = TRUE]
                               ELSE [c EXCEPT !.files = @ \cup {b.part}] : c \in cards}
                  /\ UNCHANGED submitting
       ELSE submitting' = FALSE /\ UNCHANGED cards
    /\ UNCHANGED <<opened, asking, form, files, uploads, inserts, made, toast>>

(* Undo in the toast deletes the card made last.                            *)
undo ==
    /\ toast # 0
    /\ cards' = {c \in cards : c.id # toast} /\ toast' = 0
    /\ UNCHANGED <<screenVars, callVars, made>>

-----------------------------------------------------------------------------
Init ==
    /\ opened = FALSE /\ asking = FALSE /\ submitting = FALSE
    /\ form = NewForm(0) /\ files = 0
    /\ uploads = {} /\ inserts = {} /\ binds = {}
    /\ cards = {} /\ made = 0 /\ toast = 0
Next ==
    \/ open \/ requestDismiss \/ type \/ pick \/ queueFiles \/ undo
    \/ \E d \in BOOLEAN : answerDismiss(d)
    \/ \E a \in form.atts : removeAttachment(a)
    \/ \E shut \in BOOLEAN : submit(shut)
    \/ \E u \in uploads, id \in 1..MaxFiles : uploadDone(u, id) \/ uploadFails(u, id)
    \/ \E c \in inserts, ok \in BOOLEAN : landInsert(c, ok)
    \/ \E b \in binds, ok \in BOOLEAN : landBind(b, ok)
Spec == Init /\ [][Next]_vars

-----------------------------------------------------------------------------
TypeOK ==
    /\ {opened, asking, submitting} \subseteq BOOLEAN /\ asking => opened
    /\ form.entry \in Nat /\ files \in 0..MaxFiles /\ made \in 0..MaxCards
    /\ \A c \in cards : c.id \in 1..made /\ c.files \subseteq 1..files

(* "card.insert + tag.apply + attachment.create are issued in ONE dispatcher  *)
(* tick (one batch, one transaction)" (quick-entry.ts:28): a card that was     *)
(* made has all that its form held when it was submitted.                   *)
CreatedWhole ==
    \A c \in cards : (\A b \in binds : b.card # c.id) => [desc |-> c.desc, tag |-> c.tag, files |-> c.files] = c.meant

(* One form makes one task (quick-entry.ts:961).                            *)
CreatedOnce == \A c, d \in cards : c.entry = d.entry => c = d

(* A form being submitted stays open and is the form that is submitted.       *)
SubmitsShown ==
    (submitting <=> (uploads # {} \/ inserts # {}))
    /\ (submitting => opened /\ \A j \in {u.job : u \in uploads} \cup {c.job : c \in inserts} : j.entry = form.entry)

-----------------------------------------------------------------------------
(* What holds at every step. One submit is out, and its form is the one shown or one  *)
(* before it; no card was made of a form that is shown or may still be inserted.     *)
FormShape == /\ form = [entry |-> form.entry, title |-> form.title, desc |-> form.desc, tag |-> form.tag, atts |-> form.atts]
             /\ form.entry \in Nat
JobShape(j) ==
    /\ j = [entry |-> j.entry, status |-> j.status, shut |-> j.shut, meant |-> j.meant] /\ j.entry \in Nat
UploadShape(u) == u = [job |-> u.job, remaining |-> u.remaining] /\ JobShape(u.job)
InsertShape(c) == c = [job |-> c.job, desc |-> c.desc, tag |-> c.tag, files |-> c.files] /\ JobShape(c.job)
CardShape(c) ==
    /\ c = [id |-> c.id, entry |-> c.entry, status |-> c.status, meant |-> c.meant, desc |-> c.desc, tag |-> c.tag, files |-> c.files]
    /\ c.entry \in Nat
Shapes ==
    /\ FormShape /\ \A u \in uploads : UploadShape(u)
    /\ (\A c \in inserts : InsertShape(c)) /\ \A c \in cards : CardShape(c)
OneSubmit ==
    /\ (\A u, v \in uploads : u = v) /\ (\A c, d \in inserts : c = d) /\ (uploads = {} \/ inserts = {})
    /\ uploads # {} \/ inserts # {} => submitting
Newer(j) == /\ j.entry <= form.entry /\ (j.entry = form.entry => opened)
            /\ \A c \in cards : c.entry < j.entry
FormsInOrder ==
    /\ (\A u \in uploads : Newer(u.job)) /\ (\A c \in inserts : Newer(c.job))
    /\ \A c \in cards : c.entry < form.entry
OnceInv == Shapes /\ OneSubmit /\ FormsInOrder /\ CreatedOnce

(* For a user who waits, the form stays as it was submitted, so the insert has what     *)
(* it had; and what a card lacks of its form is on its way.                          *)
FilesNamed ==
    /\ form.desc \in BOOLEAN /\ form.tag \in BOOLEAN /\ files \in Nat
    /\ \A a \in form.atts : a = Att(a.id, a.status) /\ a.id \in 1..files
    /\ \A a, b \in form.atts : a.id = b.id => a = b
Meant(m, f) == m = [desc |-> f.desc, tag |-> f.tag, files |-> {a.id : a \in f.atts}]
UploadMeant(u) == Meant(u.job.meant, form) /\ \A a \in form.atts : a.id \in u.remaining \/ a.status = "ready"
InsertMeant(c) ==
    /\ c.job.meant = [desc |-> c.desc, tag |-> c.tag, files |-> c.files]
    /\ c.tag \in BOOLEAN /\ c.files \subseteq Nat
Bound(c) == {b \in binds : b.card = c.id}
CardMeant(c) ==
    /\ c.id \in 1..made /\ c.files \subseteq Nat /\ c.meant.files \subseteq Nat /\ {c.tag, c.meant.tag} \subseteq BOOLEAN
    /\ c.meant = [desc |-> c.desc, tag |-> c.meant.tag, files |-> c.meant.files]
    /\ c.meant.tag <=> c.tag \/ \E b \in Bound(c) : b.part = None
    /\ c.meant.files = c.files \cup {b.part : b \in {d \in Bound(c) : d.part # None}}
BindsOfCards ==
    /\ made \in Nat /\ \A b \in binds : b = [card |-> b.card, part |-> b.part] /\ b.card \in 1..made /\ b.part \in Nat \cup {None}
Waiting == {submitting, opened, asking} \subseteq BOOLEAN /\ (asking => ~submitting) /\ SubmitsShown
WholeInv ==
    /\ FilesNamed /\ (\A u \in uploads : UploadMeant(u)) /\ (\A c \in inserts : InsertMeant(c))
    /\ (\A c \in cards : CardMeant(c)) /\ BindsOfCards
Inv == OnceInv /\ Waiting /\ WholeInv
=============================================================================

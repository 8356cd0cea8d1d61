----------------------------- MODULE Transfers -----------------------------
(***************************************************************************)
(* What a browser sends to and takes from a project whole: a file, chunk by     *)
(* chunk (task-detail/upload.ts), a CSV through the four steps of the import      *)
(* wizard (import/import-wizard.ts) and an export (export/export-menu.ts). Each    *)
(* behaviour follows one of them (panel). The wizard's file reaches the server      *)
(* by the first; here that is the one call "upload".                               *)
(*                                                                               *)
(* A mapping or a resolution is 0, the wizard's own guess, or 1, the user's. The   *)
(* rows fail their check under the guess of both.                                 *)
(***************************************************************************)
EXTENDS Integers, Sequences, FiniteSets

CONSTANTS
    Content,     \* the address of each chunk of the file, in order
    Concurrency, \* chunks posted at a time
    MaxCalls,    \* bound: calls sent by the wizard, downloads asked of the menu
    Patient,     \* whether the user waits for a preview, opens the wizard again only once
                 \* all is answered, and leaves a running export open
    Redo         \* whether the user goes back from a finished import

VARIABLES
    panel,
    \* the pipeline of one file; claimed: the chunks its workers' shared cursor has passed
    phase, claimed, posting, completed, shown, missing, leaving, held, made, fault,
    \* the wizard, its calls, the server's jobs and imports
    wiz, calls, asked, jobs, imports,
    \* the export menu and the downloads running
    menu, running

fileVars == <<phase, claimed, posting, completed, shown, missing, leaving, held, made, fault>>
wizardVars == <<wiz, calls, asked, jobs, imports>>
menuVars == <<menu, running>>
vars == <<panel, fileVars, wizardVars, menuVars>>

-----------------------------------------------------------------------------
(* task-detail/upload.ts                                                      *)
Chunks == DOMAIN Content
Addresses == {Content[i] : i \in Chunks}
missingIdx == {i \in Chunks : Content[i] \in missing}
File == panel = "file" /\ UNCHANGED <<panel, wizardVars, menuVars>>
Ended == {"done", "failed"}

(* Hashing is the browser's own; the answer lists what the server lacks.          *)
preflight ==
    /\ File /\ phase = "idle" /\ phase' = "preflight"
    /\ UNCHANGED <<claimed, posting, completed, shown, missing, leaving, held, made, fault>>
reject == phase' = "failed"
refuse == \* a call refused or lost
    /\ File /\ phase \in {"preflight", "saving", "attaching"} /\ ~leaving
    /\ reject /\ fault' = TRUE
    /\ UNCHANGED <<claimed, posting, completed, shown, missing, leaving, held, made>>
(* The workers start: each takes the next missing chunk and posts it.            *)
claim(n) ==
    LET left == missingIdx' \ claimed
    IN  {i \in left : Cardinality({j \in left : j < i}) < n}
saveWhenPosted ==
    phase' = IF posting' = {} /\ missingIdx' \subseteq claimed' THEN "saving" ELSE "uploading"
landPreflight ==
    /\ File /\ phase = "preflight" /\ ~leaving
    /\ missing' = Addresses \ held
    /\ completed' = {i \in Chunks : Content[i] \notin missing'}
    /\ claimed' = claim(Concurrency) /\ posting' = claimed'
    /\ shown' = Cardinality(completed') /\ saveWhenPosted
    /\ UNCHANGED <<leaving, held, made, fault>>
(* A chunk posted is held at once; its worker shows the progress, also once     *)
(* another has failed, and takes the next.                                    *)
landPost(i) ==
    /\ File /\ i \in posting /\ held' = held \cup {Content[i]}
    /\ completed' = completed \cup {j \in Chunks : Content[j] = Content[i]}
    /\ shown' = IF leaving THEN shown ELSE Cardinality(completed')
    /\ UNCHANGED <<missing, leaving, made, fault>>
    /\ posting' = (posting \ {i}) \cup claim(1) /\ claimed' = claimed \cup claim(1)
    /\ IF phase = "failed" THEN UNCHANGED phase ELSE saveWhenPosted
(* The post fails, or the server answers with another address.                  *)
failPost(i) ==
    /\ File /\ i \in posting /\ posting' = posting \ {i} /\ reject /\ fault' = TRUE
    /\ held' \in {held, held \cup {Content[i]}}
    /\ UNCHANGED <<claimed, completed, shown, missing, leaving, made>>
(* file.create: a chunk reaped in between is refused.                           *)
landFile ==
    /\ File /\ phase = "saving" /\ ~leaving
    /\ IF Addresses \subseteq held THEN made' = Content /\ phase' = "attaching" ELSE reject /\ UNCHANGED made
    /\ UNCHANGED <<claimed, posting, completed, shown, missing, leaving, held, fault>>
landAttachment ==
    /\ File /\ phase = "attaching" /\ ~leaving /\ phase' = "done"
    /\ UNCHANGED <<claimed, posting, completed, shown, missing, leaving, held, made, fault>>
leave == \* the control is destroyed: the chunks in hand still post, no answer is taken
    /\ File /\ phase \notin Ended \cup {"idle"} /\ ~leaving /\ leaving' = TRUE
    /\ UNCHANGED <<phase, claimed, posting, completed, shown, missing, held, made, fault>>
reap(a) ==
    /\ File /\ a \in held /\ a \notin missing /\ made = <<>> /\ held' = held \ {a} /\ fault' = TRUE
    /\ UNCHANGED <<phase, claimed, posting, completed, shown, missing, leaving, made>>

-----------------------------------------------------------------------------
(* import/import-wizard.ts                                                     *)
Steps == <<"upload", "map", "preview", "commit">>
Fresh == [step |-> 1, file |-> FALSE, uploading |-> FALSE, job |-> 0, map |-> 0, res |-> 0, mapBusy |-> FALSE,
          prev |-> <<>>, prevBusy |-> FALSE, done |-> FALSE, committing |-> FALSE]
Closed == [Fresh EXCEPT !.step = 0]
opened == wiz.step # 0
On(s) == opened /\ Steps[wiz.step] = s
hasErrors(m, r) == m = 0 /\ r = 0
Waits == Patient => ~wiz.prevBusy
Wizard == panel = "import" /\ UNCHANGED <<panel, fileVars, menuVars>>
Local == Wizard /\ UNCHANGED <<calls, asked, jobs, imports>>
Sent(after, kind, job, map, res, out) ==
    /\ asked < MaxCalls /\ asked' = asked + 1
    /\ calls' = after \cup {[kind |-> kind, n |-> asked', state |-> "sent", job |-> job, map |-> map, res |-> res, out |-> out]}

open == Local /\ ~opened /\ (Patient => calls = {}) /\ wiz' = Fresh
close == Local /\ opened /\ ~wiz.uploading /\ ~wiz.committing /\ Waits /\ wiz' = Closed
pickFile == Local /\ On("upload") /\ ~wiz.file /\ wiz' = [wiz EXCEPT !.file = TRUE]
onBack ==
    /\ Local /\ opened /\ wiz.step > 1 /\ ~wiz.uploading /\ ~wiz.committing /\ Waits /\ (Patient => ~wiz.mapBusy)
    /\ (~Redo => ~\E j \in DOMAIN jobs : jobs[j].status = "completed")
    /\ wiz' = [wiz EXCEPT !.step = @ - 1]
mapColumn == Local /\ On("map") /\ (Patient => ~wiz.mapBusy) /\ wiz' = [wiz EXCEPT !.map = 1 - @]
setResolution == Local /\ On("map") /\ (Patient => ~wiz.mapBusy) /\ wiz' = [wiz EXCEPT !.res = 1 - @]
runUpload ==
    /\ Wizard /\ On("upload") /\ wiz.file /\ ~wiz.uploading /\ wiz' = [wiz EXCEPT !.uploading = TRUE]
    /\ Sent(calls, "upload", 0, 0, 0, 0) /\ UNCHANGED <<jobs, imports>>
runSetMapping ==
    /\ Wizard /\ On("map") /\ ~wiz.mapBusy /\ wiz.job # 0 /\ wiz' = [wiz EXCEPT !.mapBusy = TRUE]
    /\ Sent(calls, "map", wiz.job, wiz.map, 0, 0) /\ UNCHANGED <<jobs, imports>>
runCommit ==
    /\ Wizard /\ On("preview") /\ ~wiz.prevBusy /\ wiz.prev # <<>> /\ ~hasErrors(wiz.prev[1], wiz.prev[2])
    /\ ~wiz.committing /\ wiz.job # 0 /\ wiz' = [wiz EXCEPT !.committing = TRUE, !.step = 4]
    /\ Sent(calls, "commit", wiz.job, 0, 0, wiz.prev) /\ UNCHANGED <<jobs, imports>>

(* The server's side: a call takes effect, or is refused; its answer may be lost. *)
Answers == {"done", "lost"}
store(k, status, map, res) == jobs' = [jobs EXCEPT ![k] = [status |-> status, map |-> map, res |-> res]]
serveUpload(c) ==
    /\ c.kind = "upload" /\ jobs' = Append(jobs, [status |-> "uploaded", map |-> -1, res |-> 0])
    /\ \E s \in Answers : calls' = (calls \ {c}) \cup {[c EXCEPT !.state = s, !.job = Len(jobs')]}
    /\ UNCHANGED imports
setMapping(c) == \* project_import_set_mapping_batch.sql
    /\ c.kind = "map"
    /\ LET was == jobs[c.job]
       IN  store(c.job, IF was.status \in {"previewed", "completed"} THEN was.status ELSE "mapped", c.map, was.res)
    /\ \E s \in Answers : calls' = (calls \ {c}) \cup {[c EXCEPT !.state = s]}
    /\ UNCHANGED imports
preview(c) == \* project_import_preview_batch.sql: whatever the job's status was
    /\ c.kind = "preview" /\ jobs[c.job].map # -1
    /\ store(c.job, "previewed", jobs[c.job].map, c.res)
    /\ \E s \in Answers : calls' = (calls \ {c}) \cup {[c EXCEPT !.state = s, !.out = <<jobs[c.job].map, c.res>>]}
    /\ UNCHANGED imports
commit(c) == \* project_import_commit_batch.sql
    /\ c.kind = "commit" /\ jobs[c.job].status # "completed" /\ jobs[c.job].map # -1
    /\ ~hasErrors(jobs[c.job].map, jobs[c.job].res)
    /\ store(c.job, "completed", jobs[c.job].map, jobs[c.job].res)
    /\ imports' = Append(imports, [job |-> c.job, shown |-> c.out, did |-> <<jobs[c.job].map, jobs[c.job].res>>])
    /\ \E s \in Answers : calls' = (calls \ {c}) \cup {[c EXCEPT !.state = s]}
serve(c) ==
    /\ Wizard /\ c \in calls /\ c.state = "sent" /\ UNCHANGED <<wiz, asked>>
    /\ serveUpload(c) \/ setMapping(c) \/ preview(c) \/ commit(c)
refuseCall(c) ==
    /\ Wizard /\ c \in calls /\ c.state = "sent" /\ UNCHANGED <<wiz, asked, jobs, imports>>
    /\ calls' = (calls \ {c}) \cup {[c EXCEPT !.state = "lost"]}

(* The answers. One that comes while the wizard is closed is dropped; one of an   *)
(* earlier opening is taken when it is open again.                            *)
Answer(c) == Wizard /\ c \in calls /\ c.state # "sent" /\ UNCHANGED <<jobs, imports>>
Done(c) == c.state = "done"
drop(c) == Answer(c) /\ ~opened /\ calls' = calls \ {c} /\ UNCHANGED <<wiz, asked>>
landUpload(c) ==
    /\ Answer(c) /\ c.kind = "upload" /\ opened /\ calls' = calls \ {c} /\ UNCHANGED asked
    /\ wiz' = IF Done(c) THEN [wiz EXCEPT !.uploading = FALSE, !.job = c.job, !.map = 0, !.step = 2] \* autoMapping
              ELSE [wiz EXCEPT !.uploading = FALSE]
runPreview(c) == \* unless one is in flight
    IF wiz.prevBusy THEN UNCHANGED asked /\ calls' = calls \ {c}
    ELSE Sent(calls \ {c}, "preview", wiz.job, 0, wiz.res, 0)
landMapping(c) ==
    /\ Answer(c) /\ c.kind = "map" /\ opened
    /\ IF ~Done(c) THEN UNCHANGED asked /\ calls' = calls \ {c} /\ wiz' = [wiz EXCEPT !.mapBusy = FALSE]
       ELSE /\ IF wiz.job = 0 THEN UNCHANGED asked /\ calls' = calls \ {c} ELSE runPreview(c)
            /\ wiz' = [wiz EXCEPT !.mapBusy = FALSE, !.prev = <<>>, !.done = FALSE, !.step = 3,
                                  !.prevBusy = @ \/ wiz.job # 0]
landPreview(c) ==
    /\ Answer(c) /\ c.kind = "preview" /\ opened /\ calls' = calls \ {c} /\ UNCHANGED asked
    /\ wiz' = IF Done(c) THEN [wiz EXCEPT !.prevBusy = FALSE, !.prev = c.out, !.step = 3]
              ELSE [wiz EXCEPT !.prevBusy = FALSE]
landCommit(c) == \* a refusal stays on the last step, its button says Done
    /\ Answer(c) /\ c.kind = "commit" /\ opened /\ calls' = calls \ {c} /\ UNCHANGED asked
    /\ wiz' = [wiz EXCEPT !.committing = FALSE, !.done = @ \/ Done(c)]

-----------------------------------------------------------------------------
(* export/export-menu.ts                                                       *)
NoMenu == [project |-> 0, format |-> "csv", deleted |-> FALSE, files |-> FALSE, busy |-> FALSE, error |-> FALSE]
Menu == panel = "export" /\ UNCHANGED <<panel, fileVars, wizardVars>>
Rest == Patient => running = {}
openExport(p) == \* from another page's button: the menu is built anew
    /\ Menu /\ Rest /\ menu.project # p /\ menu' = [NoMenu EXCEPT !.project = p] /\ UNCHANGED running
closeMenu == Menu /\ Rest /\ menu.project # 0 /\ menu' = NoMenu /\ UNCHANGED running
pickFormat(f) == Menu /\ Rest /\ menu.project # 0 /\ menu.format # f /\ menu' = [menu EXCEPT !.format = f] /\ UNCHANGED running
toggleDeleted == Menu /\ Rest /\ menu.project # 0 /\ menu' = [menu EXCEPT !.deleted = ~@] /\ UNCHANGED running
toggleFiles == Menu /\ Rest /\ menu.project # 0 /\ menu.format = "zip" /\ menu' = [menu EXCEPT !.files = ~@] /\ UNCHANGED running
exportNavUrl == [project |-> menu.project, format |-> menu.format, deleted |-> menu.deleted,
                 files |-> menu.files /\ menu.format = "zip"]
runExport == \* a CSV is the browser's own download; the others are fetched
    /\ Menu /\ menu.project # 0 /\ ~menu.busy
    /\ IF menu.format = "csv" THEN menu' = NoMenu /\ UNCHANGED running
       ELSE /\ menu' = [menu EXCEPT !.busy = TRUE, !.error = FALSE]
            /\ Cardinality(running) < MaxCalls /\ exportNavUrl \notin running /\ running' = running \cup {exportNavUrl}
landExport(u) == Menu /\ u \in running /\ running' = running \ {u} /\ menu' = NoMenu
failExport(u) ==
    /\ Menu /\ u \in running /\ running' = running \ {u}
    /\ menu' = IF menu.project = 0 THEN menu ELSE [menu EXCEPT !.busy = FALSE, !.error = TRUE]

-----------------------------------------------------------------------------
Init ==
    /\ panel \in {"file", "import", "export"}
    /\ phase = "idle" /\ claimed = {} /\ posting = {} /\ completed = {} /\ shown = 0 /\ missing = {}
    /\ leaving = FALSE /\ made = <<>> /\ fault = FALSE
    /\ held \in IF panel = "file" THEN {{}, {Content[1]}, Addresses} ELSE {{}}
    /\ wiz = Closed /\ calls = {} /\ asked = 0 /\ jobs = <<>> /\ imports = <<>>
    /\ menu = NoMenu /\ running = {}

Next ==
    \/ preflight \/ refuse \/ landPreflight \/ landFile \/ landAttachment \/ leave
    \/ \E i \in Chunks : landPost(i) \/ failPost(i) \/ reap(Content[i])
    \/ open \/ close \/ pickFile \/ onBack \/ mapColumn \/ setResolution
    \/ runUpload \/ runSetMapping \/ runCommit
    \/ \E c \in calls : \/ serve(c) \/ refuseCall(c) \/ drop(c)
                        \/ landUpload(c) \/ landMapping(c) \/ landPreview(c) \/ landCommit(c)
    \/ closeMenu \/ toggleDeleted \/ toggleFiles \/ runExport
    \/ \E p \in {1, 2} : openExport(p)
    \/ \E f \in {"csv", "xlsx", "zip"} : pickFormat(f)
    \/ \E u \in running : landExport(u) \/ failExport(u)

Spec == Init /\ [][Next]_vars

-----------------------------------------------------------------------------
(* The types of the state: steps, phases and what a download asks for.           *)
TypeOK ==
    /\ phase \in {"idle", "preflight", "uploading", "saving", "attaching"} \cup Ended
    /\ posting \subseteq Chunks /\ completed \subseteq Chunks /\ shown \in 0..Len(Content)
    /\ Cardinality(posting) <= Concurrency
    /\ wiz.step \in 0..4 /\ wiz.job \in 0..Len(jobs) /\ {wiz.map, wiz.res} \subseteq {0, 1}
    /\ menu.project \in 0..2 /\ menu.format \in {"csv", "xlsx", "zip"}

(* An upload ends without its file only for a cause outside the pipeline (a call  *)
(* refused, a post failed, a chunk reaped), and one that is done has made the      *)
(* file's own content: no chunk is left out by the workers' shared cursor, also     *)
(* when two chunks are alike or the server holds some already (upload.ts).          *)
UploadWhole ==
    /\ phase = "failed" => fault
    /\ phase = "done" => made = Content
    /\ phase = "saving" /\ ~fault => Addresses \subseteq held

(* A job's rows are imported with the columns and the resolution whose preview    *)
(* was on the screen when Commit was pressed (import-wizard.ts runCommit).          *)
CommitAsShown == \A i \in DOMAIN imports : imports[i].did = imports[i].shown

(* One upload is imported at most once: the commit's own refusal says              *)
(* "import_job % is already completed; re-upload to re-run"                        *)
(* (project_import_commit_batch.sql).                                              *)
ImportedOnce == \A i, j \in DOMAIN imports : imports[i].job = imports[j].job => i = j

(* An export's answer closes or marks the menu it was started from, never one     *)
(* opened since for another project (export-menu.ts runExport).                    *)
ExportOwnStep ==
    \A u \in running : u \notin running' /\ menu'.project = 0 => menu.project \in {0, u.project}
ExportOwn == [][ExportOwnStep]_vars
-----------------------------------------------------------------------------
(* What holds at every step. Until a cause outside makes it fail, each chunk is held,     *)
(* being posted or still to be claimed.                                            *)
ChunksInHand == \A i \in Chunks : Content[i] \in held \/ i \in posting \/ i \in missingIdx \ claimed
FileInv ==
    /\ phase = "failed" => fault
    /\ phase \in {"attaching", "done"} => made = Content
    /\ posting # {} => phase \in {"uploading", "failed"}
    /\ phase \in {"idle", "preflight"} => claimed = {}
    /\ ~fault /\ phase = "uploading" => ChunksInHand
    /\ ~fault /\ phase = "saving" => Addresses \subseteq held

(* For a user who waits, one call of the wizard is out, of the step it is at and the    *)
(* job it has; what its preview shows is what the job's commit would do, and a job that *)
(* was imported stays so.                                                        *)
Pairs == Int \X Int
Job == [status : {"uploaded", "mapped", "previewed", "completed"}, map : Int, res : Int]
Would(j) == <<jobs[j].map, jobs[j].res>>
WizardShape ==
    /\ wiz = [step |-> wiz.step, file |-> wiz.file, uploading |-> wiz.uploading, job |-> wiz.job, map |-> wiz.map, res |-> wiz.res,
              mapBusy |-> wiz.mapBusy, prev |-> wiz.prev, prevBusy |-> wiz.prevBusy, done |-> wiz.done, committing |-> wiz.committing]
    /\ wiz.step \in 0..4 /\ wiz.job \in {0} \cup DOMAIN jobs /\ {wiz.map, wiz.res} \subseteq Int /\ wiz.prev \in Pairs \cup {<<>>}
JobsMade == jobs \in Seq(Job) /\ imports \in Seq([job : Nat, shown : Pairs, did : Pairs])
CallShape(c) ==
    c = [kind |-> c.kind, n |-> c.n, state |-> c.state, job |-> c.job, map |-> c.map, res |-> c.res, out |-> c.out]
CallOfStep(c) ==
    /\ CallShape(c) /\ {c.map, c.res} \subseteq Int
    /\ \/ /\ c.kind = "upload" /\ wiz.step = 1 /\ wiz.uploading
          /\ c.state = "done" => c.job \in DOMAIN jobs /\ jobs[c.job].status = "uploaded"
       \/ c.kind = "map" /\ c.job \in DOMAIN jobs /\ (opened => wiz.step = 2 /\ wiz.mapBusy /\ c.job = wiz.job)
       \/ /\ c.kind = "preview" /\ c.job \in DOMAIN jobs /\ c.job = wiz.job /\ wiz.step = 3 /\ wiz.prevBusy /\ wiz.prev = <<>>
          /\ c.state = "done" => c.out = Would(c.job)
       \/ /\ c.kind = "commit" /\ c.job \in DOMAIN jobs /\ c.job = wiz.job /\ wiz.step = 4 /\ wiz.committing
          /\ c.out = wiz.prev /\ wiz.prev # <<>>
ImportedStay ==
    /\ \A i \in DOMAIN imports : imports[i].job \in DOMAIN jobs /\ jobs[imports[i].job].status = "completed"
    /\ wiz.job # 0 /\ jobs[wiz.job].status = "completed" => wiz.step = 4
PreviewTrue == wiz.step \in {3, 4} /\ wiz.prev # <<>> => wiz.job # 0 /\ wiz.prev = Would(wiz.job)
WizardInv ==
    /\ WizardShape /\ JobsMade /\ (\A c, d \in calls : c = d) /\ (\A c \in calls : CallOfStep(c))
    /\ PreviewTrue /\ ImportedStay /\ CommitAsShown /\ ImportedOnce
Inv == FileInv /\ WizardInv
=============================================================================

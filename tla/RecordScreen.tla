---------------------------- MODULE RecordScreen ----------------------------
(***************************************************************************)
(* The two kinds of detail pane that read a list screen's rows and selection    *)
(* and read the list again after every write: the form of one record              *)
(* (admin/record-form.ts), here of a mail account in the project picked, and the  *)
(* files of a theme (admin/theme-files.ts). Each behaviour follows one (panel).   *)
(* Option o belongs to project o; text 10 t or 10 t + 1 was written for theme t.   *)
(***************************************************************************)
EXTENDS Integers, Sequences, FiniteSets, TLC

CONSTANTS
    MaxRecords, \* bound: records ever made
    MaxCalls,   \* bound: batches sent
    Patient     \* whether the user waits for every answer, and closes the form before switching project

VARIABLES
    panel,
    calls, asked, missed,
    scope, items, sel, lastSel, \* the project; the list; its selection, and the one shown
    draft, leaf, opts, optsFor, confirming, notice, \* the form
    file, waiting, \* the open file; whether the buttons wait
    recs, tfiles \* the server's records, home 0 once deleted, and themes' own files

formVars == <<draft, leaf, opts, optsFor, confirming, notice>>
fileVars == <<file, waiting>>
vars == <<panel, calls, asked, missed, scope, items, sel, lastSel, formVars, fileVars, recs, tfiles>>

Css == 3
Paths == {1, 2, Css} \* two logos and a text file of every base
NoDraft == [id |-> -1, name |-> 0, opt |-> 0]
NoFile == [path |-> 0, ro |-> FALSE, text |-> -1, draft |-> -1, busy |-> FALSE]
Free == Patient => calls = {}

RecordCall(kind, id, home, name, opt, lf) ==
    [kind |-> kind, n |-> 0, state |-> "sent", id |-> id, home |-> home, name |-> name, opt |-> opt, leaf |-> lf,
     path |-> 0, reopen |-> FALSE, drop |-> {}, rows |-> {}]
FileCall(kind, id, path, name, reopen, drop) ==
    [kind |-> kind, n |-> 0, state |-> "sent", id |-> id, home |-> 0, name |-> name, opt |-> 0, leaf |-> 0,
     path |-> path, reopen |-> reopen, drop |-> drop, rows |-> {}]
SendAll(after, cs) ==
    /\ asked + Len(cs) <= MaxCalls /\ asked' = asked + Len(cs)
    /\ calls' = after \cup {[cs[i] EXCEPT !.n = asked + i] : i \in DOMAIN cs}
Answered(c, kind) == c \in calls /\ c.kind = kind /\ c.state # "sent"
Ok(c) == c.state = "done"
Records(p) == {recs[i] : i \in {j \in DOMAIN recs : recs[j].home = p}}
Themes == {[id |-> t, own |-> DOMAIN tfiles[t]] : t \in DOMAIN tfiles}
reloadList == RecordCall("list", 0, scope', 0, 0, 0)

-----------------------------------------------------------------------------
(* record-form.ts: rendering the form asks for its options once per project.     *)
ensureOptions == IF draft' # NoDraft /\ optsFor # scope' THEN <<RecordCall("options", 0, scope', 0, 0, 0)>> ELSE <<>>
renderForm(after, cs) ==
    /\ SendAll(after, cs \o ensureOptions)
    /\ optsFor' = IF ensureOptions = <<>> THEN optsFor ELSE scope'
Row(rows, i) == {r \in rows : r.id = i}
(* The effect on the list and its selection: the form opens the record only     *)
(* when the selection is not the one it last opened.                          *)
follow(rows, i) ==
    /\ lastSel' = i
    /\ IF i = lastSel THEN UNCHANGED <<draft, leaf, confirming, notice>>
       ELSE /\ confirming' = FALSE /\ notice' = IF i # 0 /\ notice # i THEN 0 ELSE notice
            /\ IF Row(rows, i) = {} THEN draft' = NoDraft /\ UNCHANGED leaf
               ELSE \E r \in Row(rows, i) : draft' = [id |-> i, name |-> r.name, opt |-> r.opt] /\ leaf' = r.leaf
(* theme-files.ts: another theme closes the open file.                        *)
refollow(rows, i) ==
    LET id == IF Row(rows, i) = {} THEN 0 ELSE i IN
    lastSel' = id /\ file' = IF id # lastSel THEN NoFile ELSE file

select(i) ==
    /\ Free /\ \E r \in items : r.id = i
    /\ sel' = i /\ sel # i /\ UNCHANGED <<scope, items>>
    /\ IF panel = "form" THEN follow(items, i) /\ renderForm(calls, <<>>) /\ UNCHANGED file
       ELSE refollow(items, i) /\ UNCHANGED <<formVars, calls, asked>>
    /\ UNCHANGED <<panel, missed, opts, waiting, recs, tfiles>>
landList(c) ==
    /\ Answered(c, "list") /\ missed' = (missed \/ ~Ok(c)) /\ UNCHANGED <<scope, sel>>
    /\ items' = IF Ok(c) THEN c.rows ELSE items
    /\ IF ~Ok(c) THEN UNCHANGED <<lastSel, formVars, file, asked>> /\ calls' = calls \ {c}
       ELSE IF panel = "form" THEN follow(c.rows, sel) /\ renderForm(calls \ {c}, <<>>) /\ UNCHANGED file
       ELSE refollow(c.rows, sel) /\ calls' = calls \ {c} /\ UNCHANGED <<asked, formVars>>
    /\ UNCHANGED <<panel, opts, waiting, recs, tfiles>>
(* The screen's query runs again for another project; the form stays open.      *)
switchProject ==
    /\ panel = "form" /\ Free /\ (Patient => draft = NoDraft) /\ scope' = 3 - scope
    /\ SendAll(calls, <<reloadList>>)
    /\ UNCHANGED <<panel, missed, items, sel, lastSel, formVars, fileVars, recs, tfiles>>

Stay == UNCHANGED <<panel, missed, scope, items, fileVars, recs, tfiles>>
newRecord ==
    /\ panel = "form" /\ Free /\ draft.id # 0 /\ draft' = [id |-> 0, name |-> 0, opt |-> 0] /\ leaf' = 0
    /\ confirming' = FALSE /\ notice' = 0 /\ UNCHANGED scope /\ renderForm(calls, <<>>)
    /\ Stay /\ UNCHANGED <<sel, lastSel, opts>>
Edit == Stay /\ UNCHANGED <<calls, asked, sel, lastSel, opts, optsFor, confirming, notice>>
typeField(v) == draft # NoDraft /\ Free /\ draft.name # v /\ draft' = [draft EXCEPT !.name = v] /\ UNCHANGED leaf /\ Edit
pickOption(o) == draft # NoDraft /\ Free /\ o \in opts \cup {0} /\ draft.opt # o /\ draft' = [draft EXCEPT !.opt = o] /\ UNCHANGED leaf /\ Edit
editLeaf == draft # NoDraft /\ Free /\ leaf' = 1 - leaf /\ UNCHANGED draft /\ Edit
landOptions(c) ==
    /\ Answered(c, "options") /\ calls' = calls \ {c} /\ missed' = (missed \/ ~Ok(c))
    /\ opts' = IF Ok(c) THEN {c.home} ELSE opts
    /\ UNCHANGED <<panel, asked, scope, items, sel, lastSel, draft, leaf, optsFor, confirming, notice, fileVars, recs, tfiles>>

save ==
    /\ draft # NoDraft /\ Free /\ draft.name # 0 \* validate
    /\ SendAll(calls, <<RecordCall("save", draft.id, scope, draft.name, draft.opt, leaf)>>)
    /\ Stay /\ UNCHANGED <<sel, lastSel, formVars>>
runAction ==
    /\ draft.id > 0 /\ Free /\ SendAll(calls, <<RecordCall("action", draft.id, 0, 0, 0, 0)>>)
    /\ Stay /\ UNCHANGED <<sel, lastSel, formVars>>
askDelete(on) == draft.id > 0 /\ Free /\ confirming = ~on /\ confirming' = on /\ Stay /\ UNCHANGED <<calls, asked, sel, lastSel, draft, leaf, opts, optsFor, notice>>
confirmDelete ==
    /\ confirming /\ draft.id > 0 /\ Free /\ SendAll(calls, <<RecordCall("delete", draft.id, 0, 0, 0, 0)>>)
    /\ Stay /\ UNCHANGED <<sel, lastSel, formVars>>
resetAfterWrite(after) ==
    /\ draft' = NoDraft /\ confirming' = FALSE /\ UNCHANGED <<leaf, scope>>
    /\ renderForm(after, <<reloadList>>)
landWrite(c) ==
    /\ \E k \in {"save", "action", "delete"} : Answered(c, k)
    /\ IF Ok(c)
       THEN /\ resetAfterWrite(calls \ {c})
            /\ lastSel' = IF c.kind = "delete" THEN 0 ELSE -1 \* the cleared selection runs the effect again
            /\ sel' = IF c.kind = "delete" THEN 0 ELSE sel
            /\ notice' = IF c.kind = "action" THEN c.id ELSE notice
       ELSE /\ calls' = calls \ {c} /\ confirming' = (confirming /\ c.kind # "delete")
            /\ UNCHANGED <<asked, draft, leaf, optsFor, lastSel, sel, notice>>
    /\ Stay /\ UNCHANGED opts

-----------------------------------------------------------------------------
(* theme-files.ts.                                                           *)
themeId == IF panel = "files" /\ lastSel > 0 THEN lastSel ELSE 0
Own == UNION {r.own : r \in Row(items, themeId)}
Show == UNCHANGED <<panel, missed, scope, items, sel, lastSel, formVars, recs, tfiles>>
Button == themeId # 0 /\ Free /\ ~waiting
Logo(p) == p # Css

openFile(p, ro) ==
    /\ Button /\ (IF ro THEN p = Css /\ p \notin Own ELSE p \in Own)
    /\ file' = [NoFile EXCEPT !.path = p, !.ro = ro]
    /\ SendAll(calls, <<FileCall("get", themeId, p, 0, ro, {})>>)
    /\ Show /\ UNCHANGED waiting
landGet(c) ==
    /\ Answered(c, "get") /\ calls' = calls \ {c}
    /\ file' = IF Ok(c) /\ file.path = c.path THEN [file EXCEPT !.text = c.name, !.draft = c.name] ELSE file
    /\ Show /\ UNCHANGED <<asked, waiting>>
typeFile ==
    /\ Button /\ file.path = Css /\ file.text >= 0 /\ ~file.ro /\ file.draft # 10 * themeId + 1
    /\ file' = [file EXCEPT !.draft = 10 * themeId + 1]
    /\ Show /\ UNCHANGED <<calls, asked, waiting>>
closeFile == Button /\ file # NoFile /\ file' = NoFile /\ Show /\ UNCHANGED <<calls, asked, waiting>>

saveText(after, p, text, reopen) ==
    /\ themeId # 0
    /\ file' = IF file.path = p THEN [file EXCEPT !.busy = TRUE] ELSE file
    /\ SendAll(after, <<FileCall("put", themeId, p, text, reopen, {})>>)
saveFile ==
    /\ Button /\ file.path = Css /\ ~file.ro /\ file.text >= 0 /\ ~file.busy
    /\ saveText(calls, file.path, file.draft, FALSE) /\ Show /\ UNCHANGED waiting
newFile == Button /\ Css \notin Own /\ saveText(calls, Css, 10 * themeId + 1, TRUE) /\ Show /\ UNCHANGED waiting
landPut(c) ==
    /\ Answered(c, "put") /\ UNCHANGED scope
    /\ IF Ok(c)
       THEN /\ file' = IF c.reopen \/ file.path # c.path
                       THEN [path |-> c.path, ro |-> FALSE, text |-> c.name, draft |-> c.name, busy |-> FALSE]
                       ELSE [file EXCEPT !.busy = FALSE, !.ro = FALSE]
            /\ SendAll(calls \ {c}, <<reloadList>>)
       ELSE /\ file' = IF file.path = c.path THEN [file EXCEPT !.busy = FALSE] ELSE file
            /\ calls' = calls \ {c} /\ UNCHANGED asked
    /\ UNCHANGED <<panel, missed, items, sel, lastSel, formVars, waiting, recs, tfiles>>

customize ==
    /\ Button /\ Css \notin Own /\ waiting' = TRUE
    /\ SendAll(calls, <<FileCall("base", themeId, Css, 0, FALSE, {})>>) /\ Show /\ UNCHANGED file
landBase(c) ==
    /\ Answered(c, "base") /\ waiting' = FALSE /\ Show
    /\ IF Ok(c) /\ themeId # 0 THEN saveText(calls \ {c}, c.path, c.name, TRUE)
       ELSE calls' = calls \ {c} /\ UNCHANGED <<asked, file>>

(* A new logo replaces the others, once it is stored.                        *)
uploadFile(p) ==
    /\ Button /\ Logo(p) /\ waiting' = TRUE
    /\ SendAll(calls, <<FileCall("upload", themeId, p, 10 * themeId, FALSE, {q \in Own : Logo(q)} \ {p})>>)
    /\ Show /\ UNCHANGED file
deleteFiles(after, ps) == themeId # 0 /\ SendAll(after, <<FileCall("drop", themeId, 0, 0, FALSE, ps)>>)
removeFile(p) == Button /\ p \in Own /\ waiting' = TRUE /\ deleteFiles(calls, {p}) /\ Show /\ UNCHANGED file
landUpload(c) ==
    /\ Answered(c, "upload") /\ UNCHANGED scope
    /\ waiting' = (Ok(c) /\ c.drop # {} /\ themeId # 0)
    /\ IF ~Ok(c) THEN calls' = calls \ {c} /\ UNCHANGED asked
       ELSE IF c.drop = {} THEN SendAll(calls \ {c}, <<reloadList>>)
       ELSE IF themeId = 0 THEN calls' = calls \ {c} /\ UNCHANGED asked
       ELSE deleteFiles(calls \ {c}, c.drop)
    /\ UNCHANGED <<panel, missed, items, sel, lastSel, formVars, file, recs, tfiles>>
landDrop(c) ==
    /\ Answered(c, "drop") /\ waiting' = FALSE /\ UNCHANGED scope
    /\ IF Ok(c) THEN SendAll(calls \ {c}, <<reloadList>>) ELSE calls' = calls \ {c} /\ UNCHANGED asked
    /\ file' = IF Ok(c) /\ file.path \in c.drop THEN NoFile ELSE file
    /\ UNCHANGED <<panel, missed, items, sel, lastSel, formVars, recs, tfiles>>

-----------------------------------------------------------------------------
(* comm_channel.* and theme.* on the server; a batch is one transaction.        *)
Made == Cardinality(DOMAIN recs) + 1
ServerRuns(c) ==
    /\ c \in calls /\ c.state = "sent"
    /\ c.kind = "save" => IF c.id = 0 THEN Made <= MaxRecords ELSE recs[c.id].home = c.home
    /\ c.kind = "get" /\ ~c.reopen => c.path \in DOMAIN tfiles[c.id]
    /\ calls' = (calls \ {c}) \cup {[c EXCEPT !.state = "done",
            !.rows = IF c.kind # "list" THEN {} ELSE IF panel = "form" THEN Records(c.home) ELSE Themes,
            !.name = IF c.kind = "base" \/ (c.kind = "get" /\ c.reopen) THEN 10 * c.id
                     ELSE IF c.kind = "get" THEN tfiles[c.id][c.path] ELSE c.name]}
    /\ recs' = CASE c.kind = "save" /\ c.id = 0 -> recs @@ (Made :> [id |-> Made, home |-> c.home, name |-> c.name, opt |-> c.opt, leaf |-> c.leaf])
                 [] c.kind = "save" /\ c.id > 0 -> [recs EXCEPT ![c.id] = [id |-> c.id, home |-> c.home, name |-> c.name, opt |-> c.opt, leaf |-> c.leaf]]
                 [] c.kind = "delete" -> [recs EXCEPT ![c.id].home = 0]
                 [] OTHER -> recs
    /\ tfiles' = CASE c.kind \in {"put", "upload"} -> [tfiles EXCEPT ![c.id] = [p \in DOMAIN @ \cup {c.path} |-> IF p = c.path THEN c.name ELSE @[p]]]
                   [] c.kind = "drop" -> [tfiles EXCEPT ![c.id] = [p \in DOMAIN @ \ c.drop |-> @[p]]]
                   [] OTHER -> tfiles
    /\ UNCHANGED <<panel, asked, missed, scope, items, sel, lastSel, formVars, fileVars>>
Refused(c) ==
    /\ c \in calls /\ c.state = "sent" /\ calls' = (calls \ {c}) \cup {[c EXCEPT !.state = "refused"]}
    /\ UNCHANGED <<panel, asked, missed, scope, items, sel, lastSel, formVars, fileVars, recs, tfiles>>

Init ==
    /\ panel \in {"form", "files"} /\ asked = 1 /\ missed = FALSE /\ scope = 1 /\ items = {} /\ sel = 0 /\ lastSel = 0
    /\ calls = {[RecordCall("list", 0, 1, 0, 0, 0) EXCEPT !.n = 1]}
    /\ draft = NoDraft /\ leaf = 0 /\ opts = {} /\ optsFor = 0 /\ confirming = FALSE /\ notice = 0
    /\ file = NoFile /\ waiting = FALSE
    /\ recs = <<[id |-> 1, home |-> 1, name |-> 1, opt |-> 1, leaf |-> 0], [id |-> 2, home |-> 1, name |-> 1, opt |-> 0, leaf |-> 1]>>
    /\ tfiles = <<[p \in {1} |-> 10], [p \in {2, Css} |-> 20]>>
Next ==
    \/ (\E i \in 1 .. MaxRecords : select(i)) \/ switchProject \/ newRecord \/ (\E v \in {1, 2} : typeField(v) \/ pickOption(v)) \/ editLeaf
    \/ save \/ runAction \/ confirmDelete \/ (\E on \in BOOLEAN : askDelete(on))
    \/ (\E p \in Paths : uploadFile(p) \/ removeFile(p) \/ \E ro \in BOOLEAN : openFile(p, ro))
    \/ typeFile \/ closeFile \/ saveFile \/ newFile \/ customize
    \/ \E c \in calls : \/ landList(c) \/ landOptions(c) \/ landWrite(c) \/ landGet(c) \/ landPut(c) \/ landBase(c) \/ landUpload(c)
                         \/ landDrop(c) \/ ServerRuns(c) \/ Refused(c)
Spec == Init /\ [][Next]_vars

-----------------------------------------------------------------------------
TypeOK ==
    /\ scope \in {1, 2} /\ sel \in 0 .. MaxRecords /\ lastSel \in -1 .. MaxRecords
    /\ draft.id \in -1 .. MaxRecords /\ optsFor \in 0 .. 2 /\ file.path \in {0} \cup Paths

(* With nothing on its way and no read failed, the list is the server's, an open  *)
(* form offers its project's options, and a stored option is of its record's      *)
(* project.                                                                *)
RecordsTrue ==
    /\ panel = "form" /\ calls = {} /\ ~missed => items = Records(scope) /\ (draft # NoDraft => opts = {scope})
    /\ \A i \in DOMAIN recs : recs[i].home # 0 => recs[i].opt \in {0, recs[i].home}

(* A theme has only files made or chosen for it, and keeps its logo but for a      *)
(* new one or a removal asked while it was shown (theme-files.ts:471, :539).       *)
FilesOwn ==
    /\ \A t \in DOMAIN tfiles : \A p \in DOMAIN tfiles[t] : tfiles[t][p] \div 10 = t
    /\ \A c \in calls : c.kind = "drop" => c.id = sel

(* The list of a theme's files is the server's after every write.               *)
FilesListed == panel = "files" /\ calls = {} /\ ~missed => items = Themes

(* A new record's form closes for its own saved answer, or when the user picks     *)
(* another (record-form.ts:319, :982).                                      *)
NewKeptStep ==
    draft.id = 0 /\ draft'.id # 0 => (sel' # lastSel /\ sel' # sel) \/ \E c \in calls : c.kind = "save" /\ c.id = 0 /\ c.state = "done"
NewKept == [][NewKeptStep]_vars

-----------------------------------------------------------------------------
(* What holds at every step of a user who waits: the files pane has one call at    *)
(* most, asked for the theme shown, whose number is in what it stores or opens.    *)
FormKinds == {"list", "options", "save", "action", "delete"}
ThemeKinds == {"get", "put", "base", "upload", "drop"}
CallShape(c) ==
    c = [kind |-> c.kind, n |-> c.n, state |-> c.state, id |-> c.id, home |-> c.home, name |-> c.name, opt |-> c.opt,
         leaf |-> c.leaf, path |-> c.path, reopen |-> c.reopen, drop |-> c.drop, rows |-> c.rows]
FileShape == file = [path |-> file.path, ro |-> file.ro, text |-> file.text, draft |-> file.draft, busy |-> file.busy]
Stores(c) == c.kind \in {"put", "upload"} \/ (c.kind \in {"get", "base"} /\ Ok(c))
OfTheme(c) ==
    /\ c.kind \in {"list"} \cup ThemeKinds /\ \A r \in c.rows : r.id \in {1, 2}
    /\ c.kind \in ThemeKinds => c.id = lastSel /\ lastSel # 0
    /\ Stores(c) => c.name \div 10 = c.id
Shapes == \A c \in calls : CallShape(c)
FormAsks == panel = "form" => \A c \in calls : c.kind \in FormKinds
ThemeAsks ==
    panel = "files" =>
        /\ draft = NoDraft /\ lastSel \in {0, sel} \cap {0, 1, 2} /\ \A r \in items : r.id \in {1, 2}
        /\ (\A c, d \in calls : c = d) /\ (\A c \in calls : OfTheme(c))
        /\ FileShape /\ (file.text >= 0 => file.draft \div 10 = lastSel)
StoredOwn == DOMAIN tfiles = {1, 2} /\ \A t \in DOMAIN tfiles : \A p \in DOMAIN tfiles[t] : tfiles[t][p] \div 10 = t
Inv == panel \in {"form", "files"} /\ Shapes /\ FormAsks /\ ThemeAsks /\ StoredOwn
=============================================================================

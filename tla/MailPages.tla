----------------------------- MODULE MailPages -----------------------------
(***************************************************************************)
(* Three pages of lists a user adds to and removes from: the ways mail reaches an   *)
(* account (mailin/comm-routes.ts), a user's calendars (mailin/calendars.ts), both    *)
(* of which show a secret URL once, and the server's jobs (admin/scheduler-jobs.ts).   *)
(* Each behaviour follows one of them (panel). An item is a route of account home,    *)
(* or a calendar, whose home is 1; secret u of item i is 10 i + u.                  *)
(***************************************************************************)
EXTENDS Integers, Sequences, FiniteSets

CONSTANTS
    MaxItems, MaxSecrets, \* bounds: items ever made, secrets of one
    MaxForms, MaxCalls,   \* bounds: forms opened, calls sent
    Patient               \* whether the user waits for each answer before the next step

VARIABLES
    panel,
    calls, asked, missed,
    home, rows, loaded, \* the account shown, the list and whether it was ever read
    form, forms, minted, mintedAt, confirm, notice, \* the open form, the secret shown and since which call, the deletion asked, the refusal shown
    items, \* the server's
    running, shown, runs \* the jobs

pageVars == <<home, rows, loaded, form, forms, minted, mintedAt, confirm, notice>>
jobVars == <<running, shown, runs>>
vars == <<panel, calls, asked, missed, pageVars, items, jobVars>>

Jobs == {1, 2}
NoForm == [n |-> 0, id |-> 0, text |-> 0, busy |-> FALSE, error |-> FALSE]
Quiet == Patient => calls = {}
Page == panel # "jobs" /\ UNCHANGED <<panel, jobVars>>
ListOf(h) == {[id |-> i, text |-> items[i].text, secrets |-> items[i].secrets] : i \in {j \in DOMAIN items : items[j].home = h}}
Call(kind, id, text, of) ==
    [kind |-> kind, state |-> "sent", n |-> asked, id |-> id, home |-> home', text |-> text, of |-> of, out |-> {}]
Sent(after, c) == asked < MaxCalls /\ asked' = asked + 1 /\ calls' = after \cup {c}
load(after) == Sent(after, Call("list", 0, 0, 0))
Write(c) == Sent(calls, c) /\ Quiet

-----------------------------------------------------------------------------
(* The page's own steps. Another account clears everything and reads again.       *)
pickAccount(h) ==
    /\ Page /\ panel = "routes" /\ h # home /\ home' = h
    /\ (Patient => \A c \in calls : c.kind = "list")
    /\ rows' = {} /\ loaded' = FALSE /\ form' = NoForm /\ minted' = 0 /\ confirm' = 0 /\ notice' = 0
    /\ load(calls) /\ UNCHANGED mintedAt /\ UNCHANGED <<forms, missed, items>>
Keep == UNCHANGED <<mintedAt, calls, asked, missed, home, rows, loaded, notice, items>>
openForm(id, text) ==
    /\ Page /\ Quiet /\ loaded /\ forms < MaxForms /\ forms' = forms + 1 /\ minted' = 0 /\ UNCHANGED confirm
    /\ form' = [NoForm EXCEPT !.n = forms', !.id = id, !.text = text] /\ Keep
openAdd == form = NoForm /\ openForm(0, 0)
openEdit(r) == form.id # r.id /\ openForm(r.id, r.text)
typeForm == Page /\ Quiet /\ form # NoForm /\ form' = [form EXCEPT !.text = 1 - @] /\ Keep /\ UNCHANGED <<forms, minted, confirm>>
cancel == Page /\ Quiet /\ form # NoForm /\ form' = NoForm /\ Keep /\ UNCHANGED <<forms, minted, confirm>>
done == Page /\ minted # 0 /\ minted' = 0 /\ Keep /\ UNCHANGED <<form, forms, confirm>>
ask(id) == Page /\ Quiet /\ confirm # id /\ confirm' = id /\ Keep /\ UNCHANGED <<form, forms, minted>>

Here == UNCHANGED <<mintedAt, missed, home, rows, loaded, forms, minted, confirm, notice, items>>
save ==
    /\ Page /\ form # NoForm /\ ~form.busy /\ Here /\ form' = [form EXCEPT !.busy = TRUE, !.error = FALSE]
    /\ Write(Call(IF form.id = 0 THEN "create" ELSE "update", form.id, form.text, form.n))
remove(r) == Page /\ confirm = r.id /\ Here /\ UNCHANGED form /\ Write(Call("delete", r.id, 0, 0))
mintURL(r) == Page /\ panel = "calendars" /\ Here /\ UNCHANGED form /\ Write(Call("mint", r.id, 0, 0))
revoke(r, u) == Page /\ panel = "calendars" /\ Here /\ UNCHANGED form /\ Write(Call("revoke", r.id, u, 0))

-----------------------------------------------------------------------------
(* The server's side, then the answers, or a fault.                             *)
Alive(c) == c.id \in DOMAIN items /\ items[c.id].home # 0
NewSecret(c) == items[c.id].made + 1
Runs(c) ==
    \/ c.kind = "list" /\ UNCHANGED items /\ calls' = (calls \ {c}) \cup {[c EXCEPT !.state = "done", !.out = ListOf(c.home)]}
    \/ /\ c.kind = "create" /\ Len(items) < MaxItems
       /\ items' = Append(items, [home |-> c.home, text |-> c.text, secrets |-> {}, made |-> 0])
       /\ calls' = (calls \ {c}) \cup {[c EXCEPT !.state = "done", !.id = Len(items')]}
    \/ /\ c.kind = "mint" /\ Alive(c) /\ NewSecret(c) <= MaxSecrets
       /\ items' = [items EXCEPT ![c.id].secrets = @ \cup {NewSecret(c)}, ![c.id].made = @ + 1]
       /\ calls' = (calls \ {c}) \cup {[c EXCEPT !.state = "done", !.text = NewSecret(c)]}
    \/ /\ Alive(c)
       /\ items' = CASE c.kind = "update" -> [items EXCEPT ![c.id].text = c.text]
                     [] c.kind = "delete" -> [items EXCEPT ![c.id].home = 0, ![c.id].secrets = {}]
                     [] c.kind = "revoke" -> [items EXCEPT ![c.id].secrets = @ \ {c.text}]
                     [] OTHER -> items
       /\ c.kind \in {"update", "delete", "revoke"}
       /\ calls' = (calls \ {c}) \cup {[c EXCEPT !.state = "done"]}
serve(c) == Page /\ c.state = "sent" /\ Runs(c) /\ UNCHANGED <<asked, missed, pageVars>>

Answer(c, kinds) == Page /\ c \in calls /\ c.kind \in kinds /\ c.state = "done" /\ UNCHANGED <<missed, items, forms>>
landList(c) == \* comm-routes.ts drops another account's
    /\ Answer(c, {"list"}) /\ calls' = calls \ {c}
    /\ IF c.home = home THEN rows' = c.out /\ loaded' = TRUE ELSE UNCHANGED <<rows, loaded>>
    /\ UNCHANGED <<asked, home, form, minted, mintedAt, confirm, notice>>
show(m) == minted' = m /\ mintedAt' = asked'
landSave(c) == \* whatever form is open closes; a new route's secret shows
    /\ Answer(c, {"create", "update"}) /\ form' = NoForm /\ UNCHANGED <<home, rows, loaded, confirm, notice>>
    /\ load(calls \ {c})
    /\ IF panel = "routes" /\ c.kind = "create" THEN show(10 * c.id) ELSE UNCHANGED <<minted, mintedAt>>
landMint(c) ==
    /\ Answer(c, {"mint"}) /\ UNCHANGED <<home, rows, loaded, form, confirm, notice>>
    /\ load(calls \ {c}) /\ show(10 * c.id + c.text)
landDelete(c) ==
    /\ Answer(c, {"delete", "revoke"}) /\ confirm' = 0 /\ UNCHANGED <<home, rows, loaded, form, mintedAt, notice>>
    /\ minted' = IF panel = "routes" /\ minted = 10 * c.id THEN 0 ELSE minted
    /\ load(calls \ {c})
(* A fault: of a route's form on that form; of a calendar's call on whatever form    *)
(* is open, which may be saved again.                                           *)
failForm(f) == [f EXCEPT !.busy = FALSE, !.error = TRUE]
fail(c) ==
    /\ Page /\ c \in calls /\ c.state = "sent" /\ calls' = calls \ {c} /\ UNCHANGED <<asked, home, rows, loaded, forms, minted, mintedAt, confirm, items>>
    /\ missed' = (missed \/ c.kind = "list")
    /\ IF c.kind = "list" THEN UNCHANGED <<form, notice>>
       ELSE IF panel = "calendars" /\ form # NoForm THEN form' = failForm(form) /\ UNCHANGED notice
       ELSE IF c.of # 0 /\ panel = "routes" THEN form' = (IF form.n = c.of THEN failForm(form) ELSE form) /\ UNCHANGED notice
       ELSE notice' = c.home /\ UNCHANGED form

-----------------------------------------------------------------------------
(* admin/scheduler-jobs.ts: a job runs at most once at a time from this page.      *)
JobPage == panel = "jobs" /\ UNCHANGED <<panel, asked, pageVars, items>>
Unasked(j) == ~\E c \in calls : c.job = j
loadJobs == JobPage /\ ~missed /\ shown = <<>> /\ shown' = runs /\ UNCHANGED <<calls, missed, running, runs>>
runNow(j) == JobPage /\ shown # <<>> /\ j \notin running /\ running' = running \cup {j} /\ UNCHANGED <<calls, missed, shown, runs>>
serveRun(j) == \* the server runs it, or says it runs elsewhere
    /\ JobPage /\ j \in running /\ Unasked(j)
    /\ runs[j] < MaxCalls /\ runs' \in {runs, [runs EXCEPT ![j] = @ + 1]}
    /\ calls' = calls \cup {[job |-> j, at |-> runs'[j]]} /\ UNCHANGED <<missed, running, shown>>
landRun(c) ==
    /\ JobPage /\ c \in calls /\ calls' = calls \ {c} /\ running' = running \ {c.job}
    /\ shown' = [shown EXCEPT ![c.job] = c.at] /\ UNCHANGED <<missed, runs>>
failRun(j) == \* refused; only the button comes back
    /\ JobPage /\ j \in running /\ Unasked(j) /\ running' = running \ {j} /\ UNCHANGED <<calls, missed, shown, runs>>

-----------------------------------------------------------------------------
Init ==
    /\ panel \in {"routes", "calendars", "jobs"}
    /\ asked = 0 /\ missed = FALSE /\ home = IF panel = "calendars" THEN 1 ELSE 0
    /\ calls = IF panel = "calendars" THEN {[kind |-> "list", state |-> "sent", n |-> -1, id |-> 0, home |-> 1, text |-> 0, of |-> 0, out |-> {}]} ELSE {}
    /\ rows = {} /\ loaded = FALSE /\ form = NoForm /\ forms = 0 /\ minted = 0 /\ mintedAt = 0 /\ confirm = 0 /\ notice = 0
    /\ items = IF panel = "jobs" THEN <<>> ELSE <<[home |-> 1, text |-> 0, secrets |-> {}, made |-> 0]>>
    /\ running = {} /\ shown = <<>> /\ runs = [j \in Jobs |-> 0]

Next ==
    \/ \E h \in {1, 2} : pickAccount(h)
    \/ openAdd \/ typeForm \/ cancel \/ done \/ save
    \/ \E r \in rows : openEdit(r) \/ ask(r.id) \/ remove(r) \/ mintURL(r) \/ \E u \in r.secrets : revoke(r, u)
    \/ panel # "jobs" /\ \E c \in calls : \/ serve(c) \/ fail(c)
                                          \/ landList(c) \/ landSave(c) \/ landMint(c) \/ landDelete(c)
    \/ loadJobs \/ (panel = "jobs" /\ \E c \in calls : landRun(c))
    \/ \E j \in Jobs : runNow(j) \/ serveRun(j) \/ failRun(j)

Spec == Init /\ [][Next]_vars

-----------------------------------------------------------------------------
(* The types: the list, the form and what is shown beside them.                 *)
TypeOK ==
    /\ home \in 0..2 /\ loaded \in BOOLEAN /\ form.n \in 0..forms /\ form.id \in 0..MaxItems
    /\ confirm \in 0..MaxItems /\ notice \in 0..2 /\ running \subseteq Jobs
    /\ \A r \in rows : r.id \in DOMAIN items /\ r.text \in {0, 1}

(* With nothing in flight, and no read of it refused, the list is the server's of   *)
(* the account picked, and a job's count is its last run (comm-routes.ts, calendars.ts, *)
(* scheduler-jobs.ts load).                                                      *)
PagesTrue ==
    /\ panel # "jobs" /\ calls = {} /\ loaded /\ ~missed => rows = ListOf(home)
    /\ panel = "jobs" /\ shown # <<>> => \A j \in Jobs \ running : shown[j] = runs[j]

(* The secret on screen, shown this once, is of an item of the account shown, and a   *)
(* refusal shown is of that account too (comm-routes.ts save, remove).              *)
SecretOwn ==
    /\ minted # 0 /\ panel = "routes" => items[minted \div 10].home \in {0, home}
    /\ notice \in {0, home}

(* No answer takes away a secret not yet noted down: one shown gives way only to the  *)
(* user's own next step, or to the deletion of its route (calendars.ts mintURL).      *)
SecretsKeptStep ==
    minted # 0 /\ minted' # minted =>
        \A c \in calls \ calls' : c.kind = "delete" \/ c.n >= mintedAt
SecretsKept == [][SecretsKeptStep]_vars

(* An answer closes the form it was sent from, never one opened since with its text    *)
(* unsaved, and only its own fault frees a form that is being saved                 *)
(* (calendars.ts save, fail).                                                    *)
FormsKeptStep ==
    \A c \in calls \ calls' :
         panel # "jobs" /\ form # NoForm /\ (form' = NoForm \/ form'.busy # form.busy) => c.of = form.n
FormsKept == [][FormsKeptStep]_vars

-----------------------------------------------------------------------------
(* What holds at every step of a user who waits: a write still out is of the account  *)
(* shown, and a route made is an item of it, or one removed since.                 *)
CallShape(c) ==
    c = [kind |-> c.kind, state |-> c.state, n |-> c.n, id |-> c.id, home |-> c.home, text |-> c.text, of |-> c.of,
         out |-> c.out]
ItemShape(r) == r = [home |-> r.home, text |-> r.text, secrets |-> r.secrets, made |-> r.made]
AskedHere(c) ==
    /\ CallShape(c)
    /\ c.kind # "list" => c.home = home
    /\ c.kind = "mint" => panel = "calendars"
    /\ c.kind = "create" /\ c.state = "done" => c.id \in DOMAIN items /\ items[c.id].home \in {0, home}
ItemsMade == items \in Seq({items[i] : i \in DOMAIN items}) /\ \A i \in DOMAIN items : ItemShape(items[i])
SecretMade == minted # 0 /\ panel = "routes" => minted \div 10 \in DOMAIN items
Inv == (panel # "jobs" => \A c \in calls : AskedHere(c)) /\ ItemsMade /\ SecretMade /\ SecretOwn
=============================================================================

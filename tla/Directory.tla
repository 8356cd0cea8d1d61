----------------------------- MODULE Directory -----------------------------
(***************************************************************************)
(* Two managers of an administrator: a project's values of one managed type    *)
(* (admin/enum-manager.ts), and people with their logins (admin/people-manager). *)
(* They share nothing, so each behaviour follows one of them (panel).          *)
(* A value's name is its group times ten and a leaf; a flat type has one group.  *)
(* A write answered by nothing the code listens to is a "set" call.           *)
(***************************************************************************)
EXTENDS Integers, SequencesExt

CONSTANTS
    Groups, Leaves, \* the parts of a value's name
    Roles,
    MaxValues, MaxPeople, \* bounds: values and people ever made
    MaxCalls,   \* bound: batches sent
    Patient     \* whether the user waits for every answer

VARIABLES
    panel,
    calls, asked,
    missed,     \* whether a read failed, or a write shown before its answer, since the last read
    scope, ready, \* the project; whether the types to manage are known
    shown, pending, drafts, drag, \* the values, groups without any yet, names being typed, the value dragged
    vals,       \* the server's values, home 0 once deleted
    persons, accounts,  \* the people and the roles of those with a login, as read
    modal, addresses,   \* the open dialog; how many addresses it lists
    greeting,   \* the user's own name, on every screen
    ppl, acc, spare, disp, born \* the server's people, logins, those with two addresses, the user's display name

vars == <<panel, calls, asked, missed, scope, ready, shown, pending, drafts, drag, vals,
          persons, accounts, modal, addresses, greeting, ppl, acc, spare, disp, born>>
valueVars == <<scope, ready, shown, pending, drafts, drag>>
peopleVars == <<persons, accounts, modal, addresses, greeting>>
people == <<ppl, acc, spare, disp, born>>

Me == 1
Tiers == {"contact", "assignee", "user"}
NoModal == [kind |-> "none", who |-> 0, pick |-> 0, tier |-> "user", at |-> 0, filled |-> FALSE, asking |-> FALSE]
Free == Patient => calls = {}

(* A list as the server orders it: by sort_order, none last, then by name.     *)
Before(v, w) ==
    IF v.order = w.order THEN v.name < w.name \/ (v.name = w.name /\ v.id < w.id)
    ELSE w.order = 0 \/ (v.order # 0 /\ v.order < w.order)
Group(v) == v.name \div 10
ListOf(p) == SetToSortSeq({v \in {vals[i] : i \in DOMAIN vals} : v.home = p}, Before)

Send(after, c) ==
    /\ asked < MaxCalls /\ asked' = asked + 1
    /\ calls' = after \cup {c @@ [n |-> asked', state |-> "sent", field |-> "", to |-> <<>>, who |-> 0, arg |-> 0, tier |-> "", got |-> <<>>]}
Answered(c, kinds) == c \in calls /\ c.kind \in kinds /\ c.state # "sent"
Ok(c) == c.state = "done"

-----------------------------------------------------------------------------
(* enum-manager.ts                                                         *)
Read == [kind |-> "values", who |-> scope']
loadSchema ==
    /\ panel = "values" /\ ~ready /\ ready' = TRUE /\ UNCHANGED scope
    /\ Send(calls, Read)
    /\ UNCHANGED <<panel, missed, shown, pending, drafts, drag, vals, peopleVars, people>>
switchScope ==
    /\ panel = "values" /\ Free /\ scope' = 3 - scope /\ pending' = {}
    /\ IF ready THEN Send(calls, Read) ELSE UNCHANGED <<calls, asked>>
    /\ UNCHANGED <<panel, missed, ready, shown, drafts, drag, vals, peopleVars, people>>
landValues(c) ==
    /\ Answered(c, {"values"}) /\ calls' = calls \ {c} /\ missed' = ~Ok(c)
    /\ shown' = IF Ok(c) THEN c.got ELSE shown
    /\ UNCHANGED <<panel, asked, scope, ready, pending, drafts, drag, vals, peopleVars, people>>

Members(g) == SelectSeq(shown, LAMBDA v : Group(v) = g)
Exclusive(g) == Members(g) # <<>> /\ \A i \in DOMAIN Members(g) : Members(g)[i].excl = 1
groupsOf == {Group(shown[i]) : i \in DOMAIN shown}

(* A write the list shows at once.                                          *)
Shown(to, f) == [i \in DOMAIN shown |-> IF shown[i].id \in DOMAIN to
                                        THEN [shown[i] EXCEPT ![f] = to[shown[i].id]] ELSE shown[i]]
Write(to, f, kind) ==
    /\ panel = "values" /\ Free /\ shown' = Shown(to, f)
    /\ Send(calls, [kind |-> kind, field |-> f, to |-> to])
    /\ UNCHANGED <<panel, missed, scope, ready, pending, drafts, drag, vals, peopleVars, people>>
setValuePhase(i, p) == shown[i].phase # p /\ Write(shown[i].id :> p, "phase", "setThenRead")
setValueColor(i, m) == shown[i].mark # m /\ Write(shown[i].id :> m, "mark", "set")
setGroupExclusive(g, on) ==
    LET them == {shown[i].id : i \in {j \in DOMAIN shown : Group(shown[j]) = g /\ shown[j].excl # on}} IN
    them # {} /\ Write([v \in them |-> on], "excl", "set")

startDrag(i) ==
    /\ panel = "values" /\ drag = 0 /\ drag' = shown[i].id
    /\ UNCHANGED <<panel, calls, asked, missed, scope, ready, shown, pending, drafts, vals, peopleVars, people>>
resetDrag ==
    /\ drag # 0 /\ drag' = 0
    /\ UNCHANGED <<panel, calls, asked, missed, scope, ready, shown, pending, drafts, vals, peopleVars, people>>
(* The value among its group's others, the groups one after another, and every  *)
(* sort_order that is not ten times its place written.                        *)
moveValueToSlot(g, slot) ==
    LET moved == SelectSeq(shown, LAMBDA v : v.id = drag)
        others == SelectSeq(Members(g), LAMBDA v : v.id # drag)
        group(h) == IF h = g THEN SubSeq(others, 1, slot) \o moved \o SubSeq(others, slot + 1, Len(others)) ELSE Members(h)
        next == FlattenSeq([k \in 1 .. Cardinality(groupsOf) |-> group(SetToSortSeq(groupsOf, <)[k])])
        want == [i \in {j \in DOMAIN next : next[j].order # j} |-> i]
        to == [v \in {next[i].id : i \in DOMAIN want} |-> CHOOSE i \in DOMAIN want : next[i].id = v]
    IN /\ panel = "values" /\ Free /\ drag # 0 /\ drag' = 0
       /\ slot \in 0 .. Len(others)
       /\ IF moved = <<>> \/ Group(moved[1]) # g \/ [i \in DOMAIN next |-> next[i].id] = [i \in DOMAIN shown |-> shown[i].id]
          THEN UNCHANGED <<shown, calls, asked>>
          ELSE /\ shown' = [i \in DOMAIN next |-> [next[i] EXCEPT !.order = i]]
               /\ IF to = <<>> THEN UNCHANGED <<calls, asked>> ELSE Send(calls, [kind |-> "set", field |-> "order", to |-> to])
       /\ UNCHANGED <<panel, missed, scope, ready, pending, drafts, vals, peopleVars, people>>

newGroup(g) ==
    /\ panel = "values" /\ ready /\ g \notin pending \cup groupsOf /\ pending' = pending \cup {g}
    /\ UNCHANGED <<panel, calls, asked, missed, scope, ready, shown, drafts, drag, vals, peopleVars, people>>
typeDraft(g, l) ==
    /\ panel = "values" /\ Free /\ g \in groupsOf \cup pending /\ (\A h \in Groups : drafts[h] = 0) /\ drafts' = [drafts EXCEPT ![g] = l]
    /\ UNCHANGED <<panel, calls, asked, missed, scope, ready, shown, pending, drag, vals, peopleVars, people>>
addValue(g, p) ==
    /\ panel = "values" /\ Free /\ g \in groupsOf \cup pending /\ drafts[g] # 0
    /\ drafts' = [drafts EXCEPT ![g] = 0]
    /\ Send(calls, [kind |-> "add", who |-> scope,
                    to |-> <<10 * g + drafts[g], p, IF Exclusive(g) THEN 1 ELSE 0>>])
    /\ UNCHANGED <<panel, missed, scope, ready, shown, pending, drag, vals, peopleVars, people>>
renameValue(i, name) ==
    /\ panel = "values" /\ Free /\ name # shown[i].name
    /\ Send(calls, [kind |-> "setThenRead", field |-> "name", to |-> shown[i].id :> name])
    /\ UNCHANGED <<panel, missed, valueVars, vals, peopleVars, people>>
removeValue(i) ==
    /\ panel = "values" /\ Free
    /\ Send(calls, [kind |-> "setThenRead", field |-> "home", to |-> shown[i].id :> 0])
    /\ UNCHANGED <<panel, missed, valueVars, vals, peopleVars, people>>
landSet(c) ==
    /\ Answered(c, {"set", "setThenRead", "add"}) /\ UNCHANGED scope
    /\ IF Ok(c) /\ c.kind # "set" THEN Send(calls \ {c}, Read) ELSE calls' = calls \ {c} /\ UNCHANGED asked
    /\ missed' = (missed \/ (~Ok(c) /\ c.field \in {"phase", "mark", "excl", "order"}))
    /\ pending' = IF Ok(c) /\ c.kind = "add" THEN pending \ {c.to[1] \div 10} ELSE pending
    /\ UNCHANGED <<panel, ready, shown, drafts, drag, vals, peopleVars, people>>

-----------------------------------------------------------------------------
(* people-manager.ts: a login makes a person a user whatever the kind says.     *)
tierOf(p) == IF p \in DOMAIN accounts THEN "user" ELSE IF persons[p].kind = "contact" THEN "contact" ELSE "assignee"
OnRow(p) == panel = "people" /\ Free /\ modal = NoModal /\ p \in DOMAIN persons
KindOf(t) == IF t = "contact" THEN "contact" ELSE "member"

Fire(c) == Send(calls, c) /\ UNCHANGED <<panel, missed, valueVars, vals, persons, accounts, addresses, greeting, people>>
Commit(p, f, v) == OnRow(p) /\ persons[p][f] # v /\ UNCHANGED modal /\ Fire([kind |-> "person", field |-> f, who |-> p, arg |-> v])
commitName(p, v) == Commit(p, "title", v)
commitActive(p, v) == Commit(p, "active", v)
commitEmail(p, v) == OnRow(p) /\ tierOf(p) # "user" /\ Commit(p, "email", v)
assignRole(p, r) ==
    /\ OnRow(p) /\ p \in DOMAIN accounts /\ r \notin accounts[p] /\ UNCHANGED modal
    /\ Fire([kind |-> "assign", who |-> p, arg |-> r])
revokeRole(p, r) ==
    /\ OnRow(p) /\ p \in DOMAIN accounts /\ r \in accounts[p] /\ UNCHANGED modal
    /\ Fire([kind |-> "revoke", who |-> p, arg |-> r])

(* The kind, and with it the login given or taken; taking one is asked first.   *)
Tier(p, t) == [kind |-> "tier", who |-> p, tier |-> t, field |-> IF t = "user" /\ p \notin DOMAIN accounts THEN "grant" ELSE ""]
changeTier(p, t) ==
    /\ OnRow(p) /\ t # tierOf(p) /\ tierOf(p) # "user" /\ UNCHANGED modal /\ Fire(Tier(p, t))
applyTier ==
    /\ modal.kind = "demote" /\ modal' = NoModal /\ Free
    /\ modal.who \in DOMAIN persons /\ Fire(Tier(modal.who, modal.tier))

openModal(kind, p, m) ==
    /\ modal' = m @@ [NoModal EXCEPT !.kind = kind, !.who = p]
    /\ UNCHANGED <<panel, calls, asked, missed, valueVars, vals, persons, accounts, addresses, greeting, people>>
openDemoteDialog(p, t) == OnRow(p) /\ tierOf(p) = "user" /\ t # "user" /\ openModal("demote", p, [tier |-> t])
openRemoveDialog(p) == OnRow(p) /\ openModal("remove", p, <<>>)
openMergeDialog(p) ==
    /\ OnRow(p) /\ DOMAIN persons # {p}
    /\ \E s \in DOMAIN persons \ {p} : (\A q \in DOMAIN persons \ {p} : s <= q) /\ openModal("merge", p, [pick |-> s, at |-> s])
openCreateDialog == panel = "people" /\ Free /\ modal = NoModal /\ openModal("create", 0, [at |-> born])
openAddressesDialog(p) ==
    /\ OnRow(p) /\ tierOf(p) = "user" /\ addresses' = 0
    /\ modal' = [NoModal EXCEPT !.kind = "addresses", !.who = p, !.at = asked]
    /\ Send(calls, [kind |-> "addresses", who |-> p])
    /\ UNCHANGED <<panel, missed, valueVars, vals, persons, accounts, greeting, people>>

Edit(m) == modal' = m /\ UNCHANGED <<panel, calls, asked, missed, valueVars, vals, persons, accounts, addresses, greeting, people>>
fill(t) == modal.kind = "create" /\ Free /\ ~modal.filled /\ Edit([modal EXCEPT !.filled = TRUE, !.tier = t])
pickSurvivor(s) == modal.kind = "merge" /\ Free /\ s \in DOMAIN persons \ {modal.who, modal.pick} /\ Edit([modal EXCEPT !.pick = s])
isDirty == modal.filled \/ (modal.kind = "merge" /\ modal.pick # modal.at)
dismissModal == modal # NoModal /\ ~modal.asking /\ Edit(IF isDirty THEN [modal EXCEPT !.asking = TRUE] ELSE NoModal)
discard == modal.asking /\ Edit(NoModal)
keep == modal.asking /\ Edit([modal EXCEPT !.asking = FALSE])

create == modal.kind = "create" /\ modal.filled /\ Free /\ UNCHANGED modal /\ Fire([kind |-> "create", tier |-> modal.tier])
merge ==
    /\ modal.kind = "merge" /\ Free /\ ~{modal.who, modal.pick} \subseteq DOMAIN accounts /\ UNCHANGED modal
    /\ Fire([kind |-> "merge", who |-> modal.who, arg |-> modal.pick])
removePerson == modal.kind = "remove" /\ Free /\ UNCHANGED modal /\ Fire([kind |-> "remove", who |-> modal.who])
removeAddress ==
    /\ modal.kind = "addresses" /\ addresses = 2 /\ Free /\ UNCHANGED modal
    /\ Fire([kind |-> "removeAddress", who |-> modal.who])

(* Every answer reads the people and the logins again, whatever was refused     *)
(* stays as it is; some close the dialog, whichever it is by then.             *)
load == [n |-> 1, state |-> "sent", kind |-> "people", field |-> "", to |-> <<>>, who |-> 0, arg |-> 0, tier |-> "", got |-> <<>>]
landPeople(c) ==
    /\ Answered(c, {"people"}) /\ calls' = calls \ {c} /\ missed' = ~Ok(c)
    /\ IF Ok(c) THEN persons' = c.got[1] /\ accounts' = c.got[2] ELSE UNCHANGED <<persons, accounts>>
    /\ UNCHANGED <<panel, asked, valueVars, vals, modal, addresses, greeting, people>>
landChange(c) ==
    /\ Answered(c, {"person", "assign", "revoke", "tier", "create", "merge", "remove"})
    /\ IF Ok(c) \/ c.field = "grant" THEN Send(calls \ {c}, [kind |-> "people"]) ELSE calls' = calls \ {c} /\ UNCHANGED asked
    /\ modal' = IF Ok(c) /\ c.kind \in {"create", "merge", "remove"} THEN NoModal ELSE modal
    /\ greeting' = IF Ok(c) /\ c.kind = "person" /\ c.field = "title" /\ c.who = Me /\ Me \in DOMAIN accounts THEN c.arg ELSE greeting
    /\ UNCHANGED <<panel, missed, valueVars, vals, persons, accounts, addresses, people>>
landAddresses(c) ==
    /\ Answered(c, {"addresses", "removeAddress"})
    /\ IF Ok(c) /\ c.kind = "removeAddress" THEN Send(calls \ {c}, [kind |-> "addresses", who |-> c.who])
       ELSE calls' = calls \ {c} /\ UNCHANGED asked
    /\ addresses' = IF Ok(c) /\ c.kind = "addresses" /\ modal.kind = "addresses" /\ c.n > modal.at THEN c.arg ELSE addresses
    /\ missed' = (missed \/ ~Ok(c))
    /\ UNCHANGED <<panel, valueVars, vals, persons, accounts, modal, greeting, people>>

-----------------------------------------------------------------------------
(* card.*, attribute.update, person.*, user.*, user_role.* on the server.      *)
Without(f, p) == [q \in DOMAIN f \ {p} |-> f[q]]
Person(t) == [title |-> 1, kind |-> KindOf(t), active |-> 1, email |-> 1]
ServerRunsValues(c) ==
    LET new == Cardinality(DOMAIN vals) + 1 IN
    /\ panel = "values" /\ c \in calls /\ c.state = "sent"
    /\ c.kind = "add" => new <= MaxValues
    /\ calls' = (calls \ {c}) \cup {[c EXCEPT !.state = "done", !.got = IF c.kind = "values" THEN ListOf(c.who) ELSE <<>>]}
    /\ vals' = CASE c.kind = "add" -> vals @@ (new :> [id |-> new, home |-> c.who, name |-> c.to[1], order |-> 0,
                                                      mark |-> 0, phase |-> c.to[2], excl |-> c.to[3]])
                 [] c.field # "" -> [i \in DOMAIN vals |-> IF i \in DOMAIN c.to THEN [vals[i] EXCEPT ![c.field] = c.to[i]] ELSE vals[i]]
                 [] OTHER -> vals
    /\ UNCHANGED <<panel, asked, missed, valueVars, peopleVars, people>>
ServerRunsPeople(c) ==
    LET login == IF c.kind = "tier" THEN c.tier = "user" ELSE c.who \in DOMAIN acc
        both == {c.who, c.arg} \subseteq DOMAIN acc
    IN
    /\ panel = "people" /\ c \in calls /\ c.state = "sent" /\ (c.kind = "create" => born < MaxPeople)
    /\ c.who # 0 => c.who \in DOMAIN ppl
    /\ c.kind = "merge" => ~both /\ c.arg \in DOMAIN ppl
    /\ c.kind \in {"assign", "revoke"} => c.who \in DOMAIN acc
    /\ calls' = (calls \ {c}) \cup {[c EXCEPT !.state = "done", !.got = IF c.kind = "people" THEN <<ppl, acc>> ELSE <<>>,
                                     !.arg = IF c.kind = "addresses" THEN (IF c.who \in spare THEN 2 ELSE 1) ELSE c.arg]}
    /\ ppl' = CASE c.kind = "person" -> [ppl EXCEPT ![c.who][c.field] = c.arg]
                [] c.kind = "tier" -> [ppl EXCEPT ![c.who].kind = KindOf(c.tier)]
                [] c.kind = "create" -> ppl @@ (born + 1 :> Person(c.tier))
                [] c.kind \in {"merge", "remove"} -> Without(ppl, c.who)
                [] OTHER -> ppl
    /\ acc' = CASE c.kind = "assign" -> [acc EXCEPT ![c.who] = @ \cup {c.arg}]
                [] c.kind = "revoke" -> [acc EXCEPT ![c.who] = @ \ {c.arg}]
                [] c.kind = "tier" -> IF ~login THEN Without(acc, c.who) ELSE acc @@ (c.who :> {})
                [] c.kind = "create" /\ c.tier = "user" -> acc @@ (born + 1 :> {})
                [] c.kind = "merge" /\ login -> Without(acc, c.who) @@ (c.arg :> acc[c.who])
                [] c.kind = "remove" -> Without(acc, c.who)
                [] OTHER -> acc
    /\ born' = IF c.kind = "create" THEN born + 1 ELSE born
    /\ spare' = CASE c.kind = "removeAddress" -> spare \ {c.who}
                  [] c.kind = "merge" -> IF c.who \in spare THEN (spare \ {c.who}) \cup {c.arg} ELSE spare
                  [] OTHER -> spare \cap DOMAIN ppl'
    /\ disp' = IF c.kind = "person" /\ c.field = "title" /\ c.who = Me /\ Me \in DOMAIN acc THEN c.arg ELSE disp
    /\ UNCHANGED <<panel, asked, missed, valueVars, vals, peopleVars>>
Refused(c) ==
    /\ c \in calls /\ c.state = "sent" /\ calls' = (calls \ {c}) \cup {[c EXCEPT !.state = "refused"]}
    /\ UNCHANGED <<panel, asked, missed, valueVars, vals, peopleVars, people>>

Init ==
    /\ panel \in {"values", "people"} /\ missed = FALSE
    /\ asked = 1 /\ calls = IF panel = "people" THEN {load} ELSE {}
    /\ scope = 1 /\ ready = FALSE /\ shown = <<>> /\ pending = {} /\ drafts = [g \in Groups |-> 0] /\ drag = 0
    /\ vals = [i \in 1 .. 3 |-> [id |-> i, home |-> IF i = 3 THEN 2 ELSE 1, name |-> 10 + i, order |-> IF i = 1 THEN 1 ELSE 0,
                                 mark |-> 0, phase |-> 1, excl |-> 0]]
    /\ ppl = <<Person("user"), Person("contact")>> /\ acc = Me :> Roles /\ spare = {Me} /\ disp = 1 /\ born = 2
    /\ persons = <<>> /\ accounts = <<>> /\ modal = NoModal /\ addresses = 0 /\ greeting = 1
Next ==
    \/ loadSchema \/ switchScope \/ resetDrag \/ applyTier \/ openCreateDialog \/ dismissModal \/ discard \/ keep
    \/ create \/ merge \/ removePerson \/ removeAddress
    \/ \E g \in Groups : \/ \E on \in {0, 1} : setGroupExclusive(g, on)
                          \/ \E slot \in 0 .. Len(shown) : moveValueToSlot(g, slot)
                          \/ newGroup(g) \/ \E l \in Leaves : typeDraft(g, l)
                          \/ \E p \in {1, 2} : addValue(g, p)
    \/ \E i \in DOMAIN shown : \/ \E v \in {0, 1} : setValuePhase(i, v + 1) \/ setValueColor(i, v)
                                \/ \E g \in Groups, l \in Leaves : renameValue(i, 10 * g + l)
                                \/ startDrag(i) \/ removeValue(i)
    \/ \E p \in 1 .. MaxPeople : \/ \E v \in {0, 1} : commitName(p, v + 1) \/ commitActive(p, v) \/ commitEmail(p, v)
                                  \/ \E r \in Roles : assignRole(p, r) \/ revokeRole(p, r)
                                  \/ \E t \in Tiers : changeTier(p, t) \/ openDemoteDialog(p, t)
                                  \/ openRemoveDialog(p) \/ openMergeDialog(p) \/ openAddressesDialog(p) \/ pickSurvivor(p)
    \/ \E t \in Tiers : fill(t)
    \/ \E c \in calls : \/ landValues(c) \/ landSet(c) \/ landPeople(c) \/ landChange(c) \/ landAddresses(c)
                         \/ ServerRunsValues(c) \/ ServerRunsPeople(c) \/ Refused(c)
Spec == Init /\ [][Next]_vars

-----------------------------------------------------------------------------
TypeOK ==
    /\ scope \in {1, 2} /\ pending \subseteq Groups /\ drafts \in [Groups -> {0} \cup Leaves]
    /\ DOMAIN persons \subseteq 1 .. MaxPeople /\ \A p \in DOMAIN accounts : accounts[p] \subseteq Roles

(* With nothing on its way, no read failed and no refused write still shown, the *)
(* managers list what the server has, in its order, and a dragged order is the   *)
(* one every other screen reads.                                           *)
DirectoryTrue ==
    calls = {} /\ ~missed =>
        /\ panel = "values" /\ ready => shown = ListOf(scope)
        /\ panel = "people" => persons = ppl /\ accounts = acc /\ greeting = disp
        /\ modal.kind = "addresses" => addresses = IF modal.who \in spare THEN 2 ELSE 1

(* A filled dialog for a new person closes for its person, or by the user        *)
(* (people-manager.ts:860).                                                *)
DialogKeptStep ==
    modal.kind = "create" /\ modal.filled /\ modal'.kind # "create" => modal.asking \/ born > modal.at
DialogKept == [][DialogKeptStep]_vars
=============================================================================

------------------------------- MODULE Feeds -------------------------------
(***************************************************************************)
(* Three screens that page through what the server lists: a project's activity  *)
(* (activity/activity.ts, activity/activity-model.ts), its mail log            *)
(* (mailin/comm-log.ts) and an account's watch lists (watch/watch-lists.ts).    *)
(* They share nothing but the project, so each behaviour follows one (panel).  *)
(***************************************************************************)
EXTENDS Integers, SequencesExt

CONSTANTS
    Row,        \* the activity by id: [project, who, kind, card, nav, day, at, old, new], the tags before and after in old and new
    Old,        \* how much of it there is at first
    Gap,        \* the time that ends a group
    Limit,      \* rows per page
    MaxCalls,   \* bound: reads and writes sent
    Patient     \* whether the user waits for what is on its way

Projects == {1, 2}
Picked == {"tags"}      \* bound: the kinds the user picks from, and no filter is set without a project

VARIABLES
    panel, scope,       \* the project, 0 for none
    calls, asked, seq,  \* seq: the read whose answer counts
    missed,             \* whether the last read from the top failed
    filter,             \* the activity's [from, people, exclude, kinds, q]
    typed,              \* the search box; it is applied when its timer fires
    rows, facets, hasMore, loading, top,  \* top: the newest row when the first page was read
    newest,             \* the server's newest activity
    logFilter, url, logShown, loaded, failed,   \* the log's filter, the address, the query of the rows shown
    channels, routes,   \* whose accounts and whose routes are offered
    lists, selected, items, itemsLoaded, confirm, \* watch lists: [id, title, count], and [card, order]
    wlists, made        \* the server's: id -> [title, on]; lists ever made

vars == <<panel, scope, calls, asked, seq, missed, filter, typed, rows, facets, hasMore, loading, top, newest, logFilter,
          url, logShown, loaded, failed, channels, routes, lists, selected, items, itemsLoaded, confirm, wlists, made>>
feedVars == <<filter, typed, rows, facets, hasMore, loading, top>>
logVars == <<logFilter, url, logShown, loaded, failed, channels, routes>>
watchVars == <<lists, selected, items, itemsLoaded, confirm>>
serverVars == <<newest, wlists, made>>

Free == Patient => calls = {}
Call == [n |-> 0, kind |-> "", state |-> "sent", arg |-> 0, from |-> [p |-> 0], before |-> 0, facets |-> FALSE, got |-> <<>>, top |-> 0]
Send(after, c) == asked < MaxCalls /\ asked' = asked + 1 /\ calls' = after \cup {c @@ [Call EXCEPT !.n = asked']}
Answered(c, kind) == c \in calls /\ c.kind = kind /\ c.state # "sent"
Ok(c) == c.state = "done"

-----------------------------------------------------------------------------
(* activity.ts.  A window starts at a day; the filters narrow what is in it.    *)
NoFilter == [from |-> 2, people |-> {}, exclude |-> FALSE, kinds |-> {}, q |-> 0]
Passes(i, p, f) ==
    /\ Row[i].project = p /\ Row[i].day >= f.from
    /\ f.people = {} \/ (IF f.exclude THEN Row[i].who \notin f.people ELSE Row[i].who \in f.people)
    /\ f.kinds = {} \/ Row[i].kind \in f.kinds
    /\ f.q = 0 \/ Row[i].nav = f.q
Matching(p, f, below, upto) == {i \in 1 .. upto : i < below /\ Passes(i, p, f)}
Descending(S) == SetToSortSeq(S, >)
sortActivityDesc(s) == SortSeq(s, LAMBDA i, j : Row[i].at > Row[j].at \/ (Row[i].at = Row[j].at /\ i > j))

load(append) ==
    IF scope' = 0
    THEN /\ rows' = <<>> /\ facets' = <<>> /\ loading' = FALSE /\ hasMore' = FALSE /\ missed' = FALSE
         /\ seq' = asked /\ UNCHANGED <<calls, asked, top>>
    ELSE /\ Send(calls, [kind |-> "activity", arg |-> scope', from |-> filter',
                         before |-> IF append THEN rows[Len(rows)] ELSE Len(Row) + 1,
                         facets |-> ~append /\ facets # <<scope', filter'.from>>])
         /\ seq' = asked' /\ loading' = TRUE /\ UNCHANGED <<rows, facets, hasMore, top, missed>>
reload(f) ==
    /\ panel = "activity" /\ Free /\ filter' = f /\ load(FALSE)
    /\ UNCHANGED <<panel, typed, logVars, watchVars, serverVars>>
loadOlder ==
    /\ panel = "activity" /\ Free /\ hasMore /\ rows # <<>> /\ (Patient => ~missed) /\ UNCHANGED <<scope, filter>> /\ load(TRUE)
    /\ UNCHANGED <<panel, typed, logVars, watchVars, serverVars>>

applyRange(d) == scope # 0 /\ d # filter.from /\ UNCHANGED scope /\ reload([filter EXCEPT !.from = d])
toggleActor(a) == scope # 0 /\ UNCHANGED scope /\ reload([filter EXCEPT !.people = SymDiff(@, {a})])
setExclude(on) ==
    /\ panel = "activity" /\ scope # 0 /\ on # filter.exclude /\ filter' = [filter EXCEPT !.exclude = on] /\ UNCHANGED scope
    /\ IF filter.people # {} THEN reload(filter')
       ELSE Free /\ UNCHANGED <<panel, calls, asked, seq, missed, typed, rows, facets, hasMore, loading, top, logVars, watchVars, serverVars>>
toggleKind(k) == scope # 0 /\ UNCHANGED scope /\ reload([filter EXCEPT !.kinds = SymDiff(@, {k})])
typeSearch(q) ==
    /\ panel = "activity" /\ scope # 0 /\ typed = filter.q /\ q # typed /\ typed' = q
    /\ UNCHANGED <<panel, scope, calls, asked, seq, missed, filter, rows, facets, hasMore, loading, top, logVars, watchVars, serverVars>>
searchTimer == scope # 0 /\ typed # filter.q /\ UNCHANGED scope /\ reload([filter EXCEPT !.q = typed])
clearFilters ==
    /\ panel = "activity" /\ scope # 0 /\ Free /\ filter # NoFilter /\ filter' = NoFilter /\ typed' = 0 /\ UNCHANGED scope /\ load(FALSE)
    /\ UNCHANGED <<panel, logVars, watchVars, serverVars>>
landActivity(c) ==
    LET page == sortActivityDesc(c.got) IN
    /\ Answered(c, "activity") /\ calls' = calls \ {c}
    /\ IF c.n # seq THEN UNCHANGED <<rows, facets, hasMore, loading, top, missed>>
       ELSE /\ loading' = FALSE
            /\ IF Ok(c)
               THEN /\ rows' = IF c.before <= Len(Row) THEN rows \o page ELSE page
                    /\ hasMore' = (Len(page) >= Limit)
                    /\ facets' = IF c.facets THEN <<c.arg, c.from.from>> ELSE facets
                    /\ top' = IF c.before <= Len(Row) THEN top ELSE c.top
                    /\ missed' = (missed /\ c.before <= Len(Row))
               ELSE UNCHANGED <<rows, facets, hasMore, top>> /\ missed' = (missed \/ c.before > Len(Row))
    /\ UNCHANGED <<panel, scope, asked, seq, filter, typed, logVars, watchVars, serverVars>>

(* activity-model.ts: a feed is cut where the day or the item changes and where   *)
(* too much time passed; the tag changes of a group's card are one line with     *)
(* what was added and what was removed in the end.                           *)
StartsGroup(i) ==
    LET r == Row[rows[i]]  prev == Row[rows[i - 1]] IN
    i = 1 \/ r.day # prev.day \/ r.nav # prev.nav \/ prev.at - r.at > Gap
buildFeed == {g \in (1 .. Len(rows)) \X (1 .. Len(rows)) :
    /\ g[1] <= g[2] /\ StartsGroup(g[1]) /\ (g[2] = Len(rows) \/ StartsGroup(g[2] + 1))
    /\ \A i \in g[1] + 1 .. g[2] : ~StartsGroup(i)}
Oldest(g, card) == SelectSeq(Reverse(SubSeq(rows, g[1], g[2])), LAMBDA i : Row[i].kind = "tags" /\ Row[i].card = card)
tagDiff(i) == [added |-> Row[i].new \ Row[i].old, removed |-> Row[i].old \ Row[i].new]
buildLines(g, card) ==
    FoldSeq(LAMBDA i, t : LET d == tagDiff(i) IN
                [added |-> (t.added \cup (d.added \ t.removed)) \ d.removed,
                 removed |-> (t.removed \ d.added) \cup (d.removed \ t.added)],
            [added |-> {}, removed |-> {}], Reverse(Oldest(g, card)))

-----------------------------------------------------------------------------
(* comm-log.ts                                                             *)
NoQuery == [project |-> 0, channel |-> 0, route |-> 0, kind |-> 0]
Home(ch) == ch                  \* each project has an account of its own number
queryOf(f) == [project |-> scope', channel |-> f.channel, route |-> f.route, kind |-> f.kind]
loadLog(extra) ==
    /\ Cardinality(extra) + asked < MaxCalls /\ asked' = asked + Cardinality(extra) + 1 /\ seq' = asked'
    /\ calls' = calls \cup {c @@ Call : c \in extra} \cup {[Call EXCEPT !.n = asked', !.kind = "log", !.from = queryOf(logFilter')]}
    /\ loaded' = FALSE /\ failed' = FALSE
Reads(ch) == {[kind |-> "routes", n |-> asked + 1, arg |-> ch] : x \in {ch} \ {0}}
setFilter(f) ==
    /\ panel = "log" /\ Free /\ scope # 0 /\ f # logFilter
    /\ logFilter' = IF f.channel # logFilter.channel THEN [f EXCEPT !.route = 0] ELSE f
    /\ routes' = IF f.channel # logFilter.channel THEN 0 ELSE routes
    /\ UNCHANGED scope /\ url' = logFilter'
    /\ loadLog(IF f.channel # logFilter.channel THEN Reads(f.channel) ELSE {})
    /\ UNCHANGED <<panel, missed, feedVars, logShown, channels, watchVars, serverVars>>
pickAccount(ch) == ch \in {0, logFilter.channel} \cup (IF channels = 0 THEN {} ELSE {channels}) /\ setFilter([logFilter EXCEPT !.channel = ch])
pickRoute(r) == r \in {0, routes} /\ logFilter.channel # 0 /\ setFilter([logFilter EXCEPT !.route = r])
pickKind(k) == setFilter([logFilter EXCEPT !.kind = k])
landLog(c) ==
    /\ Answered(c, "log") /\ calls' = calls \ {c}
    /\ IF c.n # seq THEN UNCHANGED <<logShown, loaded, failed>>
       ELSE loaded' = TRUE /\ failed' = ~Ok(c) /\ logShown' = IF Ok(c) THEN c.from ELSE logShown
    /\ UNCHANGED <<panel, scope, asked, seq, missed, feedVars, logFilter, url, channels, routes, watchVars, serverVars>>
landChannels(c) ==
    /\ Answered(c, "channels") /\ calls' = calls \ {c} /\ channels' = IF Ok(c) THEN c.arg ELSE channels
    /\ UNCHANGED <<panel, scope, asked, seq, missed, feedVars, logFilter, url, logShown, loaded, failed, routes, watchVars, serverVars>>
landRoutes(c) ==
    /\ Answered(c, "routes") /\ calls' = calls \ {c} /\ routes' = IF Ok(c) /\ c.arg = logFilter.channel THEN c.arg ELSE routes
    /\ UNCHANGED <<panel, scope, asked, seq, missed, feedVars, logFilter, url, logShown, loaded, failed, channels, watchVars, serverVars>>

(* The project changes under the activity or the log.                        *)
scopeActivity(p) ==
    /\ p # scope /\ scope' = p /\ reload(filter)
scopeLog(p) ==
    /\ panel = "log" /\ Free /\ p \notin {0, scope} /\ scope' = p
    /\ logFilter' = IF scope = 0 THEN logFilter ELSE [logFilter EXCEPT !.channel = 0, !.route = 0]
    /\ url' = logFilter' /\ channels' = 0 /\ routes' = 0
    /\ loadLog({[kind |-> "channels", n |-> asked + 2, arg |-> p]} \cup Reads(logFilter'.channel))
    /\ UNCHANGED <<panel, missed, feedVars, logShown, watchVars, serverVars>>

-----------------------------------------------------------------------------
(* watch-lists.ts                                                          *)
OnList(l) == LET on == wlists[l].on IN
    [i \in 1 .. Cardinality(DOMAIN on) |-> LET s == SetToSortSeq(DOMAIN on, LAMBDA c, d : on[c] < on[d]) IN [card |-> s[i], order |-> on[s[i]]]]
Listed == LET s == SetToSortSeq(DOMAIN wlists, <) IN
    [i \in DOMAIN s |-> [id |-> s[i], title |-> wlists[s[i]].title, count |-> Cardinality(DOMAIN wlists[s[i]].on)]]
Ids(ls) == {ls[i].id : i \in DOMAIN ls}
others(s, card) == SelectSeq(s, LAMBDA x : x.card # card)

loadItems(after) ==
    /\ itemsLoaded' = FALSE /\ items' = <<>>
    /\ IF selected' = 0 THEN seq' = asked /\ calls' = after /\ UNCHANGED asked
       ELSE Send(after, [kind |-> "items", arg |-> selected']) /\ seq' = asked'
Write(c) ==
    /\ panel = "watch" /\ Free /\ Send(calls, c)
    /\ UNCHANGED <<panel, scope, seq, missed, feedVars, logVars, selected, itemsLoaded, confirm, serverVars>>
select(l) ==
    /\ panel = "watch" /\ Free /\ l \in Ids(lists) \ {selected} /\ selected' = l /\ confirm' = FALSE
    /\ loadItems(calls)
    /\ UNCHANGED <<panel, scope, missed, feedVars, logVars, lists, serverVars>>
createList == UNCHANGED <<lists, items>> /\ Write([kind |-> "create"])
saveList(t) == selected # 0 /\ UNCHANGED <<lists, items>> /\ Write([kind |-> "save", arg |-> selected, before |-> t])
askDelete ==
    /\ panel = "watch" /\ Free /\ selected # 0 /\ confirm' = ~confirm
    /\ UNCHANGED <<panel, scope, calls, asked, seq, missed, feedVars, logVars, lists, selected, items, itemsLoaded, serverVars>>
deleteList == confirm /\ UNCHANGED <<lists, items>> /\ Write([kind |-> "delete", arg |-> selected])
moveTo(card, slot) ==
    LET rest == others(items, card)
        from == CHOOSE i \in DOMAIN items : items[i].card = card
        order == IF slot = 0 THEN rest[1].order - 8 ELSE IF slot = Len(rest) THEN rest[slot].order + 8
                 ELSE (rest[slot].order + rest[slot + 1].order) \div 2
    IN /\ itemsLoaded /\ slot \in 0 .. Len(rest) /\ slot # from - 1
       /\ items' = SubSeq(rest, 1, slot) \o <<[card |-> card, order |-> order]>> \o SubSeq(rest, slot + 1, Len(rest))
       /\ UNCHANGED lists /\ Write([kind |-> "move", arg |-> selected, from |-> [p |-> card], before |-> order])
removeItem(card) ==
    /\ itemsLoaded /\ items' = others(items, card)
    /\ lists' = [i \in DOMAIN lists |-> IF lists[i].id = selected THEN [lists[i] EXCEPT !.count = @ - 1] ELSE lists[i]]
    /\ Write([kind |-> "remove", arg |-> selected, from |-> [p |-> card]])

landLists(c) ==
    /\ Answered(c, "lists") /\ missed' = ~Ok(c)
    /\ IF Ok(c)
       THEN /\ lists' = c.got
            /\ selected' = IF selected \in Ids(c.got) THEN selected ELSE IF c.got = <<>> THEN 0 ELSE c.got[1].id
            /\ loadItems(calls \ {c})
       ELSE calls' = calls \ {c} /\ UNCHANGED <<lists, selected, items, itemsLoaded, asked, seq>>
    /\ UNCHANGED <<panel, scope, feedVars, logVars, confirm, serverVars>>
landItems(c) ==
    /\ Answered(c, "items") /\ calls' = calls \ {c}
    /\ IF Ok(c) /\ c.n = seq THEN items' = c.got /\ itemsLoaded' = TRUE ELSE UNCHANGED <<items, itemsLoaded>>
    /\ UNCHANGED <<panel, scope, asked, seq, missed, feedVars, logVars, lists, selected, confirm, serverVars>>
(* What the answer to a write reads again: a new, saved or deleted list on       *)
(* success, a removal on a refusal, and a refused move only the items.         *)
landWrite(c) ==
    LET then == CASE c.kind \in {"create", "save", "delete"} /\ Ok(c) -> "lists" [] c.kind = "remove" /\ ~Ok(c) -> "lists"
                  [] c.kind = "move" /\ ~Ok(c) -> "items" [] OTHER -> "none"
    IN /\ \E k \in {"create", "save", "delete", "move", "remove"} : Answered(c, k)
       /\ selected' = CASE c.kind = "create" /\ Ok(c) -> c.arg [] c.kind = "delete" /\ Ok(c) -> 0 [] OTHER -> selected
       /\ confirm' = (confirm /\ ~(c.kind = "delete" /\ Ok(c)))
       /\ CASE then = "lists" -> Send(calls \ {c}, [kind |-> "lists"]) /\ UNCHANGED <<seq, items, itemsLoaded>>
            [] then = "items" -> loadItems(calls \ {c})
            [] OTHER -> calls' = calls \ {c} /\ UNCHANGED <<asked, seq, items, itemsLoaded>>
       /\ UNCHANGED <<panel, scope, missed, feedVars, logVars, lists, serverVars>>

-----------------------------------------------------------------------------
(* activity.select (by id, newest first), comm_log.list, watch_list.*, watch.*   *)
Page(c) == LET s == Descending(Matching(c.arg, c.from, c.before, newest)) IN SubSeq(s, 1, IF Len(s) < Limit THEN Len(s) ELSE Limit)
ServerRuns(c) ==
    /\ c \in calls /\ c.state = "sent"
    /\ c.kind \in {"save", "delete", "move", "remove", "items"} => c.arg \in DOMAIN wlists
    /\ c.kind = "move" => c.from.p \in DOMAIN wlists[c.arg].on
    /\ calls' = (calls \ {c}) \cup {[c EXCEPT !.state = "done", !.top = newest, !.arg = IF c.kind = "create" THEN made + 1 ELSE @,
                    !.got = CASE c.kind = "activity" -> Page(c) [] c.kind = "lists" -> Listed [] c.kind = "items" -> OnList(c.arg) [] OTHER -> <<>>]}
    /\ made' = IF c.kind = "create" THEN made + 1 ELSE made
    /\ wlists' = CASE c.kind = "create" -> wlists @@ (made + 1 :> [title |-> 1, on |-> [x \in {} |-> 0]])
                   [] c.kind = "save" -> [wlists EXCEPT ![c.arg].title = c.before]
                   [] c.kind = "delete" -> [l \in DOMAIN wlists \ {c.arg} |-> wlists[l]]
                   [] c.kind = "move" -> [wlists EXCEPT ![c.arg].on[c.from.p] = c.before]
                   [] c.kind = "remove" -> [wlists EXCEPT ![c.arg].on = [x \in DOMAIN @ \ {c.from.p} |-> @[x]]]
                   [] OTHER -> wlists
    /\ UNCHANGED <<panel, scope, asked, seq, missed, feedVars, logVars, watchVars, newest>>
Refused(c) ==
    /\ c \in calls /\ c.state = "sent" /\ calls' = (calls \ {c}) \cup {[c EXCEPT !.state = "refused"]}
    /\ UNCHANGED <<panel, scope, asked, seq, missed, feedVars, logVars, watchVars, serverVars>>
NewActivity ==
    /\ panel = "activity" /\ newest < Len(Row) /\ newest' = newest + 1
    /\ UNCHANGED <<panel, scope, calls, asked, seq, missed, feedVars, logVars, watchVars, wlists, made>>

Init ==
    /\ panel \in {"activity", "log", "watch"} /\ scope = 0
    /\ asked = 0 /\ calls = IF panel = "watch" THEN {[Call EXCEPT !.kind = "lists"]} ELSE {}
    /\ seq = asked /\ missed = FALSE /\ filter = NoFilter /\ typed = 0
    /\ rows = <<>> /\ facets = <<>> /\ hasMore = FALSE /\ loading = FALSE /\ top = 0 /\ newest = Old
    /\ logFilter \in {[channel |-> ch, route |-> 0, kind |-> 0] : ch \in IF panel = "log" THEN {0, 1} ELSE {0}}
    /\ url = logFilter /\ logShown = NoQuery /\ loaded = FALSE /\ failed = FALSE /\ channels = 0 /\ routes = 0
    /\ lists = <<>> /\ selected = 0 /\ items = <<>> /\ itemsLoaded = FALSE /\ confirm = FALSE
    /\ wlists = <<[title |-> 1, on |-> <<0, 8, 16>>], [title |-> 1, on |-> [x \in {4} |-> 0]]>> /\ made = 2
Next ==
    \/ loadOlder \/ searchTimer \/ clearFilters \/ NewActivity \/ createList \/ askDelete \/ deleteList
    \/ \E d \in 0 .. 2 : scopeActivity(d) \/ scopeLog(d) \/ pickAccount(d) \/ pickRoute(d)
    \/ \E d \in {0, 2} : applyRange(d) \/ typeSearch(d)
    \/ \E a \in {1, 2} : saveList(a) \/ pickKind(a - 1)
    \/ toggleActor(1)
    \/ \E on \in BOOLEAN : setExclude(on)
    \/ \E k \in Picked : toggleKind(k)
    \/ \E l \in Ids(lists) : select(l)
    \/ \E i \in DOMAIN items : removeItem(items[i].card) \/ \E slot \in 0 .. Len(items) : moveTo(items[i].card, slot)
    \/ \E c \in calls : \/ landActivity(c) \/ landLog(c) \/ landChannels(c) \/ landRoutes(c) \/ landLists(c) \/ landItems(c)
                         \/ landWrite(c) \/ ServerRuns(c) \/ Refused(c)
Spec == Init /\ [][Next]_vars

-----------------------------------------------------------------------------
TypeOK ==
    /\ scope \in {0} \cup Projects /\ Range(rows) \subseteq 1 .. Len(Row) /\ filter.people \subseteq {1, 2}
    /\ channels \in {0} \cup Projects /\ selected \in 0 .. made /\ {loading, hasMore, loaded, failed, itemsLoaded, confirm} \subseteq BOOLEAN

(* The feed holds, once each and newest first, every match from the newest there *)
(* was down to its last row, and all there are when none is offered; a group's   *)
(* tag line is what changed between its ends (activity.ts:676, activity-model.ts). *)
FeedWhole ==
    panel = "activity" /\ scope # 0 /\ ~loading /\ ~missed =>
        /\ IsInjective(rows) /\ \A i \in 2 .. Len(rows) : Row[rows[i]].at <= Row[rows[i - 1]].at
        /\ Range(rows) = {i \in Matching(scope, filter, Len(Row) + 1, top) : hasMore => \E j \in DOMAIN rows : rows[j] <= i}
        /\ facets = <<scope, filter.from>>
        /\ filter.people = {} /\ filter.kinds = {} =>
             \A g \in buildFeed : \A card \in {Row[rows[i]].card : i \in g[1] .. g[2]} :
                LET s == Oldest(g, card)  t == buildLines(g, card) IN
                s # <<>> => /\ t.added = Row[Last(s)].new \ Row[s[1]].old
                            /\ t.removed = Row[s[1]].old \ Row[Last(s)].new

(* The log lists what its filters and its address ask of its project, and offers *)
(* that project's accounts and the chosen one's routes (comm-log.ts:242, :263). *)
LogTrue ==
    /\ panel = "log" /\ loaded /\ ~failed => logShown = [project |-> scope, channel |-> logFilter.channel, route |-> logFilter.route, kind |-> logFilter.kind]
    /\ url = logFilter /\ channels \in {0, scope} /\ routes \in {0, logFilter.channel}

(* With nothing on its way the lists, their counts and the picked list's order    *)
(* are the server's (watch-lists.ts:486, :510).                             *)
WatchTrue ==
    panel = "watch" /\ calls = {} /\ ~missed =>
        /\ lists = Listed /\ (lists # <<>> => selected \in Ids(lists))
        /\ itemsLoaded => items = OnList(selected)
=============================================================================

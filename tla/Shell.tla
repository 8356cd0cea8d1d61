------------------------------- MODULE Shell -------------------------------
(***************************************************************************)
(* The application shell (shell/app-shell.ts), its router (shell/router.ts)  *)
(* and the host of a project's screens (shell/screen-host.ts): the route, the *)
(* body in the outlet, the project in scope, the rail's links.              *)
(***************************************************************************)
EXTENDS Integers, Sequences, FiniteSets

CONSTANTS
    Projects,   \* positive; the least is the configured default
    Slugs,
    Screens,    \* project -> its screens' slugs in sort order
    Tasks,      \* task -> its project
    Mine,       \* ids of personal screens
    Users,      \* who may turn out to be signed in: "member", "admin"
    None,
    MaxMoves,   \* bound: navigations
    MaxOpen,    \* bound: answers outstanding when the user or the server moves
    MaxChanges  \* bound: changes of the areas

VARIABLES
    entries, pos,        \* the history and the entry it is at; its route is the router's
    body,                \* the outlet's control: number, the route it was built for, what it shows
    scope,               \* scope.projectId
    own,                 \* the shell's own copy, scope.projectId of AppShell
    rows, areas, linksOf, \* the two halves of the rail's links, None until landed, and the links shown
    user,                \* auth.user: None until loaded
    calls, linkSeq,      \* answers to come; scopeLoadSeq
    moves, changes,      \* the bounds' counters
    off                  \* the server's areas that are switched off

vars == <<entries, pos, body, scope, own, rows, areas, linksOf, user, calls,
          linkSeq, moves, changes, off>>
routeVars == <<entries, pos>>
linkVars == <<rows, areas, linksOf>>
bounds == <<moves, changes>>

Route(name, id, slug) == [name |-> name, id |-> id, slug |-> slug]
projects == Route("projects", 0, None)
screenUrl(p, s) == Route("screen", p, s)
Routes == {projects, Route("admin", 0, None)} \cup {Route("project", p, None) : p \in Projects}
          \cup {screenUrl(p, s) : p \in Projects, s \in Slugs}
          \cup {Route("task", t, None) : t \in DOMAIN Tasks} \cup {Route("my_screen", m, None) : m \in Mine}
route == entries[pos]

(* outletKey: the route's name and the parameters that choose its control.   *)
outletKey(r) == IF r.name = "my_screen" THEN Route(r.name, 0, None) ELSE r

(* routeGuard: only a loaded user who is no admin is turned away.            *)
routeGuard(r) == IF r.name = "admin" /\ user = "member" THEN projects ELSE r

(* An answer about the areas tells them as they were when it was asked for.  *)
Call(kind, no, arg) == [kind |-> kind, no |-> no, arg |-> arg, read |-> {}]
BothHalves(p, seq, o) == {Call("rows", seq, p), [Call("areas", seq, p) EXCEPT !.read = o]}
OfBody(kind) == Call(kind, body'.no, body'.of)

-----------------------------------------------------------------------------
(* Whether an answer is for the links of the scope as it is; a mutant takes  *)
(* any.                                                                    *)
CurrentAny(c) == c \in calls
Current(c) == c.no = linkSeq

(* A scope's links: both halves are read, and every earlier answer is void.  *)
Links(p, cs, o, changed) ==
    IF ~changed THEN calls' = cs /\ UNCHANGED <<linkVars, linkSeq>>
    ELSE /\ linkSeq' = linkSeq + 1
         /\ rows' = None /\ areas' = None /\ UNCHANGED linksOf
         /\ calls' = cs \cup BothHalves(p, linkSeq + 1, o)

(* renderRoute: the scope of a project's route, the body and its first read. *)
firstRead(r) ==
    CASE r.name = "project" -> {"default"}
      [] r.name = "screen" -> {"resolve"}
      [] r.name = "task" -> {"task"}
      [] OTHER -> {}
renderRoute(r) ==
    IF outletKey(r) = outletKey(body.of) THEN UNCHANGED <<body, scope, own, linkVars, linkSeq, calls>>
    ELSE /\ body' = [no |-> body.no + 1, of |-> r,
                     view |-> IF firstRead(r) = {} THEN "ready" ELSE "loading"]
         /\ IF r.name \in {"project", "screen"} THEN own' = r.id /\ scope' = r.id
            ELSE UNCHANGED <<own, scope>>
         /\ Links(scope', calls \cup {OfBody(k) : k \in firstRead(r)}, off, scope' # scope)

Calm == Cardinality(calls) <= MaxOpen

(* navigate, landRoute: the same place is left alone; a refused route is      *)
(* replaced by the project list.                                           *)
Push(r) == entries' = Append(SubSeq(entries, 1, pos), routeGuard(r)) /\ pos' = pos + 1
Replace(r) == entries' = [entries EXCEPT ![pos] = routeGuard(r)] /\ UNCHANGED pos
navigate(r) ==
    /\ r # route /\ moves < MaxMoves /\ Calm
    /\ moves' = moves + 1
    /\ Push(r)
    /\ renderRoute(routeGuard(r))
    /\ UNCHANGED <<user, changes, off>>

onPopState(step) ==
    /\ pos + step \in 1 .. Len(entries) /\ moves < MaxMoves /\ Calm
    /\ moves' = moves + 1
    /\ pos' = pos + step
    /\ entries' = [entries EXCEPT ![pos + step] = routeGuard(@)]
    /\ renderRoute(routeGuard(entries[pos + step]))
    /\ UNCHANGED <<user, changes, off>>

(* The scope picker keeps the screen's slug.                               *)
pickProject(p) ==
    navigate(IF route.name = "screen" THEN screenUrl(p, route.slug) ELSE Route("project", p, None))

(* A rail link, and the hotkey of one.                                     *)
goScreenSlug(s) ==
    /\ linksOf # None /\ s \in linksOf.slugs /\ scope # None
    /\ navigate(screenUrl(scope, s))

loadAuthUser(kind) ==
    /\ user = None
    /\ user' = kind
    /\ UNCHANGED <<routeVars, body, scope, own, linkVars, calls, linkSeq, bounds, off>>

-----------------------------------------------------------------------------
(* The areas as the server has them, and the nonce that has the rail read     *)
(* again.                                                                  *)
navRefresh(a) ==
    /\ changes < MaxChanges /\ a # off /\ Calm
    /\ off' = a /\ changes' = changes + 1
    /\ Links(scope, calls, a, scope # None)
    /\ UNCHANGED <<routeVars, body, scope, own, user, moves>>

(* paintScopeLinks: both halves, or nothing; scopeLinkGroups leaves out the  *)
(* screens of an area that is off, and claims none when the areas failed.    *)
paintScopeLinks(r, a) ==
    IF r = None \/ a = None THEN UNCHANGED linksOf
    ELSE linksOf' = [of |-> r, slugs |-> {Screens[r][i] : i \in DOMAIN Screens[r]} \ a]

landRows(c) ==
    /\ c.kind = "rows"
    /\ calls' = calls \ {c}
    /\ IF ~Current(c) THEN UNCHANGED linkVars
       ELSE rows' = c.arg /\ UNCHANGED areas /\ paintScopeLinks(c.arg, areas)
    /\ UNCHANGED <<routeVars, body, scope, own, user, linkSeq, bounds, off>>

landAreas(c, failed) ==
    /\ c.kind = "areas"
    /\ calls' = calls \ {c}
    /\ LET a == IF failed THEN {} ELSE c.read IN
       IF ~Current(c) THEN UNCHANGED linkVars
       ELSE areas' = a /\ UNCHANGED rows /\ paintScopeLinks(rows, a)
    /\ UNCHANGED <<routeVars, body, scope, own, user, linkSeq, bounds, off>>

(* The project list lands once: the default is taken by a shell that has no   *)
(* project of its own.                                                     *)
landProjects(c) ==
    /\ c.kind = "projects"
    /\ \E p \in Projects :  \* the persisted one, or the default
       IF own # None THEN UNCHANGED <<own, scope, linkVars, linkSeq>> /\ calls' = calls \ {c}
       ELSE own' = p /\ scope' = p /\ Links(p, calls \ {c}, off, p # scope)
    /\ UNCHANGED <<routeVars, body, user, bounds, off>>

-----------------------------------------------------------------------------
(* Answers to the body's reads: only a body that is still there takes them.  *)
Dropped(c) ==
    /\ c.kind \in {"default", "resolve", "task"} /\ c.no # body.no
    /\ calls' = calls \ {c}
    /\ UNCHANGED <<routeVars, body, scope, own, linkVars, user, linkSeq, bounds, off>>
Live(c) == c.no = body.no

(* onScreenResolved: the screen's own layout, or the project's default.      *)
onScreenResolved(c) ==
    /\ c.kind = "resolve" /\ Live(c)
    /\ IF c.arg.slug \in {Screens[c.arg.id][i] : i \in DOMAIN Screens[c.arg.id]}
       THEN body' = [body EXCEPT !.view = "ready"] /\ calls' = calls \ {c}
       ELSE UNCHANGED body /\ calls' = (calls \ {c}) \cup {[c EXCEPT !.kind = "default"]}
    /\ UNCHANGED <<routeVars, scope, own, linkVars, user, linkSeq, bounds, off>>

(* resolveDefaultScreen: the first screen takes the place in the history.    *)
landDefaultScreen(c) ==
    /\ c.kind = "default" /\ Live(c)
    /\ IF Screens[c.arg.id] = <<>>
       THEN body' = [body EXCEPT !.view = "unknown"] /\ UNCHANGED <<routeVars, linkSeq>> /\ calls' = calls \ {c}
       ELSE LET r == screenUrl(c.arg.id, Head(Screens[c.arg.id])) IN
            /\ Replace(r)
            /\ body' = [no |-> body.no + 1, of |-> r, view |-> "loading"]
            /\ UNCHANGED linkSeq
            /\ calls' = (calls \ {c}) \cup {OfBody("resolve")}
    /\ UNCHANGED <<scope, own, linkVars, user, bounds, off>>

(* The task's page puts its project in scope when it can show the task.      *)
publishProjectScope(c) ==
    /\ c.kind = "task" /\ Live(c)
    /\ (\A d \in calls : d.kind # "projects")   \* of an earlier batch
    /\ body' = [body EXCEPT !.view = "ready"]
    /\ scope' = Tasks[c.arg.id]
    /\ Links(scope', calls \ {c}, off, scope' # scope)
    /\ UNCHANGED <<routeVars, own, user, bounds, off>>

-----------------------------------------------------------------------------
(* A page opened at any route: the body's read goes out with the list's.     *)
Init ==
    \E r \in {projects, Route("admin", 0, None)} \cup {q \in Routes : q.name \in {"project", "task"}} :
    /\ entries = <<r>> /\ pos = 1
    /\ body = [no |-> 1, of |-> r, view |-> IF firstRead(r) = {} THEN "ready" ELSE "loading"]
    /\ scope = IF r.name = "project" THEN r.id ELSE None
    /\ own = scope
    /\ rows = None /\ areas = None /\ linksOf = None
    /\ user = None /\ off = {}
    /\ linkSeq = 1
    /\ calls = {Call(k, 1, r) : k \in firstRead(r)} \cup {Call("projects", 0, None)}
               \cup IF scope = None THEN {} ELSE BothHalves(scope, 1, {})
    /\ moves = 0 /\ changes = 0

Lands ==
    \E c \in calls :
    \/ landRows(c) \/ (\E f \in BOOLEAN : landAreas(c, f)) \/ landProjects(c) \/ Dropped(c) \/ onScreenResolved(c) \/ landDefaultScreen(c)
    \/ publishProjectScope(c)
Next ==
    \/ Lands
    \/ \E r \in Routes : navigate(r)
    \/ \E d \in {-1, 1} : onPopState(d)
    \/ \E p \in Projects : pickProject(p)
    \/ \E s \in Slugs : goScreenSlug(s)
    \/ \E k \in Users : loadAuthUser(k)
    \/ \E a \in SUBSET Slugs : navRefresh(a)
Spec == Init /\ [][Next]_vars
FairSpec == Spec /\ WF_vars(Lands)

-----------------------------------------------------------------------------
Halves == Projects \cup {None}
TypeOK ==
    /\ entries \in Seq(Routes) /\ pos \in DOMAIN entries
    /\ body.of \in Routes /\ body.view \in {"loading", "ready", "unknown"}
    /\ {scope, own, rows} \subseteq Halves
    /\ linkSeq \in 1 .. 3 + 2 * MaxMoves + MaxChanges

(* While a project's screen is shown, the project in scope is that project,   *)
(* whatever the list or a task's page answers late.                        *)
ScopeOfRoute == route.name \in {"project", "screen"} => scope = route.id

(* Once every answer has landed the rail offers the screens of the project in  *)
(* scope, and none of an area read as off (app-shell.ts paintScopeLinks).     *)
LinksOfScope ==
    (\A c \in calls : c.kind \notin {"rows", "areas"}) /\ scope # None
        => /\ linksOf = [of |-> scope, slugs |-> {Screens[scope][i] : i \in DOMAIN Screens[scope]} \ areas]
           /\ areas \in {off, {}}

(* The outlet shows what the route names (app-shell.ts outletKey), though not  *)
(* which of the user's own screens: from one to another it keeps the first.  *)
OutletFollowsRoute == outletKey(body.of) = outletKey(route)
OwnScreenShown == body.of = route

(* Only the page that is shown may move the route by itself.                *)
RedirectStaysStep ==
    entries' # entries /\ moves' = moves => body.of = route /\ body.view = "loading"
RedirectStays == [][RedirectStaysStep]_vars

(* Every page comes to show something.                                     *)
Loading == body.view = "loading"
Settles == Loading ~> ~Loading

-----------------------------------------------------------------------------
(* Why they hold: what is true of the answers to come at every step.         *)
BodyKinds == {"default", "resolve", "task"}
Sane ==
    /\ None \notin Projects \cup SUBSET Slugs
    /\ Tasks \in [DOMAIN Tasks -> Projects]
    /\ Screens \in [Projects -> Seq(Slugs)]

Shapes ==
    /\ entries \in Seq(Routes) /\ pos \in DOMAIN entries
    /\ body \in [no : Nat, of : Routes, view : {"loading", "ready", "unknown"}]
    /\ scope \in Halves /\ linkSeq \in Nat /\ off \in SUBSET Slugs
    /\ \A c \in calls : c \in [kind : BodyKinds \cup {"rows", "areas", "projects"}, no : Nat,
                               arg : {c.arg}, read : SUBSET Slugs]

(* The body waits for one answer, about the place it was built for.          *)
OfShown(c) ==
    /\ c.arg = body.of /\ body.view = "loading"
    /\ body.of.name \in CASE c.kind = "task" -> {"task"} [] c.kind = "resolve" -> {"screen"}
                            [] OTHER -> {"project", "screen"}
OneRead ==
    /\ \A c \in calls : c.kind \in BodyKinds => c.no <= body.no /\ (Live(c) => OfShown(c))
    /\ \A c, d \in calls : {c.kind, d.kind} \subseteq BodyKinds /\ Live(c) /\ Live(d) => c = d

(* The shell knows its own project wherever the route names one.             *)
OwnOfRoute == route.name \in {"project", "screen"} => own = route.id

(* Each half of the rail's links is there, or is on its way for the scope as  *)
(* it is; with both there the links have been painted.                      *)
Numbered == \A c \in calls : c.kind \in {"rows", "areas"} => c.no <= linkSeq
RowsOfScope ==
    /\ rows \in {None, scope}
    /\ rows = None => \E c \in calls : c.kind = "rows" /\ Current(c)
    /\ \A c \in calls : c.kind = "rows" /\ Current(c) => c.arg = scope
AreasOfScope ==
    /\ areas \in {None, off, {}}
    /\ areas = None => \E c \in calls : c.kind = "areas" /\ Current(c)
    /\ \A c \in calls : c.kind = "areas" /\ Current(c) => c.read = off
Painted ==
    rows # None /\ areas # None =>
        linksOf = [of |-> scope, slugs |-> {Screens[scope][i] : i \in DOMAIN Screens[scope]} \ areas]
RailFollows == scope # None => RowsOfScope /\ AreasOfScope /\ Painted

Inv ==
    /\ Shapes /\ OneRead /\ OwnOfRoute /\ Numbered /\ RailFollows
    /\ ScopeOfRoute /\ OutletFollowsRoute
=============================================================================

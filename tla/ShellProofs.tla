---------------------------- MODULE ShellProofs ----------------------------
(* The shell's rail and outlet stay with the route, for any projects, screens, *)
(* tasks and users and any number of moves. The rail's links arrive in halves  *)
(* and a page's content in an answer of its own; what is inductive (Inv) says  *)
(* that each half is either there or on its way for the scope as it is now,    *)
(* and that at most one answer can still reach the body, the one it was built  *)
(* to wait for.                                                            *)
EXTENDS Shell, TLAPS

RailKinds == {"rows", "areas"}
CallShape(c) ==
    c \in [kind : BodyKinds \cup {"rows", "areas", "projects"}, no : Nat, arg : {c.arg}, read : SUBSET Slugs]

(* What is known of a route by its name; the outlet's key tells all routes    *)
(* apart but the user's own screens.                                       *)
LEMMA RouteFacts ==
    ASSUME NEW r \in Routes
    PROVE  /\ r.name \in {"project", "screen"} => r.id \in Projects
           /\ r.name = "task" => r.id \in DOMAIN Tasks
           /\ \A q \in Routes : outletKey(q) = outletKey(r) => q.name = r.name /\ (q.name # "my_screen" => q = r)
  BY DEF Routes, Route, projects, screenUrl, outletKey

(* A screen's address is a route of its project that the guard lets through. *)
LEMMA ScreenUrlRoute ==
    ASSUME NEW p \in Projects, NEW s \in Slugs
    PROVE  /\ screenUrl(p, s) \in Routes /\ routeGuard(screenUrl(p, s)) = screenUrl(p, s)
           /\ screenUrl(p, s).name = "screen" /\ screenUrl(p, s).id = p
  BY DEF Routes, screenUrl, Route, routeGuard

(* A scope's links are read anew: both halves are on their way.              *)
LEMMA RailMoves ==
    ASSUME NEW p \in Projects, NEW cs, NEW o \in SUBSET Slugs, linkSeq \in Nat,
           \A c \in cs : CallShape(c) /\ (c.kind \in RailKinds => c.no <= linkSeq),
           Links(p, cs, o, TRUE), scope' = p, off' = o
    PROVE  /\ Numbered' /\ RailFollows' /\ linkSeq' \in Nat /\ cs \subseteq calls'
           /\ \A c \in calls' \ cs : c.kind \in RailKinds /\ CallShape(c)
<1> DEFINE ra == Call("rows", linkSeq + 1, p)
           aa == [Call("areas", linkSeq + 1, p) EXCEPT !.read = o]
<1>1. /\ linkSeq' = linkSeq + 1
      /\ rows' = None /\ areas' = None /\ linksOf' = linksOf
      /\ calls' = cs \cup {ra, aa}
  BY DEF Links, BothHalves
<1>2. /\ ra.kind = "rows" /\ ra.no = linkSeq + 1 /\ ra.arg = p
      /\ aa.kind = "areas" /\ aa.no = linkSeq + 1 /\ aa.read = o
      /\ CallShape(ra) /\ CallShape(aa)
  BY DEF Call, CallShape
<1> HIDE DEF ra, aa
<1>3. \A c \in cs : c.kind \in RailKinds => c.no # linkSeq + 1 /\ c.no <= linkSeq + 1
  BY DEF CallShape
<1>4. Numbered'
  <2>1. ra.no <= linkSeq + 1 /\ aa.no <= linkSeq + 1
    BY <1>2
  <2> QED BY <1>1, <1>2, <1>3, <2>1 DEF Numbered, RailKinds
<1>5. RailFollows'
  <2>1. RowsOfScope'
    BY <1>1, <1>2, <1>3 DEF RowsOfScope, Current, RailKinds
  <2>2. AreasOfScope'
    BY <1>1, <1>2, <1>3 DEF AreasOfScope, Current, RailKinds
  <2> QED BY <1>1, <2>1, <2>2 DEF RailFollows, Painted
<1> QED BY <1>1, <1>2, <1>4, <1>5 DEF RailKinds

(* The rail is left alone, and so are the answers it waits for.              *)
LEMMA RailStays ==
    ASSUME Numbered, RailFollows, UNCHANGED <<scope, off, rows, areas, linksOf, linkSeq>>,
           {c \in calls' : c.kind \in RailKinds} = {c \in calls : c.kind \in RailKinds}
    PROVE  Numbered' /\ RailFollows'
<1>1. \A c : c.kind \in RailKinds => (c \in calls' <=> c \in calls)
  OBVIOUS
<1>2. Numbered'
  BY <1>1 DEF Numbered, RailKinds
<1>3. RowsOfScope => RowsOfScope'
  BY <1>1 DEF RowsOfScope, RailKinds, Current
<1>4. AreasOfScope => AreasOfScope'
  BY <1>1 DEF AreasOfScope, RailKinds, Current
<1>5. Painted => Painted'
  BY DEF Painted
<1> QED BY <1>2, <1>3, <1>4, <1>5 DEF RailFollows

(* So is the body, and no other answer is for it.                            *)
LEMMA BodyStays ==
    ASSUME OneRead, UNCHANGED body, {c \in calls' : c.kind \in BodyKinds} \subseteq calls
    PROVE  OneRead'
<1>1. \A c \in calls' : c.kind \in BodyKinds => c \in calls
  OBVIOUS
<1> QED BY <1>1 DEF OneRead, Live, OfShown

(* A new body is shown for a route: it waits for its own first answer only.   *)
LEMMA NewBody ==
    ASSUME OneRead, body.no \in Nat, \A c \in calls : CallShape(c), NEW fresh,
           \A c \in fresh : /\ c.no = body.no + 1 /\ c.arg = body'.of /\ body'.view = "loading"
                            /\ body'.of.name \in CASE c.kind = "task" -> {"task"} [] c.kind = "resolve" -> {"screen"}
                                                   [] OTHER -> {"project", "screen"},
           \A c, d \in fresh : c = d,
           body'.no = body.no + 1,
           \A c \in calls' : c.kind \in BodyKinds => c \in calls \cup fresh
    PROVE  OneRead'
<1>1. \A c \in calls : c.kind \in BodyKinds => c.no <= body.no + 1 /\ c.no # body.no + 1
  BY DEF OneRead, CallShape
<1>2. \A c \in fresh : c.no <= body.no + 1
  OBVIOUS
<1>3. \A c \in calls' : c.kind \in BodyKinds =>
          /\ c.no <= body'.no
          /\ c.no = body'.no => c \in fresh
  BY <1>1, <1>2
<1> QED BY <1>3 DEF OneRead, Live, OfShown

(* The route shown is one of the routes.                                    *)
LEMMA RouteTyped ==
    ASSUME Shapes
    PROVE  /\ route \in Routes /\ body.of \in Routes /\ body.no \in Nat
           /\ linkSeq \in Nat /\ off \in SUBSET Slugs /\ \A c \in calls : CallShape(c)
<1>1. entries \in Seq(Routes) /\ pos \in DOMAIN entries
  BY DEF Shapes
<1> HIDE DEF Routes
<1>2. route \in Routes
  BY <1>1 DEF route
<1> QED BY <1>2 DEF Shapes, CallShape

(* renderRoute: the outlet, the scope and the rail come to be those of the    *)
(* route that was landed on.                                               *)
LEMMA RenderStep ==
    ASSUME Sane, Inv, NEW r \in Routes, renderRoute(r), route' = r,
           entries' \in Seq(Routes), pos' \in DOMAIN entries', UNCHANGED off
    PROVE  Inv'
<1>1. /\ route \in Routes /\ body.of \in Routes /\ body.no \in Nat
      /\ linkSeq \in Nat /\ off \in SUBSET Slugs /\ \A c \in calls : CallShape(c)
  BY RouteTyped DEF Inv
<1>2. CASE outletKey(r) = outletKey(body.of)
  <2>1. UNCHANGED <<body, scope, own, rows, areas, linksOf, linkSeq, calls>>
    BY <1>2 DEF renderRoute, linkVars
  <2>2. outletKey(body.of) = outletKey(route)
    BY DEF Inv, OutletFollowsRoute
  <2>3. r.name \in {"project", "screen"} => r = route
    BY <1>1, <1>2, <2>2, RouteFacts
  <2>4. Numbered' /\ RailFollows'
    BY <2>1, RailStays DEF Inv
  <2>5. OneRead'
    BY <2>1, BodyStays DEF Inv
  <2>6. OwnOfRoute' /\ ScopeOfRoute' /\ OutletFollowsRoute'
    BY <1>2, <2>1, <2>3 DEF Inv, OwnOfRoute, ScopeOfRoute, OutletFollowsRoute
  <2>7. Shapes'
    BY <2>1 DEF Inv, Shapes
  <2> QED BY <2>4, <2>5, <2>6, <2>7 DEF Inv
<1>3. CASE outletKey(r) # outletKey(body.of)
  <2> DEFINE fresh == {OfBody(k) : k \in firstRead(r)}
             cs == calls \cup fresh
  <2>1. /\ body' = [no |-> body.no + 1, of |-> r, view |-> IF firstRead(r) = {} THEN "ready" ELSE "loading"]
        /\ IF r.name \in {"project", "screen"} THEN own' = r.id /\ scope' = r.id ELSE UNCHANGED <<own, scope>>
        /\ Links(scope', cs, off, scope' # scope)
    BY <1>3 DEF renderRoute
  <2>2. /\ body'.no = body.no + 1 /\ body'.of = r
        /\ body' \in [no : Nat, of : Routes, view : {"loading", "ready", "unknown"}]
        /\ firstRead(r) # {} => body'.view = "loading"
    BY <1>1, <2>1
  <2>3. /\ \A c \in fresh : /\ CallShape(c) /\ c.kind \in BodyKinds /\ c.kind \in firstRead(r)
                            /\ c.no = body.no + 1 /\ c.arg = r
        /\ \A c, d \in fresh : c = d
    <3>1. \A k \in BodyKinds : CallShape(OfBody(k)) /\ OfBody(k).kind = k /\ OfBody(k).no = body.no + 1 /\ OfBody(k).arg = r
      BY <1>1, <2>2 DEF CallShape, OfBody, Call
    <3>2. firstRead(r) \subseteq BodyKinds /\ \A j, k \in firstRead(r) : j = k
      BY DEF firstRead, BodyKinds
    <3> QED BY <3>1, <3>2
  <2>4. \A c \in fresh : r.name \in CASE c.kind = "task" -> {"task"} [] c.kind = "resolve" -> {"screen"}
                                       [] OTHER -> {"project", "screen"}
    BY <2>3 DEF firstRead
  <2> HIDE DEF fresh
  <2>5. \A c \in fresh : c.kind \notin RailKinds
    BY <2>3 DEF BodyKinds, RailKinds
  <2>6. /\ Numbered' /\ RailFollows' /\ linkSeq' \in Nat /\ scope' \in Halves
        /\ \A c \in calls' : c \in cs \/ (c.kind \in RailKinds /\ CallShape(c))
    <3>1. CASE scope' # scope
      <4>1. scope' \in Projects
        BY <2>1, <3>1, RouteFacts
      <4>2. Links(scope', cs, off, TRUE) /\ off' = off
        BY <2>1, <3>1
      <4>3. \A c \in cs : CallShape(c) /\ (c.kind \in RailKinds => c.no <= linkSeq)
        BY <1>1, <2>3, <2>5 DEF Inv, Numbered, RailKinds
      <4> QED BY <1>1, <4>1, <4>2, <4>3, RailMoves DEF Halves
    <3>2. CASE scope' = scope
      <4>1. calls' = cs /\ UNCHANGED <<rows, areas, linksOf, linkSeq>>
        BY <2>1, <3>2 DEF Links, linkVars
      <4>2. {c \in calls' : c.kind \in RailKinds} = {c \in calls : c.kind \in RailKinds}
        BY <2>5, <4>1
      <4> QED BY <1>1, <3>2, <4>1, <4>2, RailStays DEF Inv, Shapes
    <3> QED BY <3>1, <3>2
  <2>7. \A c \in calls' : c.kind \in BodyKinds => c \in calls \cup fresh
    BY <2>6 DEF BodyKinds, RailKinds
  <2>8. OneRead'
    <3>1. \A c \in fresh : /\ c.no = body.no + 1 /\ c.arg = body'.of /\ body'.view = "loading"
                          /\ body'.of.name \in CASE c.kind = "task" -> {"task"} [] c.kind = "resolve" -> {"screen"}
                                                 [] OTHER -> {"project", "screen"}
      BY <2>2, <2>3, <2>4
    <3> QED BY <1>1, <2>2, <2>3, <2>7, <3>1, NewBody DEF Inv
  <2>9. Shapes'
    <3>1. \A c \in calls' : CallShape(c)
      BY <1>1, <2>3, <2>6
    <3> QED BY <1>1, <2>2, <2>6, <3>1 DEF Shapes, CallShape
  <2>10. OwnOfRoute' /\ ScopeOfRoute' /\ OutletFollowsRoute'
    BY <2>1, <2>2 DEF OwnOfRoute, ScopeOfRoute, OutletFollowsRoute
  <2> QED BY <2>6, <2>8, <2>9, <2>10 DEF Inv
<1> QED BY <1>2, <1>3

(* Where the guard leads is a route too.                                    *)
LEMMA GuardTyped ==
    ASSUME NEW r \in Routes
    PROVE  routeGuard(r) \in Routes
  BY DEF routeGuard, Routes, projects

(* A link is followed: the route the guard allows is rendered.              *)
LEMMA NavigateStep ==
    ASSUME Sane, Inv, NEW r \in Routes, navigate(r)
    PROVE  Inv'
<1> DEFINE g == routeGuard(r)
<1>1. g \in Routes
  BY GuardTyped
<1>2. /\ entries' = Append(SubSeq(entries, 1, pos), g) /\ pos' = pos + 1
      /\ renderRoute(g) /\ UNCHANGED off
  BY DEF navigate, Push
<1> HIDE DEF g
<1>3. entries \in Seq(Routes) /\ pos \in 1 .. Len(entries) /\ Len(entries) \in Nat
  BY DEF Inv, Shapes
<1>4. SubSeq(entries, 1, pos) \in Seq(Routes) /\ Len(SubSeq(entries, 1, pos)) = pos
  <2> HIDE DEF Routes
  <2> QED BY <1>3
<1>5. /\ entries' \in Seq(Routes) /\ pos' \in DOMAIN entries' /\ entries'[pos'] = g
  <2> HIDE DEF Routes
  <2> QED BY <1>1, <1>2, <1>3, <1>4
<1>6. route' = g
  BY <1>5 DEF route
<1> QED BY <1>1, <1>2, <1>5, <1>6, RenderStep

(* Back and forward render the entry they come to.                          *)
LEMMA PopStateStep ==
    ASSUME Sane, Inv, NEW d \in {-1, 1}, onPopState(d)
    PROVE  Inv'
<1> DEFINE n == pos + d
           g == routeGuard(entries[n])
<1>1. /\ n \in 1 .. Len(entries) /\ pos' = n
      /\ entries' = [entries EXCEPT ![n] = g]
      /\ renderRoute(g) /\ UNCHANGED off
  BY DEF onPopState
<1>2. entries \in Seq(Routes)
  BY DEF Inv, Shapes
<1> HIDE DEF n
<1>3. entries[n] \in Routes
  <2> HIDE DEF Routes
  <2> QED BY <1>1, <1>2
<1>4. g \in Routes
  BY <1>3, GuardTyped
<1> HIDE DEF g
<1>5. entries' \in Seq(Routes) /\ pos' \in DOMAIN entries' /\ entries'[pos'] = g
  <2> HIDE DEF Routes
  <2> QED BY <1>1, <1>2, <1>4
<1>6. route' = g
  BY <1>5 DEF route
<1> QED BY <1>1, <1>4, <1>5, <1>6, RenderStep

(* Where the place and the body stay, the rail decides.                      *)
LEMMA PlaceStays ==
    ASSUME Inv, UNCHANGED <<entries, pos, body>>, scope' \in Halves, linkSeq' \in Nat, off' \in SUBSET Slugs,
           \A c \in calls' : CallShape(c),
           {c \in calls' : c.kind \in BodyKinds} \subseteq calls,
           Numbered', RailFollows',
           route.name \in {"project", "screen"} => UNCHANGED <<own, scope>>
    PROVE  Inv'
<1>1. OneRead'
  BY BodyStays DEF Inv
<1>2. Shapes'
  BY DEF Inv, Shapes, CallShape
<1>3. OwnOfRoute' /\ ScopeOfRoute' /\ OutletFollowsRoute'
  BY DEF Inv, OwnOfRoute, ScopeOfRoute, OutletFollowsRoute, route
<1> QED BY <1>1, <1>2, <1>3 DEF Inv

(* Who is signed in touches neither the outlet nor the rail.                *)
LEMMA AuthStep ==
    ASSUME Inv, NEW k, loadAuthUser(k)
    PROVE  Inv'
<1>1. UNCHANGED <<entries, pos, body, scope, own, rows, areas, linksOf, linkSeq, calls, off>>
  BY DEF loadAuthUser, routeVars, linkVars
<1>2. Numbered' /\ RailFollows'
  BY <1>1, RailStays DEF Inv
<1> QED BY <1>1, <1>2, RouteTyped, PlaceStays DEF Inv, Shapes

(* The areas are read anew: both halves are on their way again.             *)
LEMMA RefreshStep ==
    ASSUME Sane, Inv, NEW a \in SUBSET Slugs, navRefresh(a)
    PROVE  Inv'
<1>1. /\ off' = a /\ Links(scope, calls, a, scope # None)
      /\ UNCHANGED <<entries, pos, body, scope, own>>
  BY DEF navRefresh, routeVars
<1>2. linkSeq \in Nat /\ \A c \in calls : CallShape(c)
  BY RouteTyped DEF Inv
<1>3. scope \in Halves
  BY DEF Inv, Shapes
<1>4. CASE scope # None
  <2>1. scope \in Projects
    BY <1>3, <1>4 DEF Halves
  <2>2. Links(scope, calls, a, TRUE)
    BY <1>1, <1>4
  <2>3. \A c \in calls : CallShape(c) /\ (c.kind \in RailKinds => c.no <= linkSeq)
    BY <1>2 DEF Inv, Numbered, RailKinds
  <2>4. /\ Numbered' /\ RailFollows' /\ linkSeq' \in Nat
        /\ \A c \in calls' \ calls : c.kind \in RailKinds /\ CallShape(c)
    BY <1>1, <1>2, <2>1, <2>2, <2>3, RailMoves
  <2>5. {c \in calls' : c.kind \in BodyKinds} \subseteq calls
    BY <2>4 DEF RailKinds, BodyKinds
  <2> QED BY <1>1, <1>2, <1>3, <2>4, <2>5, PlaceStays
<1>5. CASE scope = None
  <2>1. UNCHANGED <<calls, rows, areas, linksOf, linkSeq>>
    BY <1>1, <1>5 DEF Links, linkVars
  <2>2. Numbered' /\ RailFollows'
    BY <1>1, <1>5, <2>1 DEF Inv, Numbered, RailFollows
  <2> QED BY <1>1, <1>2, <1>3, <2>1, <2>2, PlaceStays
<1> QED BY <1>4, <1>5

(* A half of the links lands: it is taken only if it is for the scope as it is. *)
LEMMA RowsStep ==
    ASSUME Sane, Inv, NEW c \in calls, landRows(c)
    PROVE  Inv'
<1>1. /\ c.kind = "rows" /\ calls' = calls \ {c}
      /\ IF ~Current(c) THEN UNCHANGED <<rows, areas, linksOf>>
         ELSE rows' = c.arg /\ UNCHANGED areas /\ paintScopeLinks(c.arg, areas)
      /\ UNCHANGED <<entries, pos, body, scope, own, linkSeq, off>>
  BY DEF landRows, linkVars, routeVars
<1>2. linkSeq \in Nat /\ (\A d \in calls : CallShape(d)) /\ scope \in Halves /\ off \in SUBSET Slugs
  BY RouteTyped DEF Inv, Shapes
<1>3. Numbered'
  BY <1>1 DEF Inv, Numbered
<1>4. ASSUME scope # None PROVE RowsOfScope' /\ AreasOfScope' /\ Painted'
  <2>1. RowsOfScope /\ AreasOfScope /\ Painted
    BY <1>4 DEF Inv, RailFollows
  <2>2. AreasOfScope'
    <3>1. UNCHANGED areas /\ (\A d \in calls' : d \in calls) /\ \A d \in calls : d.kind = "areas" => d \in calls'
      BY <1>1
    <3> QED BY <1>1, <2>1, <3>1 DEF AreasOfScope, Current
  <2>3. CASE ~Current(c)
    <3>1. RowsOfScope'
      BY <1>1, <2>1, <2>3 DEF RowsOfScope, Current
    <3> QED BY <1>1, <2>1, <2>2, <2>3, <3>1 DEF Painted
  <2>4. CASE Current(c)
    <3>1. c.arg = scope /\ rows' = scope
      BY <1>1, <2>1, <2>4 DEF RowsOfScope
    <3>2. RowsOfScope'
      BY <1>1, <1>4, <2>1, <3>1 DEF RowsOfScope, Current
    <3>3. Painted'
      BY <1>1, <1>4, <2>4, <3>1 DEF Painted, paintScopeLinks
    <3> QED BY <2>2, <3>2, <3>3
  <2> QED BY <2>3, <2>4
<1>5. RailFollows'
  BY <1>1, <1>4 DEF RailFollows
<1>6. {d \in calls' : d.kind \in BodyKinds} \subseteq calls
  BY <1>1
<1> QED BY <1>1, <1>2, <1>3, <1>5, <1>6, PlaceStays

(* So with the other half, which may also come back refused.                *)
LEMMA AreasStep ==
    ASSUME Sane, Inv, NEW c \in calls, NEW f \in BOOLEAN, landAreas(c, f)
    PROVE  Inv'
<1> DEFINE a == IF f THEN {} ELSE c.read
<1>1. /\ c.kind = "areas" /\ calls' = calls \ {c}
      /\ IF ~Current(c) THEN UNCHANGED <<rows, areas, linksOf>>
         ELSE areas' = a /\ UNCHANGED rows /\ paintScopeLinks(rows, a)
      /\ UNCHANGED <<entries, pos, body, scope, own, linkSeq, off>>
  BY DEF landAreas, linkVars, routeVars
<1>2. linkSeq \in Nat /\ (\A d \in calls : CallShape(d)) /\ scope \in Halves /\ off \in SUBSET Slugs
  BY RouteTyped DEF Inv, Shapes
<1>3. Numbered'
  BY <1>1 DEF Inv, Numbered
<1>4. ASSUME scope # None PROVE RowsOfScope' /\ AreasOfScope' /\ Painted'
  <2>1. RowsOfScope /\ AreasOfScope /\ Painted
    BY <1>4 DEF Inv, RailFollows
  <2>2. RowsOfScope'
    <3>1. UNCHANGED rows /\ (\A d \in calls' : d \in calls) /\ \A d \in calls : d.kind = "rows" => d \in calls'
      BY <1>1
    <3> QED BY <1>1, <2>1, <3>1 DEF RowsOfScope, Current
  <2>3. CASE ~Current(c)
    <3>1. AreasOfScope'
      BY <1>1, <2>1, <2>3 DEF AreasOfScope, Current
    <3> QED BY <1>1, <2>1, <2>2, <2>3, <3>1 DEF Painted
  <2>4. CASE Current(c)
    <3>1. a \in {off, {}} /\ a # None
      BY <1>1, <1>2, <2>1, <2>4 DEF AreasOfScope, Sane
    <3>2. areas' = a
      BY <1>1, <2>4
    <3> HIDE DEF a
    <3>3. AreasOfScope'
      BY <1>1, <2>1, <3>1, <3>2 DEF AreasOfScope, Current
    <3>4. rows \in {None, scope}
      BY <2>1 DEF RowsOfScope
    <3>5. Painted'
      BY <1>1, <1>4, <2>4, <3>1, <3>4 DEF Painted, paintScopeLinks
    <3> QED BY <2>2, <3>3, <3>5
  <2> QED BY <2>3, <2>4
<1>5. RailFollows'
  BY <1>1, <1>4 DEF RailFollows
<1>6. {d \in calls' : d.kind \in BodyKinds} \subseteq calls
  BY <1>1
<1> QED BY <1>1, <1>2, <1>3, <1>5, <1>6, PlaceStays

(* The body has what it waited for.                                        *)
LEMMA BodyDone ==
    ASSUME Inv, NEW c \in calls, c.kind \in BodyKinds, Live(c), NEW v \in {"ready", "unknown"},
           body' = [body EXCEPT !.view = v], UNCHANGED <<entries, pos>>,
           scope' \in Halves, linkSeq' \in Nat, UNCHANGED off,
           \A d \in calls' : CallShape(d),
           {d \in calls' : d.kind \in BodyKinds} \subseteq calls \ {c},
           Numbered', RailFollows',
           route.name \in {"project", "screen"} => UNCHANGED <<own, scope>>
    PROVE  Inv'
<1>1. /\ body \in [no : Nat, of : Routes, view : {"loading", "ready", "unknown"}]
      /\ \A d \in calls : CallShape(d)
  BY RouteTyped DEF Inv, Shapes
<1>2. body'.no = body.no /\ body'.of = body.of /\ body' \in [no : Nat, of : Routes, view : {"loading", "ready", "unknown"}]
  <2> HIDE DEF Routes
  <2> QED BY <1>1
<1>3. \A d \in calls' : d.kind \in BodyKinds => d \in calls /\ ~Live(d) /\ d.no <= body.no
  BY DEF Inv, OneRead
<1>4. OneRead'
  BY <1>2, <1>3 DEF OneRead, Live
<1>5. Shapes'
  BY <1>2 DEF Inv, Shapes, CallShape
<1>6. OwnOfRoute' /\ ScopeOfRoute' /\ OutletFollowsRoute'
  BY <1>2 DEF Inv, OwnOfRoute, ScopeOfRoute, OutletFollowsRoute, route
<1> QED BY <1>4, <1>5, <1>6 DEF Inv

(* The route of a body that waits for an answer is the one it was built for.  *)
LEMMA LiveRoute ==
    ASSUME Inv, NEW c \in calls, c.kind \in BodyKinds, Live(c)
    PROVE  /\ route \in Routes /\ c.arg = route /\ body.of = route /\ body.view = "loading"
           /\ c.kind = "task" => route.name = "task"
           /\ c.kind = "resolve" => route.name = "screen"
           /\ c.kind = "default" => route.name \in {"project", "screen"}
<1>1. OfShown(c)
  BY DEF Inv, OneRead
<1>2. route \in Routes /\ body.of \in Routes
  BY RouteTyped DEF Inv
<1>3. body.of.name \in {"task", "screen", "project"}
  BY <1>1 DEF OfShown
<1>4. body.of = route
  BY <1>2, <1>3, RouteFacts DEF Inv, OutletFollowsRoute
<1> QED BY <1>1, <1>2, <1>4 DEF OfShown, BodyKinds

(* The answers of the rail's kinds stay as they are.                         *)
LEMMA RailAlone ==
    ASSUME Inv, UNCHANGED <<scope, off, rows, areas, linksOf, linkSeq>>,
           {d \in calls' : d.kind \in RailKinds} = {d \in calls : d.kind \in RailKinds}
    PROVE  /\ Numbered' /\ RailFollows' /\ scope' \in Halves /\ linkSeq' \in Nat /\ off' \in SUBSET Slugs
BY RailStays DEF Inv, Shapes

(* The project list gives a project only to a shell that has none of its own. *)
LEMMA ProjectsStep ==
    ASSUME Sane, Inv, NEW c \in calls, landProjects(c)
    PROVE  Inv'
<1>1. PICK p \in Projects :
         /\ c.kind = "projects"
         /\ IF own # None THEN UNCHANGED <<own, scope, linkVars, linkSeq>> /\ calls' = calls \ {c}
            ELSE own' = p /\ scope' = p /\ Links(p, calls \ {c}, off, p # scope)
         /\ UNCHANGED <<entries, pos, body, off>>
  BY DEF landProjects, routeVars
<1>2. linkSeq \in Nat /\ (\A d \in calls : CallShape(d)) /\ scope \in Halves /\ off \in SUBSET Slugs /\ route \in Routes
  BY RouteTyped DEF Inv, Shapes
<1>3. c.kind \notin RailKinds /\ c.kind \notin BodyKinds
  BY <1>1 DEF RailKinds, BodyKinds
<1>4. ASSUME UNCHANGED <<scope, linkVars, linkSeq>>, calls' = calls \ {c},
             route.name \in {"project", "screen"} => UNCHANGED <<own, scope>> PROVE Inv'
  <2>1. {d \in calls' : d.kind \in RailKinds} = {d \in calls : d.kind \in RailKinds}
    BY <1>3, <1>4
  <2>2. UNCHANGED <<rows, areas, linksOf>>
    BY <1>4 DEF linkVars
  <2>3. Numbered' /\ RailFollows' /\ scope' \in Halves /\ linkSeq' \in Nat /\ off' \in SUBSET Slugs
    BY <1>1, <1>3, <1>4, <2>1, <2>2, RailAlone
  <2> QED BY <1>1, <1>2, <1>4, <2>3, PlaceStays
<1>5. CASE own # None
  BY <1>1, <1>4, <1>5
<1>6. CASE own = None
  <2>1. route.name \notin {"project", "screen"}
    BY <1>2, <1>6, RouteFacts DEF Inv, OwnOfRoute, Sane
  <2>2. CASE p = scope
    BY <1>1, <1>4, <1>6, <2>1, <2>2 DEF Links
  <2>3. CASE p # scope
    <3>1. Links(p, calls \ {c}, off, TRUE) /\ scope' = p
      BY <1>1, <1>6, <2>3
    <3>2. \A d \in calls \ {c} : CallShape(d) /\ (d.kind \in RailKinds => d.no <= linkSeq)
      BY <1>2 DEF Inv, Numbered, RailKinds
    <3>3. /\ Numbered' /\ RailFollows' /\ linkSeq' \in Nat
          /\ \A d \in calls' \ (calls \ {c}) : d.kind \in RailKinds /\ CallShape(d)
      BY <1>1, <1>2, <3>1, <3>2, RailMoves
    <3>4. {d \in calls' : d.kind \in BodyKinds} \subseteq calls /\ \A d \in calls' : CallShape(d)
      BY <1>2, <3>3 DEF RailKinds, BodyKinds
    <3> QED BY <1>1, <1>2, <2>1, <3>1, <3>3, <3>4, PlaceStays DEF Halves
  <2> QED BY <2>2, <2>3
<1> QED BY <1>5, <1>6

(* An answer nobody waits for changes nothing.                              *)
LEMMA DroppedStep ==
    ASSUME Inv, NEW c \in calls, Dropped(c)
    PROVE  Inv'
<1>1. /\ c.kind \notin RailKinds /\ calls' = calls \ {c}
      /\ UNCHANGED <<entries, pos, body, scope, own, rows, areas, linksOf, linkSeq, off>>
  BY DEF Dropped, RailKinds, linkVars, routeVars
<1>2. \A d \in calls : CallShape(d)
  BY RouteTyped DEF Inv
<1>3. {d \in calls' : d.kind \in RailKinds} = {d \in calls : d.kind \in RailKinds}
  BY <1>1
<1>4. Numbered' /\ RailFollows' /\ scope' \in Halves /\ linkSeq' \in Nat /\ off' \in SUBSET Slugs
  BY <1>1, <1>3, RailAlone
<1> QED BY <1>1, <1>2, <1>4, PlaceStays

(* The screen is there, or the same body asks for the project's default.     *)
LEMMA ResolvedStep ==
    ASSUME Inv, NEW c \in calls, onScreenResolved(c)
    PROVE  Inv'
<1>1. /\ c.kind = "resolve" /\ Live(c)
      /\ UNCHANGED <<entries, pos, scope, own, rows, areas, linksOf, linkSeq, off>>
  BY DEF onScreenResolved, linkVars, routeVars
<1>2. \A d \in calls : CallShape(d)
  BY RouteTyped DEF Inv
<1>3. c.kind \in BodyKinds /\ c.kind \notin RailKinds
  BY <1>1 DEF BodyKinds, RailKinds
<1>4. CASE body' = [body EXCEPT !.view = "ready"] /\ calls' = calls \ {c}
  <2>1. {d \in calls' : d.kind \in RailKinds} = {d \in calls : d.kind \in RailKinds}
    BY <1>3, <1>4
  <2>2. Numbered' /\ RailFollows' /\ scope' \in Halves /\ linkSeq' \in Nat /\ off' \in SUBSET Slugs
    BY <1>1, <1>3, <2>1, RailAlone
  <2> QED BY <1>1, <1>2, <1>3, <1>4, <2>2, BodyDone
<1>5. CASE UNCHANGED body /\ calls' = (calls \ {c}) \cup {[c EXCEPT !.kind = "default"]}
  <2> DEFINE d == [c EXCEPT !.kind = "default"]
  <2>1. d.kind = "default" /\ d.no = c.no /\ d.arg = c.arg /\ CallShape(d)
    BY <1>2 DEF CallShape, BodyKinds
  <2> HIDE DEF d
  <2>2. \A e \in {d} : e.kind \notin RailKinds
    BY <2>1 DEF RailKinds
  <2>3. calls' = (calls \ {c}) \cup {d}
    BY <1>5 DEF d
  <2>s. {e \in calls' : e.kind \in RailKinds} = {e \in calls : e.kind \in RailKinds}
    BY <1>3, <2>2, <2>3
  <2>4. Numbered' /\ RailFollows' /\ scope' \in Halves /\ linkSeq' \in Nat /\ off' \in SUBSET Slugs
    BY <1>1, <2>s, RailAlone
  <2>5. c.no <= body.no /\ c.no = body.no /\ OfShown(c)
    BY <1>1, <1>3 DEF Inv, OneRead, Live
  <2>6. \A e \in calls : e.kind \in BodyKinds /\ Live(e) => e = c
    BY <1>1, <1>3 DEF Inv, OneRead
  <2>7. OneRead'
    <3>1. OfShown(d)
      BY <1>1, <2>1, <2>5 DEF OfShown
    <3>2. \A e \in calls' : e.kind \in BodyKinds => e.no <= body.no /\ (e.no = body.no => e = d)
      BY <2>1, <2>3, <2>5, <2>6 DEF Inv, OneRead, Live
    <3> QED BY <1>5, <3>1, <3>2 DEF OneRead, Live, OfShown
  <2>8. Shapes'
    BY <1>1, <1>2, <1>5, <2>1, <2>3 DEF Inv, Shapes, CallShape
  <2>9. OwnOfRoute' /\ ScopeOfRoute' /\ OutletFollowsRoute'
    BY <1>1, <1>5 DEF Inv, OwnOfRoute, ScopeOfRoute, OutletFollowsRoute, route
  <2> QED BY <2>4, <2>7, <2>8, <2>9 DEF Inv
<1> QED BY <1>4, <1>5 DEF onScreenResolved

(* The project's first screen takes its place: same project, so same scope.   *)
LEMMA DefaultStep ==
    ASSUME Sane, Inv, NEW c \in calls, landDefaultScreen(c)
    PROVE  Inv'
<1>1. /\ c.kind = "default" /\ Live(c)
      /\ UNCHANGED <<scope, own, rows, areas, linksOf, off>>
  BY DEF landDefaultScreen, linkVars
<1>2. /\ \A d \in calls : CallShape(d)
      /\ body.no \in Nat
  BY RouteTyped DEF Inv
<1>3. c.kind \in BodyKinds /\ c.kind \notin RailKinds
  BY <1>1 DEF BodyKinds, RailKinds
<1>4. route \in Routes /\ c.arg = route /\ route.name \in {"project", "screen"} /\ route.id \in Projects
  BY <1>1, <1>3, LiveRoute, RouteFacts
<1>5. scope = route.id /\ own = route.id
  BY <1>4 DEF Inv, ScopeOfRoute, OwnOfRoute
<1>6. CASE Screens[c.arg.id] = <<>>
  <2>1. /\ body' = [body EXCEPT !.view = "unknown"] /\ UNCHANGED <<entries, pos, linkSeq>>
        /\ calls' = calls \ {c}
    BY <1>6 DEF landDefaultScreen, routeVars
  <2>s. {d \in calls' : d.kind \in RailKinds} = {d \in calls : d.kind \in RailKinds}
    BY <1>3, <2>1
  <2>2. Numbered' /\ RailFollows' /\ scope' \in Halves /\ linkSeq' \in Nat /\ off' \in SUBSET Slugs
    BY <1>1, <2>1, <2>s, RailAlone
  <2> QED BY <1>1, <1>2, <1>3, <2>1, <2>2, BodyDone
<1>7. CASE Screens[c.arg.id] # <<>>
  <2> DEFINE r == screenUrl(c.arg.id, Head(Screens[c.arg.id]))
             d == OfBody("resolve")
  <2>1. Head(Screens[c.arg.id]) \in Slugs
    BY <1>4, <1>7 DEF Sane
  <2>2. r \in Routes /\ routeGuard(r) = r /\ r.name = "screen" /\ r.id = route.id
    BY <1>4, <2>1, ScreenUrlRoute
  <2>3. /\ entries' = [entries EXCEPT ![pos] = r] /\ pos' = pos
        /\ body' = [no |-> body.no + 1, of |-> r, view |-> "loading"]
        /\ linkSeq' = linkSeq
        /\ calls' = (calls \ {c}) \cup {d}
    BY <1>7, <2>2 DEF landDefaultScreen, Replace
  <2> HIDE DEF r
  <2>4. d.kind = "resolve" /\ d.no = body.no + 1 /\ d.arg = r /\ CallShape(d)
    BY <1>2, <2>3 DEF OfBody, Call, CallShape, BodyKinds
  <2> HIDE DEF d
  <2>5. entries' \in Seq(Routes) /\ pos' \in DOMAIN entries' /\ entries'[pos'] = r
    <3>1. entries \in Seq(Routes) /\ pos \in DOMAIN entries
      BY DEF Inv, Shapes
    <3> HIDE DEF Routes
    <3> QED BY <2>2, <2>3, <3>1
  <2>6. route' = r
    BY <2>5 DEF route
  <2>7. \A e \in {d} : e.kind \notin RailKinds
    BY <2>4 DEF RailKinds
  <2>s. {e \in calls' : e.kind \in RailKinds} = {e \in calls : e.kind \in RailKinds}
    BY <1>3, <2>3, <2>7
  <2>8. Numbered' /\ RailFollows' /\ scope' \in Halves /\ linkSeq' \in Nat /\ off' \in SUBSET Slugs
    BY <1>1, <2>3, <2>s, RailAlone
  <2>9. OneRead'
    <3>1. body'.no = body.no + 1 /\ body'.of = r /\ body'.view = "loading"
      BY <2>3
    <3>2. \A e \in {d} : /\ e.no = body.no + 1 /\ e.arg = body'.of /\ body'.view = "loading"
                        /\ body'.of.name \in CASE e.kind = "task" -> {"task"} [] e.kind = "resolve" -> {"screen"}
                                               [] OTHER -> {"project", "screen"}
      BY <2>2, <2>4, <3>1
    <3>3. \A e \in calls' : e.kind \in BodyKinds => e \in calls \cup {d}
      BY <2>3
    <3>4. \A e, g \in {d} : e = g
      OBVIOUS
    <3> QED BY <1>2, <3>1, <3>2, <3>3, <3>4, NewBody DEF Inv
  <2>10. Shapes'
    <3>1. body' \in [no : Nat, of : Routes, view : {"loading", "ready", "unknown"}]
      BY <1>2, <2>2, <2>3
    <3>2. \A e \in calls' : CallShape(e)
      BY <1>2, <2>3, <2>4
    <3> QED BY <2>5, <2>8, <3>1, <3>2 DEF Shapes, CallShape
  <2>11. OwnOfRoute' /\ ScopeOfRoute' /\ OutletFollowsRoute'
    BY <1>1, <1>5, <2>2, <2>3, <2>6 DEF OwnOfRoute, ScopeOfRoute, OutletFollowsRoute
  <2> QED BY <2>8, <2>9, <2>10, <2>11 DEF Inv
<1> QED BY <1>6, <1>7

(* A task's page tells the shell its project: the rail moves to it.         *)
LEMMA PublishStep ==
    ASSUME Sane, Inv, NEW c \in calls, publishProjectScope(c)
    PROVE  Inv'
<1>1. /\ c.kind = "task" /\ Live(c) /\ body' = [body EXCEPT !.view = "ready"]
      /\ scope' = Tasks[c.arg.id] /\ Links(scope', calls \ {c}, off, scope' # scope)
      /\ UNCHANGED <<entries, pos, own, off>>
  BY DEF publishProjectScope, routeVars
<1>2. linkSeq \in Nat /\ (\A d \in calls : CallShape(d)) /\ scope \in Halves /\ off \in SUBSET Slugs
  BY RouteTyped DEF Inv, Shapes
<1>3. c.kind \in BodyKinds /\ c.kind \notin RailKinds
  BY <1>1 DEF BodyKinds, RailKinds
<1>4. route.name = "task" /\ scope' \in Projects
  BY <1>1, <1>3, LiveRoute, RouteFacts DEF Sane
<1>5. /\ Numbered' /\ RailFollows' /\ linkSeq' \in Nat
      /\ \A d \in calls' \ (calls \ {c}) : d.kind \in RailKinds /\ CallShape(d)
  <2>1. CASE scope' # scope
    <3>1. Links(scope', calls \ {c}, off, TRUE)
      BY <1>1, <2>1
    <3>2. \A d \in calls \ {c} : CallShape(d) /\ (d.kind \in RailKinds => d.no <= linkSeq)
      BY <1>2 DEF Inv, Numbered, RailKinds
    <3> QED BY <1>1, <1>2, <1>4, <3>1, <3>2, RailMoves
  <2>2. CASE scope' = scope
    <3>1. calls' = calls \ {c} /\ UNCHANGED <<rows, areas, linksOf, linkSeq>>
      BY <1>1, <2>2 DEF Links, linkVars
    <3>2. {d \in calls' : d.kind \in RailKinds} = {d \in calls : d.kind \in RailKinds}
      BY <1>3, <3>1
    <3> QED BY <1>1, <2>2, <3>1, <3>2, RailAlone
  <2> QED BY <2>1, <2>2
<1>6. \A d \in calls' : CallShape(d)
  BY <1>2, <1>5
<1>7. {d \in calls' : d.kind \in BodyKinds} \subseteq calls \ {c}
  BY <1>5 DEF RailKinds, BodyKinds
<1>8. scope' \in Halves
  BY <1>4 DEF Halves
<1> QED BY <1>1, <1>3, <1>4, <1>5, <1>6, <1>7, <1>8, BodyDone

(* The first screen is built for a route that was just resolved.              *)
LEMMA InitInv == Sane /\ Init => Inv
<1> SUFFICES ASSUME Sane, Init PROVE Inv
  OBVIOUS
<1>1. PICK r \in {projects, Route("admin", 0, None)} \cup {q \in Routes : q.name \in {"project", "task"}} :
        /\ entries = <<r>> /\ pos = 1
        /\ body = [no |-> 1, of |-> r, view |-> IF firstRead(r) = {} THEN "ready" ELSE "loading"]
        /\ scope = IF r.name = "project" THEN r.id ELSE None
        /\ own = scope
        /\ rows = None /\ areas = None /\ off = {} /\ linkSeq = 1
        /\ calls = {Call(k, 1, r) : k \in firstRead(r)} \cup {Call("projects", 0, None)}
                   \cup IF scope = None THEN {} ELSE BothHalves(scope, 1, {})
  BY DEF Init
<1>2. r \in Routes /\ r.name # "screen"
  BY DEF Routes, projects, Route
<1>3. entries \in Seq(Routes) /\ pos \in DOMAIN entries /\ route = r
  <2> HIDE DEF Routes
  <2> QED BY <1>1, <1>2 DEF route
<1>4. scope \in Halves
  BY <1>1, <1>2, RouteFacts DEF Halves
<1>5. \A c \in calls : /\ CallShape(c) /\ c.no <= 1
                       /\ c.kind \in BodyKinds => c = Call(c.kind, 1, r) /\ c.kind \in firstRead(r)
                       /\ c.kind \in RailKinds => scope # None /\ c \in BothHalves(scope, 1, {})
  BY <1>1 DEF firstRead, Call, BothHalves, CallShape, BodyKinds, RailKinds
<1>6. Shapes
  <2>1. body \in [no : Nat, of : Routes, view : {"loading", "ready", "unknown"}]
    BY <1>1, <1>2
  <2> QED BY <1>1, <1>3, <1>4, <1>5, <2>1 DEF Shapes, CallShape
<1>7. OneRead
  <2>1. body.no = 1 /\ body.of = r /\ (firstRead(r) # {} => body.view = "loading")
    BY <1>1
  <2>2. \A j, k \in firstRead(r) : j = k
    BY DEF firstRead
  <2>3. \A c \in calls : c.kind \in BodyKinds => OfShown(c)
    BY <1>5, <2>1 DEF OfShown, Call, firstRead
  <2> QED BY <1>5, <2>1, <2>2, <2>3 DEF OneRead, Live
<1>8. Numbered
  BY <1>1, <1>5 DEF Numbered
<1>9. RailFollows
  <2> SUFFICES ASSUME scope # None PROVE RowsOfScope /\ AreasOfScope /\ Painted
    BY DEF RailFollows
  <2> DEFINE ra == Call("rows", 1, scope)
             aa == [Call("areas", 1, scope) EXCEPT !.read = {}]
  <2>1. BothHalves(scope, 1, {}) = {ra, aa} /\ {ra, aa} \subseteq calls
    BY <1>1 DEF BothHalves
  <2>2. /\ ra.kind = "rows" /\ ra.no = 1 /\ ra.arg = scope
        /\ aa.kind = "areas" /\ aa.no = 1 /\ aa.read = {}
    BY DEF Call
  <2> HIDE DEF ra, aa
  <2> QED BY <1>1, <1>5, <2>1, <2>2 DEF RowsOfScope, AreasOfScope, Painted, Current, RailKinds
<1>10. OwnOfRoute /\ ScopeOfRoute /\ OutletFollowsRoute
  BY <1>1, <1>2, <1>3 DEF OwnOfRoute, ScopeOfRoute, OutletFollowsRoute
<1> QED BY <1>6, <1>7, <1>8, <1>9, <1>10 DEF Inv

(* One case per action.                                                    *)
LEMMA NextInv == Sane /\ Inv /\ [Next]_vars => Inv'
<1> SUFFICES ASSUME Sane, Inv, [Next]_vars PROVE Inv'
  OBVIOUS
<1>1. ASSUME NEW c \in calls,
             \/ landRows(c) \/ (\E f \in BOOLEAN : landAreas(c, f)) \/ landProjects(c) \/ Dropped(c)
             \/ onScreenResolved(c) \/ landDefaultScreen(c) \/ publishProjectScope(c)
      PROVE  Inv'
  BY <1>1, RowsStep, AreasStep, ProjectsStep, DroppedStep, ResolvedStep, DefaultStep, PublishStep
<1>2. ASSUME NEW p \in Projects, pickProject(p) PROVE Inv'
  <2> DEFINE r == IF route.name = "screen" THEN screenUrl(p, route.slug) ELSE Route("project", p, None)
  <2>1. route \in Routes
    BY RouteTyped DEF Inv
  <2>2. r \in Routes
    BY <2>1 DEF Routes, screenUrl, Route, projects
  <2>3. navigate(r)
    BY <1>2 DEF pickProject
  <2> HIDE DEF r
  <2> QED BY <2>2, <2>3, NavigateStep
<1>3. ASSUME NEW s \in Slugs, goScreenSlug(s) PROVE Inv'
  <2>1. scope \in Projects
    BY <1>3 DEF goScreenSlug, Inv, Shapes, Halves
  <2>2. screenUrl(scope, s) \in Routes /\ navigate(screenUrl(scope, s))
    BY <1>3, <2>1, ScreenUrlRoute DEF goScreenSlug
  <2> QED BY <2>2, NavigateStep
<1>4. CASE UNCHANGED vars
  <2>1. /\ UNCHANGED <<entries, pos, body, scope, own, rows, areas, linksOf, linkSeq, off>>
        /\ calls' = calls
    BY <1>4 DEF vars
  <2>2. Numbered' /\ RailFollows'
    BY <2>1, RailStays DEF Inv
  <2>3. /\ linkSeq \in Nat /\ scope \in Halves /\ off \in SUBSET Slugs /\ \A c \in calls : CallShape(c)
    BY RouteTyped DEF Inv, Shapes
  <2> QED BY <2>1, <2>2, <2>3, PlaceStays
<1> QED BY <1>1, <1>2, <1>3, <1>4, NavigateStep, PopStateStep, AuthStep, RefreshStep DEF Next, Lands

(* With no half on its way both are there, and so are the links.              *)
LEMMA InvLinks == Inv => LinksOfScope
<1> SUFFICES ASSUME Inv, scope # None, \A c \in calls : c.kind \notin {"rows", "areas"} 
             PROVE  /\ linksOf = [of |-> scope, slugs |-> {Screens[scope][i] : i \in DOMAIN Screens[scope]} \ areas]
                    /\ areas \in {off, {}}
  BY DEF LinksOfScope
<1>1. RowsOfScope /\ AreasOfScope /\ Painted
  BY DEF Inv, RailFollows
<1>2. rows # None /\ areas # None
  BY <1>1 DEF RowsOfScope, AreasOfScope
<1> QED BY <1>1, <1>2 DEF AreasOfScope, Painted

(* Only a redirect changes the history without a move.                       *)
LEMMA MovesStep == moves \in Nat /\ [Next]_vars =>
    moves' \in Nat /\ (entries' # entries /\ moves' = moves => \E c \in calls : landDefaultScreen(c))
<1> SUFFICES ASSUME moves \in Nat, [Next]_vars
             PROVE  moves' \in Nat /\ (entries' # entries /\ moves' = moves => \E c \in calls : landDefaultScreen(c))
  OBVIOUS
<1>1. ASSUME NEW r, navigate(r) PROVE moves' = moves + 1
  BY <1>1 DEF navigate
<1>2. ASSUME NEW d, onPopState(d) PROVE moves' = moves + 1
  BY <1>2 DEF onPopState
<1>3. ASSUME NEW c \in calls, landDefaultScreen(c) PROVE moves' = moves
  BY <1>3 DEF landDefaultScreen, bounds
<1>4. ASSUME NEW c \in calls,
             \/ landRows(c) \/ (\E f \in BOOLEAN : landAreas(c, f)) \/ landProjects(c) \/ Dropped(c)
             \/ onScreenResolved(c) \/ publishProjectScope(c)
      PROVE  moves' = moves /\ entries' = entries
  BY <1>4 DEF landRows, landAreas, landProjects, Dropped, onScreenResolved, publishProjectScope, bounds, routeVars
<1>5. ASSUME (\E k \in Users : loadAuthUser(k)) \/ (\E a \in SUBSET Slugs : navRefresh(a)) \/ UNCHANGED vars
      PROVE  moves' = moves /\ entries' = entries
  BY <1>5 DEF loadAuthUser, navRefresh, vars, bounds, routeVars
<1> QED BY <1>1, <1>2, <1>3, <1>4, <1>5 DEF Next, Lands, pickProject, goScreenSlug

(* What redirects is an answer the body waits for.                         *)
LEMMA RedirectStep == Inv /\ moves \in Nat /\ [Next]_vars => RedirectStaysStep
<1> SUFFICES ASSUME Inv, moves \in Nat, [Next]_vars, entries' # entries, moves' = moves
             PROVE  body.of = route /\ body.view = "loading"
  BY DEF RedirectStaysStep
<1>1. PICK c \in calls : landDefaultScreen(c)
  BY MovesStep
<1>2. c.kind \in BodyKinds /\ Live(c)
  BY <1>1 DEF landDefaultScreen, BodyKinds
<1> QED BY <1>2, LiveRoute

(* While a project's screen is shown, that project is in scope, whatever the    *)
(* project list or a task's page answers late (shell.ts setScope).             *)
THEOREM ScopeFollowsRoute == Sane => (Spec => []ScopeOfRoute)
<1> SUFFICES ASSUME Sane PROVE Spec => []ScopeOfRoute
  OBVIOUS
<1>1. Init => Inv
  BY InitInv
<1>2. Inv /\ [Next]_vars => Inv'
  BY NextInv
<1>3. Inv => ScopeOfRoute
  BY DEF Inv
<1> QED BY <1>1, <1>2, <1>3, PTL DEF Spec

(* Once no half of them is on its way, the rail's links are the screens of the  *)
(* project in scope, less those of an area read as off (paintScopeLinks).      *)
THEOREM LinksFollowScope == Sane => (Spec => []LinksOfScope)
<1> SUFFICES ASSUME Sane PROVE Spec => []LinksOfScope
  OBVIOUS
<1>1. Init => Inv
  BY InitInv
<1>2. Inv /\ [Next]_vars => Inv'
  BY NextInv
<1> QED BY <1>1, <1>2, InvLinks, PTL DEF Spec

(* The outlet's key is the route's: the body is rebuilt exactly when it has to  *)
(* be (app-shell.ts outletKey), after any moves, redirects and late answers.   *)
THEOREM OutletTrue == Sane => (Spec => []OutletFollowsRoute)
<1> SUFFICES ASSUME Sane PROVE Spec => []OutletFollowsRoute
  OBVIOUS
<1>1. Init => Inv
  BY InitInv
<1>2. Inv /\ [Next]_vars => Inv'
  BY NextInv
<1>3. Inv => OutletFollowsRoute
  BY DEF Inv
<1> QED BY <1>1, <1>2, <1>3, PTL DEF Spec

(* Only the page that is shown, and while it loads, may move the route by       *)
(* itself: a page that was left redirects nobody.                            *)
THEOREM RedirectsOnlyShown == Sane => (Spec => RedirectStays)
<1> SUFFICES ASSUME Sane PROVE Spec => RedirectStays
  OBVIOUS
<1>0. Init => moves \in Nat
  BY SMT DEF Init
<1>1. Init => Inv /\ moves \in Nat
  BY <1>0, InitInv
<1>2. Inv /\ moves \in Nat /\ [Next]_vars => Inv' /\ moves' \in Nat /\ RedirectStaysStep
  BY NextInv, MovesStep, RedirectStep
<1>3. Inv /\ moves \in Nat /\ [Next]_vars => Inv' /\ (moves \in Nat)' /\ [RedirectStaysStep]_vars
  BY <1>2
<1> QED BY <1>1, <1>3, PTL DEF Spec, RedirectStays
=============================================================================

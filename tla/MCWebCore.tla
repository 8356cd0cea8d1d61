----------------------------- MODULE MCWebCore ------------------------------
(* An instance for TLC of what every page of the web client runs on: its calls, its   *)
(* signals, its shell, its filter bar, its overlays and its controls. They are       *)
(* checked side by side, one of them a behaviour: part says which, and the slots     *)
(* s1, s2, ... are its variables.                                                    *)
EXTENDS Integers, SequencesExt

CONSTANTS
    Parts, \* the parts a behaviour may be of
    None,
    Controls, Scopes, MaxCalls,                       \* of the data layer
    Sources, Effects, Values, Derive(_), Reads(_, _), \* of the signals
    Writes(_, _), Batched, MaxPasses, MaxSets,
    Projects, Slugs, Screens, Tasks, Mine, Users,     \* of the shell
    MaxMoves, MaxOpen, MaxChanges,
    Queries, Blank, Hits(_),                          \* of the picker
    Keys, RowHeight, Overscan, MaxRows, MaxHeight,    \* of the keyboard, the lists,
    Firsts, Week, MaxAsked,                           \* the date picker and the help
    sig1, sig2, e1, e2, e3                            \* the signals and effects of the run

VARIABLES
    part,
    s1, s2, s3, s4, s5, s6, s7, s8, s9, s10, s11, s12, s13, s14, s15, s16, s17, s18,
    s19, s20, s21, s22, s23

\* The signals: e1 copies sig1 to sig2 in a batch, e2 flips sig1 while the computed wants it,
\* e3 reads sig2 only while sig1 is set, and clears sig1.
Derived(v) == v[sig1] + v[sig2]
Read(e, v) ==
    CASE e = e1 -> {sig1} [] e = e2 -> {sig1, "computed"} [] OTHER -> IF v[sig1] = 0 THEN {sig1} ELSE {sig1, sig2}
Written(e, v) ==
    CASE e = e1 -> [v EXCEPT ![sig2] = v[sig1]]
      [] e = e2 /\ v[sig1] \in {2, 3} -> [v EXCEPT ![sig1] = 5 - v[sig1]]
      [] e = e3 /\ v[sig2] = 2 /\ v[sig1] # 0 -> [v EXCEPT ![sig1] = 0]
      [] OTHER -> v

\* The shell: a project with a screen and one with none, a task of the second.
OneEmpty == <<<<"k">>, <<>>>>
InSecond == [t \in {7} |-> 2]

\* The filter bar: four cards, a named filter, a screen with phases and one without.
Of(attr, op, vals) == [kind |-> "leaf", attr |-> attr, op |-> op, vals |-> vals, kids |-> <<>>]
FilterCards ==
    {[id |-> i, assignee |-> IF i \in {1, 3} THEN "x" ELSE "y", phase |-> <<"triage", "active", "terminal", "terminal">>[i],
      title |-> i \in {2, 3}, body |-> i = 4] : i \in 1..4}
Named == [s \in {5} |-> {"x"}]
FilterScreens ==
    <<[values |-> {"x"}, base |-> {"active"}, toggles |-> TRUE, required |-> TRUE, preset |-> 7, group |-> "",
       pred |-> [kind |-> "or", attr |-> "", op |-> "", vals |-> {},
                 kids |-> <<Of("assignee", "in", {"x"}), Of("phase", "hasPhase", {"active"})>>]],
      [values |-> {"y"}, base |-> {}, toggles |-> FALSE, required |-> FALSE, preset |-> None, group |-> "", pred |-> None]>>

\* The picker's server; months of 4, 2, 3 and 4 days in weeks of 3; the keys of the shell, the page's body and its two layouts.
HitsOf(q) == IF q = "" THEN <<"x", "y">> ELSE IF q = "a" THEN <<"x">> ELSE <<"y">>
MonthsOf == <<1, 5, 7, 10, 14>>
Bound == <<{<<"n">>, <<"g", "p">>}, {<<"/">>}, {<<"j">>, <<"x">>}, {<<"j">>, <<"n">>, <<"p">>}>>

\* Where a part has proofs, its instance is of the module that holds them.
Data == INSTANCE WebDataProofs WITH
    Overlap <- FALSE, life <- s1,
    scope <- s2, woken <- s3, calls <- s4, queue <- s5, scheduled <- s6, posts <- s7,
    inFlight <- s8, leaf <- s9, db <- s10
Signal == INSTANCE Signals WITH
    val <- s1, cached <- s2, dirty <- s3, deps <- s4, seen <- s5, pending <- s6,
    frames <- s7, micro <- s8, disposed <- s9, threw <- s10, sets <- s11
Rail == INSTANCE ShellProofs WITH
    entries <- s1,
    pos <- s2, body <- s3, scope <- s4, own <- s5, rows <- s6, areas <- s7,
    linksOf <- s8, user <- s9, calls <- s10, linkSeq <- s11, moves <- s12,
    changes <- s13, off <- s14
Filter == INSTANCE Filters WITH
    Cards <- FilterCards, Snippets <- Named, Screens <- FilterScreens, Scope <- {"x"},
    MaxEdits <- 3, MaxSaves <- 1, at <- s1, predicate <- s2, group <- s3, search <- s4,
    fields <- s5, active <- s6, session <- s7, stored <- s8, filters <- s9,
    shownDefault <- s10, saving <- s11, edits <- s12, saves <- s13, views <- s14,
    defaults <- s15
Overlay == INSTANCE Overlays WITH
    dialog <- s1, draft <- s2, labels <- s3, highlight <- s4, atOpen <- s5, menu <- s6, query <- s7, timer <- s8,
    current <- s9, late <- s10, options <- s11, failed <- s12, saved <- s13
Widget == INSTANCE Widgets WITH
    MaxCalls <- MaxAsked, Patient <- TRUE, panel <- s1,
    body <- s2, layout <- s3, active <- s4, prefix <- s5, ran <- s6, total <- s7,
    scrollTop <- s8, height <- s9, pool <- s10, win <- s11, events <- s12, value <- s13,
    cursor <- s14, grid <- s15, row <- s16, stored <- s17, saves <- s18, topic <- s19,
    help <- s20, content <- s21, calls <- s22, asked <- s23

-----------------------------------------------------------------------------
(* After(k), Off(k): the slots past the k-th, which a part with k variables leaves alone.  *)
After22 == <<s23>>
Off22 == s23 = 0
After21 == <<s22, After22>>
Off21 == s22 = 0 /\ Off22
After20 == <<s21, After21>>
Off20 == s21 = 0 /\ Off21
After19 == <<s20, After20>>
Off19 == s20 = 0 /\ Off20
After18 == <<s19, After19>>
Off18 == s19 = 0 /\ Off19
After17 == <<s18, After18>>
Off17 == s18 = 0 /\ Off18
After16 == <<s17, After17>>
Off16 == s17 = 0 /\ Off17
After15 == <<s16, After16>>
Off15 == s16 = 0 /\ Off16
After14 == <<s15, After15>>
Off14 == s15 = 0 /\ Off15
After13 == <<s14, After14>>
Off13 == s14 = 0 /\ Off14
After12 == <<s13, After13>>
Off12 == s13 = 0 /\ Off13
After11 == <<s12, After12>>
Off11 == s12 = 0 /\ Off12
After10 == <<s11, After11>>
Off10 == s11 = 0 /\ Off11

Init ==
    /\ part \in Parts
    /\ part = "data" => Data!Init /\ Off10
    /\ part = "signals" => Signal!Init /\ Off11
    /\ part = "shell" => Rail!Init /\ Off14
    /\ part = "filters" => Filter!Init /\ Off15
    /\ part = "overlays" => Overlay!Init /\ Off13
    /\ part = "widgets" => Widget!Init
DataNext == part = "data" /\ Data!Next /\ UNCHANGED <<part, After10>>
SignalNext == part = "signals" /\ Signal!Next /\ UNCHANGED <<part, After11>>
RailNext == part = "shell" /\ Rail!Next /\ UNCHANGED <<part, After14>>
FilterNext == part = "filters" /\ Filter!Next /\ UNCHANGED <<part, After15>>
OverlayNext == part = "overlays" /\ Overlay!Next /\ UNCHANGED <<part, After13>>
WidgetNext == part = "widgets" /\ Widget!Next /\ UNCHANGED part

Next ==
    \/ DataNext \/ SignalNext \/ RailNext \/ FilterNext \/ OverlayNext \/ WidgetNext
vars == <<part, s1, s2, s3, s4, s5, s6, s7, s8, s9, s10,
          s11, s12, s13, s14, s15, s16, s17, s18, s19, s20, s21, s22, s23>>
Spec == Init /\ [][Next]_vars

\* The runtime runs what is queued and every POST ends; a flush goes on; answers land.
dataVars == Data!vars
signalVars == Signal!vars
railVars == Rail!vars
Fairness ==
    /\ WF_dataVars(part = "data" /\ Data!flush) /\ WF_dataVars(part = "data" /\ Data!RunEffects)
    /\ WF_dataVars(part = "data" /\ Data!Answers) /\ WF_dataVars(part = "data" /\ Data!Settles)
    /\ WF_signalVars(part = "signals" /\ Signal!flush) /\ WF_signalVars(part = "signals" /\ Signal!RunNext)
    /\ WF_signalVars(part = "signals" /\ Signal!EndPass)
    /\ WF_railVars(part = "shell" /\ Rail!Lands)
FairSpec == Spec /\ Fairness

-----------------------------------------------------------------------------
(* The types of each part.                                                            *)
TypeOK ==
    /\ part = "data" => Data!TypeOK
    /\ part = "signals" => Signal!TypeOK
    /\ part = "shell" => Rail!TypeOK
    /\ part = "filters" => Filter!TypeOK
    /\ part = "overlays" => Overlay!TypeOK
    /\ part = "widgets" => Widget!TypeOK

(* A write answered with success was run by the server, and one that failed is not       *)
(* shown, whatever reads land in between (core/dispatch.ts dedup, core/data.ts).        *)
WritesTrue == part = "data" => Data!WritesRun /\ Data!RollsBack

(* The count behind the loading indicator is the number of calls without an answer,    *)
(* each in the queue or in one POST (core/dispatch.ts).                               *)
InFlightExact == part = "data" => Data!InFlightExact

(* With nothing left to run, every effect has seen what its sources hold               *)
(* (core/signal.ts).                                                                 *)
UpToDate == part = "signals" => Signal!UpToDate

(* The project in scope, the links of the rail and the page in the outlet are those    *)
(* of the address, whatever answers come late (shell/app-shell.ts).                    *)
ShellFollows ==
    part = "shell" => Rail!ScopeOfRoute /\ Rail!LinksOfScope /\ Rail!OutletFollowsRoute

(* The query sent asks for what the filter, the search and the scope describe, the     *)
(* chips say no more than it does, and each screen shows its own filter and views      *)
(* (filter/predicate.ts, shell/screen-filter-bar.ts).                                  *)
FilterTrue ==
    part = "filters" => Filter!QueryMeans /\ Filter!ChipsTrue /\ Filter!OwnView /\ Filter!ViewsListed

(* A picker lists the hits of its own text, a list has a row for every row in view, a  *)
(* date picker the days of its month, a help text is of its page, and a field shows    *)
(* the stored value (ui/, core/virtual-list.ts, shell/help-overlay.ts).                *)
ControlsTrue ==
    /\ part = "overlays" => Overlay!ListMatches
    /\ part = "widgets" => Widget!ListCovers /\ Widget!GridWhole /\ Widget!HelpOwn /\ Widget!FieldTrue

(* No answer for destroyed controls changes the tree; only the page that is shown       *)
(* moves the route by itself; what was entered in a dialog is dropped only by its       *)
(* prompt's Discard; a key runs a handler of a control on the page, the deepest        *)
(* (core/dispatch.ts, shell/screen-host.ts, ui/dismiss-guard.ts, core/hotkeys.ts).      *)
OwnSteps ==
    [][/\ part = "data" => Data!DeadStayDeadStep
       /\ part = "shell" => Rail!RedirectStaysStep
       /\ part = "overlays" => Overlay!DraftGuardedStep
       /\ part = "widgets" => Widget!KeysLiveStep]_vars

(* Whoever waits for an answer gets one or is told of a fault, a flush of the signals   *)
(* ends, and every page comes to show something.                                      *)
AllSettle ==
    /\ \A i \in Data!Ids : (part = "data" /\ Data!Waits(i)) ~> (part = "data" => ~Data!Waits(i))
    /\ (part = "signals" /\ Signal!Flushing) ~> (part = "signals" => ~Signal!Flushing)
    /\ (part = "shell" /\ Rail!Loading) ~> (part = "shell" => ~Rail!Loading)
=============================================================================

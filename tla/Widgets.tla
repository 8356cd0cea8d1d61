------------------------------ MODULE Widgets ------------------------------
(***************************************************************************)
(* Five parts of the page every screen uses: the keyboard (core/hotkeys.ts, as    *)
(* main.ts wires it), the recycling list (core/virtual-list.ts), the date picker    *)
(* (ui/datepicker.ts), a row of an attribute with its editor (ui/attribute-row.ts,      *)
(* ui/field-editor.ts) and the help overlay (shell/help-overlay.ts). Each behaviour     *)
(* follows one of them (panel).                                                   *)
(***************************************************************************)
EXTENDS Integers, SequencesExt

CONSTANTS
    Keys,      \* the keys a control binds, each a sequence of one or two presses
    RowHeight, Overscan, MaxRows, MaxHeight, \* of the list; the bounds of its rows and viewport
    Firsts, Week, \* the first day of each month and the day after the last, the days of a week
    MaxCalls,  \* bound: help texts asked
    Patient    \* whether the user waits for a help text, and a layout is swapped by a click on the page

VARIABLES
    panel,
    body, layout, active, prefix, ran, \* the keyboard
    total, scrollTop, height, pool, win, events, \* the list
    value, cursor, grid, \* the date picker; grid the first day shown, 0 when closed
    row, stored, saves, \* the attribute's row, the server's value, the writes in flight
    topic, help, content, calls, asked \* the help overlay

keyVars == <<body, layout, active, prefix, ran>>
listVars == <<total, scrollTop, height, pool, win, events>>
dateVars == <<value, cursor, grid>>
fieldVars == <<row, stored, saves>>
helpVars == <<topic, help, content, calls, asked>>
vars == <<panel, keyVars, listVars, dateVars, fieldVars, helpVars>>

Least(a, b) == IF a < b THEN a ELSE b
Most(a, b) == IF a > b THEN a ELSE b

-----------------------------------------------------------------------------
(* core/hotkeys.ts. Control 1 is the shell, 2 a screen's body, 3 and 4 the two    *)
(* layouts the body may hold.                                                  *)
Shell == 1
Body == 2
depthOf(c) == CASE c = Shell -> 0 [] c = Body -> 1 [] OTHER -> 2
chainToRoot(c) == {x \in {Shell, Body, c} : x = c \/ depthOf(x) < depthOf(c)}
walkSubtree == IF body THEN {Body, layout} ELSE {}
Mounted == {Shell} \cup walkSubtree
Keyboard == panel = "keys" /\ UNCHANGED <<panel, listVars, dateVars, fieldVars, helpVars>>

(* The map of the keys: the deepest control binds a key, and of two as deep the    *)
(* one of the screen, walked last.                                              *)
Binders(k) == {c \in {Shell} \cup chainToRoot(active) \cup walkSubtree : k \in Keys[c]}
deriveBindings(k) ==
    {c \in Binders(k) : \A d \in Binders(k) \ {c} :
        depthOf(c) > depthOf(d) \/ (depthOf(c) = depthOf(d) /\ c \in walkSubtree)}
isChordPrefix(k) == \E c \in {Shell} \cup chainToRoot(active) \cup walkSubtree : \E t \in Keys[c] : Len(t) = 2 /\ t[1] = k
Run(k) == ran' \in {[key |-> k, by |-> c] : c \in deriveBindings(k)}

(* A key pressed: a pending chord first; failing that a prefix begins one, unless   *)
(* it is bound alone. No key fires in an input field.                            *)
onKeydown(k, isEditable) ==
    LET chord == prefix \o <<k>>
        whole == prefix # <<>> /\ deriveBindings(chord) # {} /\ ~isEditable
        direct == deriveBindings(<<k>>) # {} IN
    /\ Keyboard /\ UNCHANGED <<body, layout, active>>
    /\ prefix' = IF ~whole /\ ~direct /\ ~isEditable /\ isChordPrefix(k) THEN <<k>> ELSE <<>>
    /\ IF whole THEN Run(chord) ELSE IF direct /\ ~isEditable THEN Run(<<k>>) ELSE UNCHANGED ran
clearChord == Keyboard /\ prefix # <<>> /\ prefix' = <<>> /\ UNCHANGED <<body, layout, active, ran>>
trackActive(c) == Keyboard /\ c \in Mounted /\ active' = c /\ active # c /\ UNCHANGED <<body, layout, prefix, ran>>
onBodyMount == \* a route's body, with either layout
    /\ Keyboard /\ body' = TRUE /\ layout' \in {3, 4} /\ active' = Body /\ UNCHANGED <<prefix, ran>>
dispatchBody == \* the body's screen has the other layout: the old one is destroyed
    /\ Keyboard /\ body /\ (Patient => active = Body) /\ layout' = 7 - layout /\ UNCHANGED <<body, active, prefix, ran>>

-----------------------------------------------------------------------------
(* core/virtual-list.ts                                                       *)
Ceil(a, b) == (a + b - 1) \div b
(* A mutant of wantRows: rows to spare on one side only.                         *)
wantRowsAbove(h) == Ceil(h, RowHeight) + Overscan
wantRows(h) == Ceil(h, RowHeight) + 2 * Overscan
computeWindow(top, h, n) ==
    LET clamped == Least(Most(top, 0), Most(0, n * RowHeight - h))
        first == Most(0, Least(clamped \div RowHeight - Overscan, n - 1))
    IN IF n = 0 THEN [first |-> 0, count |-> 0] ELSE [first |-> first, count |-> Most(0, Least(wantRows(h), n - first))]
poolSize(h) == Ceil(h, RowHeight) + 2 * Overscan + 1
List == panel = "list" /\ UNCHANGED <<panel, keyVars, dateVars, fieldVars, helpVars>>
render(least) == \* every row of the window is written again: the list has no key
    /\ win' = computeWindow(scrollTop', height', total')
    /\ pool' = Most(Most(pool, least), win'.count)
ScrollEnd(h, n) == Most(0, n * RowHeight - h)
(* The rows change; the browser holds the scroll inside the new spacer, and says    *)
(* so with an event of its own.                                                *)
setData(n) ==
    /\ List /\ n # total /\ total' = n /\ UNCHANGED height
    /\ win' = computeWindow(scrollTop, height, n) /\ pool' = Most(pool, win'.count)
    /\ scrollTop' = Least(scrollTop, ScrollEnd(height, n))
    /\ events' = IF scrollTop' # scrollTop THEN events \cup {"scroll"} ELSE events
scroll(top) ==
    /\ List /\ top <= ScrollEnd(height, total) /\ top # scrollTop /\ scrollTop' = top
    /\ events' = events \cup {"scroll"} /\ UNCHANGED <<total, height, pool, win>>
resize(h) ==
    /\ List /\ h # height /\ height' = h /\ scrollTop' = Least(scrollTop, ScrollEnd(h, total))
    /\ events' = events \cup {"resize"} /\ UNCHANGED <<total, pool, win>>
onScroll == List /\ "scroll" \in events /\ events' = events \ {"scroll"} /\ UNCHANGED <<total, scrollTop, height>> /\ render(0)
onResize == List /\ "resize" \in events /\ events' = events \ {"resize"} /\ UNCHANGED <<total, scrollTop, height>> /\ render(poolSize(height))

-----------------------------------------------------------------------------
(* ui/datepicker.ts. Day d counts from the first of month 1, the first of a week.   *)
Months == 1..Len(Firsts) - 1
Days == 1..Firsts[Len(Firsts)] - 1
MonthOf(d) == CHOOSE m \in Months : Firsts[m] <= d /\ d < Firsts[m + 1]
getDay(d) == (d - 1) % Week
monthGrid(d) == Firsts[MonthOf(d)] - getDay(Firsts[MonthOf(d)])
isMenuOpen == grid > 0 - Week
Shut == 0 - Week
Dates == panel = "dates" /\ UNCHANGED <<panel, keyVars, listVars, fieldVars, helpVars>>
openMenu == \* at the value, or today
    /\ Dates /\ ~isMenuOpen /\ cursor' \in IF value # 0 THEN {value} ELSE Days
    /\ grid' = monthGrid(cursor') /\ UNCHANGED value
closeDates == Dates /\ isMenuOpen /\ grid' = Shut /\ UNCHANGED <<value, cursor>>
Move(d) == Dates /\ isMenuOpen /\ d \in Days /\ cursor' = d /\ grid' = monthGrid(d) /\ UNCHANGED value
moveCursor(delta) == Move(cursor + delta)
weekEdge(last) == Move(cursor - getDay(cursor) + last * (Week - 1))
(* JavaScript's setMonth: the same day number, counted on past the month's end.     *)
Shifted(m) == Firsts[m] + cursor - Firsts[MonthOf(cursor)]
moveMonth(delta) == MonthOf(cursor) + delta \in Months /\ Move(Shifted(MonthOf(cursor) + delta))
pick(d) == Dates /\ isMenuOpen /\ d \in Days /\ value' = d /\ grid' = Shut /\ cursor' \in {cursor, d}
clear == Dates /\ isMenuOpen /\ value' = 0 /\ grid' = Shut /\ UNCHANGED cursor

-----------------------------------------------------------------------------
(* ui/attribute-row.ts and the editor in it, ui/field-editor.ts, of one attribute of a   *)
(* task (task-detail.ts commitAttribute). Values are 0, none, and 1 and 2; input 3 is    *)
(* not a number. The editor starts from the value when the row is first opened, and    *)
(* keeps its own text from then on.                                              *)
NotANumber == 3
hasMeaningfulValue == row.value # 0
Field == panel = "field" /\ UNCHANGED <<panel, keyVars, listVars, dateVars, helpVars>>
commitAttribute(v, r) ==
    /\ Cardinality(saves) < 2 /\ (Patient => saves = {})
    /\ row' = [r EXCEPT !.value = v, !.state = "pending"] /\ UNCHANGED stored
    /\ saves' = saves \cup {[n |-> IF \E s \in saves : s.n = 1 THEN 2 ELSE 1, value |-> v, prev |-> row.value, done |-> FALSE]}
renderNumber(r) == \* Enter's and blur's commit; what is not a number is kept to itself
    IF row.input = NotANumber THEN row' = r /\ UNCHANGED <<stored, saves>> ELSE commitAttribute(row.input, r)
renderText(r) == IF row.kind = "number" THEN renderNumber(r) ELSE commitAttribute(row.input, r)
mountFieldEditor ==
    /\ Field /\ ~row.opened /\ ~row.mounted /\ UNCHANGED <<stored, saves>>
    /\ row' = [row EXCEPT !.opened = TRUE, !.mounted = TRUE, !.input = row.value, !.focused = row.kind # "bool"]
toggleRow == Field /\ row.mounted /\ ~row.focused /\ row' = [row EXCEPT !.opened = ~row.opened] /\ UNCHANGED <<stored, saves>>
focusField == Field /\ row.opened /\ ~row.focused /\ row.kind # "bool" /\ row' = [row EXCEPT !.focused = TRUE] /\ UNCHANGED <<stored, saves>>
typeField(v) ==
    /\ Field /\ row.focused /\ v # row.input /\ (v = NotANumber => row.kind = "number")
    /\ row' = [row EXCEPT !.input = v, !.cleared = FALSE] /\ UNCHANGED <<stored, saves>>
enterField == Field /\ row.focused /\ renderText(row)
blurField == Field /\ row.focused /\ renderText([row EXCEPT !.focused = FALSE])
renderBool == Field /\ row.opened /\ row.kind = "bool" /\ commitAttribute(1 - row.input, [row EXCEPT !.input = 1 - row.input])
unassign == \* a click on it first takes the focus from the field, whose commit disables it
    /\ Field /\ row.opened /\ ~row.focused /\ row.kind # "bool" /\ row.state = "value" /\ hasMeaningfulValue
    /\ commitAttribute(0, [row EXCEPT !.cleared = TRUE])
serveSave(s) == Field /\ s \in saves /\ ~s.done /\ stored' = s.value /\ saves' = (saves \ {s}) \cup {[s EXCEPT !.done = TRUE]} /\ UNCHANGED row
confirmCommit(s) ==
    /\ Field /\ s \in saves /\ s.done /\ saves' = saves \ {s} /\ UNCHANGED stored
    /\ row' = IF row.state = "pending" THEN [row EXCEPT !.state = IF hasMeaningfulValue THEN "value" ELSE "unset"] ELSE row
rejectCommit(s) ==
    /\ Field /\ s \in saves /\ ~s.done /\ saves' = saves \ {s} /\ UNCHANGED stored
    /\ row' = [row EXCEPT !.value = s.prev, !.state = "error", !.cleared = FALSE]

-----------------------------------------------------------------------------
(* shell/help-overlay.ts. A topic's text is the topic; topic 0 is none.           *)
NoHelp == [opened |-> FALSE, instructions |-> FALSE]
Help == panel = "help" /\ UNCHANGED <<panel, keyVars, listVars, dateVars, fieldVars>>
Quiet == Patient => calls = {}
applyMode(want) ==
    /\ help' = [opened |-> TRUE, instructions |-> want]
    /\ IF want /\ topic # 0
       THEN asked < MaxCalls /\ asked' = asked + 1 /\ calls' = calls \cup {[n |-> asked, topic |-> topic]} /\ UNCHANGED content
       ELSE content' = 0 /\ UNCHANGED <<calls, asked>>
toggle(want) ==
    /\ Help /\ Quiet /\ UNCHANGED topic
    /\ IF help.opened /\ help.instructions = want THEN help' = [help EXCEPT !.opened = FALSE] /\ UNCHANGED <<content, calls, asked>>
       ELSE applyMode(want)
closeHelp == Help /\ Quiet /\ help.opened /\ help' = [help EXCEPT !.opened = FALSE] /\ UNCHANGED <<topic, content, calls, asked>>
changeRoute(t) == Help /\ topic # t /\ (Patient => ~help.opened) /\ topic' = t /\ UNCHANGED <<help, content, calls, asked>>
landHelp(c) == \* an empty text only hides what is shown
    /\ Help /\ c \in calls /\ calls' = calls \ {c} /\ UNCHANGED <<topic, help, asked>>
    /\ IF help.opened THEN content' \in {0, c.topic} ELSE UNCHANGED content
failHelp(c) == Help /\ c \in calls /\ calls' = calls \ {c} /\ content' = 0 /\ UNCHANGED <<topic, help, asked>>

-----------------------------------------------------------------------------
Init ==
    /\ panel \in {"keys", "list", "dates", "field", "help"}
    /\ body = FALSE /\ layout = 3 /\ active = Shell /\ prefix = <<>> /\ ran = [key |-> <<>>, by |-> Shell]
    /\ total = 0 /\ scrollTop = 0 /\ height = 0 /\ pool = poolSize(0) /\ win = computeWindow(0, 0, 0)
    /\ events = IF panel = "list" THEN {"resize"} ELSE {}
    /\ value \in IF panel = "dates" THEN {0} \cup Days ELSE {0}
    /\ cursor = 1 /\ grid = Shut
    /\ stored \in IF panel = "field" THEN {0, 1} ELSE {0}
    /\ row \in [kind : IF panel = "field" THEN {"text", "number", "bool"} ELSE {"text"}, opened : {FALSE}, mounted : {FALSE}, focused : {FALSE},
                input : {0}, value : {stored}, state : {IF stored = 0 THEN "unset" ELSE "value"}, cleared : {FALSE}]
    /\ saves = {}
    /\ topic = 0 /\ help = NoHelp /\ content = 0 /\ calls = {} /\ asked = 0

Presses == UNION {ToSet(k) : k \in UNION {Keys[c] : c \in DOMAIN Keys}}
KeysNext ==
    \/ \E k \in Presses, e \in BOOLEAN : onKeydown(k, e)
    \/ \E c \in 1..4 : trackActive(c)
    \/ clearChord \/ onBodyMount \/ dispatchBody
ListNext ==
    \/ \E n \in 0..MaxRows : setData(n)
    \/ \E t \in 0..MaxRows * RowHeight : scroll(t)
    \/ \E h \in 0..MaxHeight : resize(h)
    \/ onScroll \/ onResize
DatesNext ==
    \/ openMenu \/ closeDates \/ clear
    \/ \E d \in {0 - Week, -1, 1, Week} : moveCursor(d)
    \/ \E i \in {0, 1} : weekEdge(i)
    \/ \E i \in {-1, 1} : moveMonth(i)
    \/ \E d \in Days : pick(d)
FieldNext ==
    \/ mountFieldEditor \/ toggleRow \/ focusField \/ enterField \/ blurField \/ renderBool \/ unassign
    \/ \E v \in 0..NotANumber : typeField(v)
    \/ \E s \in saves : serveSave(s) \/ confirmCommit(s) \/ rejectCommit(s)
HelpNext ==
    \/ \E w \in BOOLEAN : toggle(w)
    \/ closeHelp
    \/ \E t \in 0..2 : changeRoute(t)
    \/ \E c \in calls : landHelp(c) \/ failHelp(c)
Next == KeysNext \/ ListNext \/ DatesNext \/ FieldNext \/ HelpNext

Spec == Init /\ [][Next]_vars

-----------------------------------------------------------------------------
(* The types: the controls, the pool and the window, the days, the help shown.    *)
TypeOK ==
    /\ layout \in {3, 4} /\ active \in 1..4 /\ Len(prefix) <= 1 /\ ran.by \in 1..4
    /\ total \in 0..MaxRows /\ height \in 0..MaxHeight /\ scrollTop \in 0..ScrollEnd(height, total)
    /\ win.count \in 0..pool /\ events \subseteq {"scroll", "resize"}
    /\ value \in {0} \cup Days /\ cursor \in Days
    /\ row.input \in 0..NotANumber /\ row.value \in 0..NotANumber /\ stored \in 0..NotANumber /\ (row.focused => row.mounted)
    /\ topic \in 0..2 /\ content \in 0..2

(* A key runs a handler of a control on the page, the deepest that binds it: never  *)
(* one of a layout already destroyed (hotkeys.ts deriveBindings, main.ts).         *)
KeysLiveStep ==
    ran' # ran => /\ ran'.by \in Mounted
                     /\ \A c \in Mounted : ran'.key \in Keys[c] => depthOf(c) <= depthOf(ran'.by)
KeysLive == [][KeysLiveStep]_vars

(* With its events handled the list has a row for every row in view, to the last     *)
(* partly visible one, after any run of scrolls, resizes and data shorter than the   *)
(* scroll; and its pool never grows with the rows (virtual-list.ts computeWindow).    *)
ListCovers ==
    /\ events = {} => \A i \in 0..total - 1 :
          (i + 1) * RowHeight > scrollTop /\ i * RowHeight < scrollTop + height => win.first <= i /\ i < win.first + win.count
    /\ win.first + win.count <= total
    /\ pool <= poolSize(MaxHeight)

(* The grid shown has the cursor and every day of its month (datepicker.ts           *)
(* monthGrid).                                                                  *)
GridWhole ==
    isMenuOpen => \A d \in Days : d = cursor \/ MonthOf(d) = MonthOf(cursor) => grid <= d /\ d < grid + 6 * Week

(* Every text of help on screen is of the page's own topic and asked for: none        *)
(* beside the plain list of keys (help-overlay.ts loadHelp).                       *)
HelpOwn == help.opened /\ calls = {} => content \in IF help.instructions THEN {0, topic} ELSE {0}

(* With no write in flight the row shows the server's value, whatever was refused      *)
(* (attribute-row.ts, panel-model.ts rejectCommit).                                *)
FieldTrue == saves = {} => row.value = stored

(* A value cleared with Unassign, whose button reads "Clear <label> on this task",       *)
(* stays cleared until another is typed (attribute-row.ts).                          *)
UnassignHolds == row.cleared => row.value = 0

(* "PageUp/Down move a month" (datepicker.ts).                                     *)
OneMonth ==
    \A i \in {-1, 1} : moveMonth(i) => MonthOf(cursor') = MonthOf(cursor) + i
MonthStep == [][OneMonth]_vars

-----------------------------------------------------------------------------
(* Why they hold. The keyboard: the active control is on the page.                *)
ActiveMounted == body \in BOOLEAN /\ layout \in {3, 4} /\ active \in Mounted

(* The list: with its events handled its window is the one of the scroll, and       *)
(* every window lies within the rows.                                             *)
WindowOfScroll ==
    /\ total \in Nat /\ height \in 0..MaxHeight /\ scrollTop \in 0..ScrollEnd(height, total)
    /\ events = {} => win = computeWindow(scrollTop, height, total)
    /\ win.first + win.count <= total /\ pool <= poolSize(MaxHeight)

(* The date picker: what is open is the month of the cursor.                       *)
GridOfCursor ==
    /\ value \in {0} \cup Days /\ cursor \in Days
    /\ grid = Shut \/ grid = monthGrid(cursor)

(* The field: one write at most is under way, of the value shown, and the server     *)
(* has it or what was there before.                                              *)
Row == [kind : {"text", "number", "bool"}, opened : BOOLEAN, mounted : BOOLEAN, focused : BOOLEAN,
        input : Int, value : Int, state : {"unset", "value", "pending", "error"}, cleared : BOOLEAN]
SaveShown ==
    /\ row \in Row /\ stored \in Int
    /\ \A s \in saves : /\ s \in [n : {1, 2}, value : Int, prev : Int, done : BOOLEAN]
                        /\ row.value = s.value /\ stored = IF s.done THEN s.value ELSE s.prev
    /\ \A s, t \in saves : s = t
    /\ FieldTrue

(* The help: a text is awaited only by the open overlay that asked for it.          *)
TextAwaited ==
    /\ help \in [opened : BOOLEAN, instructions : BOOLEAN]
    /\ \A c \in calls : help.opened /\ help.instructions /\ c.topic = topic
    /\ \A c, d \in calls : c = d
    /\ HelpOwn

Inv == ActiveMounted /\ WindowOfScroll /\ GridOfCursor /\ SaveShown /\ TextAwaited

(* Rows have a height and spares; months follow each other, none longer than six    *)
(* weeks can show wherever it begins; the other half of what is assumed is what      *)
(* the user waits for.                                                          *)
Usual ==
    /\ Patient /\ DOMAIN Keys = 1..4
    /\ RowHeight \in Nat \ {0} /\ Overscan \in Nat \ {0} /\ MaxRows \in Nat /\ MaxHeight \in Nat
    /\ Week \in Nat \ {0} /\ Len(Firsts) \in Nat /\ Len(Firsts) > 1
    /\ Firsts \in Seq(Nat) /\ Firsts[1] = 1
    /\ \A m \in Months : Firsts[m] < Firsts[m + 1] /\ Firsts[m + 1] - Firsts[m] <= 5 * Week + 1
=============================================================================

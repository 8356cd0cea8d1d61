------------------------------ MODULE Overlays ------------------------------
(***************************************************************************)
(* A dialog that guards what was typed into it (ui/modal.ts,                *)
(* ui/dismiss-guard.ts), and in it a picker of several cards whose list is  *)
(* searched on the server while the user types (ui/combobox.ts,             *)
(* ui/ref-picker.ts in its multi mode, ui/popover.ts, ui/field-editor.ts).   *)
(***************************************************************************)
EXTENDS Integers, SequencesExt

CONSTANTS
    Queries,   \* what may stand in the search field
    Blank,     \* the empty search field, one of Queries
    None,
    Hits(_)    \* the cards the server finds for a query

VARIABLES
    dialog,    \* [open, prompting] of the modal
    draft,     \* the values of the dialog's field: a set of cards
    labels,    \* the cards whose titles the picker knows
    highlight, \* the option Enter picks
    atOpen,    \* openSnapshot
    menu,      \* whether the picker's popover is open
    query,     \* the text of its search field
    timer,     \* the query a debounce timer will search for, or None
    current,   \* the search whose answer counts (its seq is loadSeq), or None
    late,      \* searches superseded by a newer one or by a close
    options,   \* the query whose hits are listed, or None while loading
    failed,    \* the newest search had no answer
    saved      \* the draft the dialog's owner last took

vars == <<dialog, draft, labels, highlight, atOpen, menu, query, timer, current, late, options, failed, saved>>
pickerVars == <<menu, highlight, query, timer, current, late, options, failed>>
dialogVars == <<dialog, draft, labels, atOpen, saved>>

Cards == UNION {Range(Hits(q)) : q \in Queries}

Init ==
    /\ dialog = [open |-> FALSE, prompting |-> FALSE]
    /\ draft = {} /\ atOpen = {} /\ saved = {} /\ labels = {} /\ highlight = 1
    /\ menu = FALSE /\ query = Blank /\ timer = None
    /\ current = None /\ late = {} /\ options = None /\ failed = FALSE

isDirty == draft # atOpen

(* A new search counts, and no earlier one does any more (++loadSeq).      *)
load(q) ==
    /\ current' = q
    /\ failed' = FALSE
    /\ late' = IF current = None THEN late ELSE late \cup {current}
Supersede ==
    /\ current' = None
    /\ failed' = FALSE
    /\ late' = IF current = None THEN late ELSE late \cup {current}

-----------------------------------------------------------------------------
(* The picker.                                                             *)

(* Combobox.openMenu: empty query and list, and a search at once.          *)
openMenu ==
    /\ dialog.open /\ ~dialog.prompting /\ ~menu
    /\ menu' = TRUE
    /\ query' = Blank
    /\ timer' = None
    /\ options' = None /\ highlight' = 1
    /\ load(Blank)
    /\ UNCHANGED dialogVars

(* Typing shows the list as loading and restarts the debounce timer; the   *)
(* search before it still counts until the timer fires.                    *)
type(q) ==
    /\ menu /\ q # query
    /\ query' = q
    /\ options' = None /\ highlight' = 1
    /\ timer' = q
    /\ UNCHANGED <<menu, current, late, failed>> /\ UNCHANGED dialogVars

fire ==
    /\ timer # None
    /\ timer' = None
    /\ load(timer)
    /\ UNCHANGED <<menu, query, options, highlight>> /\ UNCHANGED dialogVars

(* runSearch's and scheduleLoad's answers: only the newest search's lands, *)
(* with the titles of its hits. (A close bumps only the list's own number: *)
(* the picker may still learn the titles of a search it cut off, until the *)
(* next one is sent.)                                                      *)
deliver(q, ok) ==
    \/ /\ q = current
       /\ current' = None
       /\ options' = IF menu /\ ok THEN q ELSE options
       /\ highlight' = IF menu /\ ok THEN 1 ELSE highlight
       /\ labels' = IF ok THEN labels \cup Range(Hits(q)) ELSE labels
       /\ failed' = ~ok
       /\ UNCHANGED <<menu, query, timer, late, dialog, draft, atOpen, saved>>
    \/ /\ q \in late
       /\ late' = late \ {q}
       /\ labels' \in {labels} \cup (IF ~menu /\ ok THEN {labels \cup Range(Hits(q))} ELSE {})
       /\ UNCHANGED <<menu, highlight, query, timer, current, options, failed, dialog, draft, atOpen, saved>>

(* closeMenu, and the popover's own close by Escape or a click outside:    *)
(* no timer, and an answer on its way no longer counts.                    *)
CloseMenu ==
    /\ menu' = FALSE
    /\ timer' = None
    /\ Supersede
    /\ UNCHANGED <<query, options, highlight>>

closeMenu == menu /\ CloseMenu /\ UNCHANGED dialogVars

(* A click on an option, or Enter on the highlighted one: the list closes  *)
(* and the card joins the values, once (addValue).                         *)
addValue(c) ==
    /\ CloseMenu
    /\ draft' = draft \cup {c}
    /\ UNCHANGED <<dialog, labels, atOpen, saved>>
selectOption(c) == menu /\ options # None /\ c \in Range(Hits(options)) /\ addValue(c)
Enter == menu /\ options # None /\ highlight \in DOMAIN Hits(options) /\ addValue(Hits(options)[highlight])
moveHighlight(delta) == \* round the ends
    /\ menu /\ options # None /\ Hits(options) # <<>>
    /\ highlight' = ((highlight - 1 + delta) % Len(Hits(options))) + 1
    /\ UNCHANGED <<menu, query, timer, current, late, options, failed>> /\ UNCHANGED dialogVars
(* A chip's remove button, beside the list.                                *)
removeValue(c) ==
    /\ dialog.open /\ ~dialog.prompting /\ c \in draft /\ draft' = draft \ {c}
    /\ IF menu THEN CloseMenu ELSE UNCHANGED pickerVars
    /\ UNCHANGED <<dialog, labels, atOpen, saved>>

-----------------------------------------------------------------------------
(* The dialog.                                                             *)

open ==
    /\ ~dialog.open
    /\ dialog' = [open |-> TRUE, prompting |-> FALSE]
    /\ draft' = saved /\ atOpen' = saved /\ labels' = saved
    /\ UNCHANGED saved /\ UNCHANGED pickerVars

Close == dialog' = [open |-> FALSE, prompting |-> FALSE]

(* An explicit close: at once when nothing was changed, else ask.          *)
request ==
    /\ dialog.open
    /\ IF isDirty \/ dialog.prompting
       THEN dialog' = [dialog EXCEPT !.prompting = TRUE]
       ELSE Close
    /\ UNCHANGED <<draft, labels, atOpen, saved>>

(* The × or Cancel button: a click outside the popover closes that, too.   *)
ClickClose ==
    /\ request
    /\ IF menu THEN CloseMenu ELSE UNCHANGED pickerVars

(* Escape: the popover's listener comes first and keeps it to itself; then *)
(* the prompt backs out; then it is a request to close.                    *)
Escape ==
    /\ dialog.open
    /\ \/ menu /\ CloseMenu /\ UNCHANGED dialogVars
       \/ /\ ~menu /\ dialog.prompting
          /\ dialog' = [dialog EXCEPT !.prompting = FALSE]
          /\ UNCHANGED <<draft, labels, atOpen, saved>> /\ UNCHANGED pickerVars
       \/ ~menu /\ ~dialog.prompting /\ request /\ UNCHANGED pickerVars

Keep ==
    /\ dialog.prompting
    /\ dialog' = [dialog EXCEPT !.prompting = FALSE]
    /\ UNCHANGED <<draft, labels, atOpen, saved>> /\ UNCHANGED pickerVars

Discard == dialog.prompting /\ Close /\ UNCHANGED <<draft, labels, atOpen, saved>> /\ UNCHANGED pickerVars

(* The owner takes the draft and closes the dialog (close(false)).         *)
Save ==
    /\ dialog.open /\ ~dialog.prompting /\ ~menu
    /\ saved' = draft
    /\ Close
    /\ UNCHANGED <<draft, labels, atOpen>> /\ UNCHANGED pickerVars

-----------------------------------------------------------------------------
Next ==
    \/ openMenu \/ fire \/ closeMenu \/ Enter \/ moveHighlight(1) \/ moveHighlight(-1)
    \/ \E q \in Queries : type(q) \/ deliver(q, TRUE) \/ deliver(q, FALSE)
    \/ \E c \in Cards : selectOption(c) \/ removeValue(c)
    \/ open \/ ClickClose \/ Escape \/ Keep \/ Discard \/ Save

Spec == Init /\ [][Next]_vars

-----------------------------------------------------------------------------
TypeOK ==
    /\ dialog \in [open : BOOLEAN, prompting : BOOLEAN]
    /\ draft \cup atOpen \cup saved \cup labels \subseteq Cards /\ highlight \in Nat
    /\ menu \in BOOLEAN /\ failed \in BOOLEAN /\ query \in Queries
    /\ {timer, current, options} \subseteq Queries \cup {None}
    /\ late \subseteq Queries
    /\ dialog.prompting => dialog.open

(* Between typing and the next search, and while one is on its way, what   *)
(* is listed may be of an earlier query; once neither is left, the list is *)
(* of the text in the field, whatever order the answers took (loadSeq) -   *)
(* unless the newest search failed, when an earlier answer may still stand. *)
(* The card Enter picks is one of the list, and each chip shows its title. *)
ListMatches ==
    /\ menu /\ timer = None /\ current = None /\ ~failed /\ options # None => options = query
    /\ menu /\ options # None /\ Hits(options) # <<>> => highlight \in DOMAIN Hits(options)
    /\ draft \subseteq labels \/ ~dialog.open

(* What was entered is thrown away only by the prompt's Discard: no Escape, *)
(* close button or click that meant the picker does it (dismiss-guard.ts). *)
DraftGuardedStep ==
    dialog.open /\ isDirty /\ ~dialog'.open => dialog.prompting \/ saved' = draft
DraftGuarded == [][DraftGuardedStep]_vars

-----------------------------------------------------------------------------
(* Why they hold: while the list is open the newest search, the one waited for or   *)
(* the one to be sent, is of the text in the field; the list's titles are known.   *)
SearchOfText ==
    menu => /\ dialog.open /\ ~dialog.prompting
            /\ timer # None => timer = query
            /\ timer = None /\ current # None => current = query
TitlesKnown ==
    menu /\ options # None => options \in Queries /\ Range(Hits(options)) \subseteq labels
Inv == TypeOK /\ SearchOfText /\ TitlesKnown /\ ListMatches

Searchable ==
    /\ Blank \in Queries /\ None \notin Queries
    /\ \A q \in Queries : Hits(q) \in Seq(Cards)
=============================================================================

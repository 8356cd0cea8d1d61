---------------------------- MODULE CommThreads ----------------------------
(***************************************************************************)
(* The email threads of a task (task-detail/task-comm-threads.ts): one card  *)
(* per thread with its recipients, its acknowledgement, its messages and a   *)
(* reply box, the form that starts a thread, and, on a thread that is on no  *)
(* task, its placement (task-detail/thread-placement.ts).                    *)
(* Every repaint of the list builds the reply boxes anew.                   *)
(***************************************************************************)
EXTENDS Integers, FiniteSets

CONSTANTS
    Threads,    \* the threads there can be; the greatest is the one a form starts
    Phase,      \* thread -> the phase of its status
    People,
    MaxTexts,   \* bound: texts typed
    MaxCalls,   \* bound: calls
    Patient,    \* whether the user acts with nothing on its way and no text unsent
    None

VARIABLES
    comms,       \* the threads as loaded: thread -> [acked, people, said]
    filter,      \* the phase shown, None for all
    boxes,       \* thread -> the text and the files of its reply box
    recipients,  \* thread -> the people its picker shows
    starting,    \* the form that starts a thread: None, or its text
    texts, made, \* number of texts typed and of calls made
    calls,       \* calls on their way
    server       \* thread -> [acked, people, said] of the task's threads

vars == <<comms, filter, boxes, recipients, starting, texts, made, calls, server>>
listVars == <<comms, filter, boxes, recipients>>
formVars == <<starting, texts>>

NewThread == CHOOSE t \in Threads : \A u \in Threads : u <= t
EmptyBox == [text |-> 0, files |-> {}]
Shown(list, ph) == {t \in DOMAIN list : ph = None \/ Phase[t] = ph}
(* A mutant of Paint: the boxes stay as they are.                           *)
PaintList(list, ph) == comms' = list /\ filter' = ph /\ UNCHANGED <<boxes, recipients>>
(* paintList: the boxes and the pickers of the threads shown are new.         *)
Paint(list, ph) ==
    /\ comms' = list /\ filter' = ph
    /\ boxes' = [t \in Shown(list, ph) |-> EmptyBox]
    /\ recipients' = [t \in Shown(list, ph) |-> list[t].people]
(* Calls made from a row that is painted over no longer find it.              *)
Orphans(cs) == {[c EXCEPT !.shown = FALSE] : c \in cs}
InBox(t) == t \in DOMAIN boxes

Call(kind, t, arg) ==
    [kind |-> kind, thread |-> t, arg |-> arg, id |-> made + 1, shown |-> TRUE, state |-> "sent", out |-> None]
Send(kind, t, arg) ==
    /\ made < MaxCalls /\ made' = made + 1
    /\ calls' = calls \cup {Call(kind, t, arg)}
Free == Patient => calls = {} /\ \A t \in DOMAIN boxes : boxes[t].text = 0
Quiet == Patient => calls = {}

-----------------------------------------------------------------------------
(* loadComms: at the start, after a write, and whenever the detail refreshes. *)
reload ==
    /\ Free /\ Send("list", None, None)
    /\ UNCHANGED <<listVars, formVars, server>>
setFilter(ph) ==
    /\ Free /\ ph # filter /\ DOMAIN comms # {}
    /\ Paint(comms, ph) /\ calls' = Orphans(calls)
    /\ UNCHANGED <<formVars, made, server>>
(* A link to a thread that the filter hides shows every thread.              *)
reveal(t) ==
    /\ Free /\ ~InBox(t) /\ filter # None
    /\ Paint(comms, None) /\ calls' = Orphans(calls)
    /\ UNCHANGED <<formVars, made, server>>

-----------------------------------------------------------------------------
(* The reply box. The text is gone from it when it is sent.                   *)
typeReply(t) ==
    /\ InBox(t) /\ boxes[t].text = 0 /\ Free /\ texts < MaxTexts
    /\ texts' = texts + 1
    /\ boxes' = [boxes EXCEPT ![t].text = texts']
    /\ UNCHANGED <<comms, filter, recipients, starting, made, calls, server>>
upload(t) ==
    /\ InBox(t) /\ Quiet
    /\ Send("upload", t, None)
    /\ UNCHANGED <<listVars, formVars, server>>
doReply(t) ==
    /\ InBox(t) /\ boxes[t].text # 0 /\ Quiet
    /\ Send("reply", t, [text |-> boxes[t].text, files |-> boxes[t].files])
    /\ boxes' = [boxes EXCEPT ![t] = EmptyBox]
    /\ UNCHANGED <<comms, filter, recipients, formVars, server>>

(* The acknowledgement is shown at once, and the recipients are as picked.     *)
doSetAck(t) ==
    /\ InBox(t) /\ Free
    /\ comms' = [comms EXCEPT ![t].acked = ~@]
    /\ Send("ack", t, ~comms[t].acked)
    /\ UNCHANGED <<filter, boxes, recipients, formVars, server>>
doSetRecipients(t, p) ==
    /\ InBox(t) /\ Free
    /\ recipients' = [recipients EXCEPT ![t] = IF p \in @ THEN @ \ {p} ELSE @ \cup {p}]
    /\ Send("recipients", t, recipients'[t])
    /\ UNCHANGED <<comms, filter, boxes, formVars, server>>
doDetach(t) ==
    /\ InBox(t) /\ Free /\ \A c \in calls : c.kind # "detach" \/ c.thread # t
    /\ Send("detach", t, None)
    /\ UNCHANGED <<listVars, formVars, server>>

(* The form; a refused thread leaves it open.                               *)
toggleStartForm ==
    /\ Quiet /\ texts < MaxTexts
    /\ IF starting = None THEN texts' = texts + 1 /\ starting' = texts' ELSE starting' = None /\ UNCHANGED texts
    /\ UNCHANGED <<listVars, made, calls, server>>
doCreate ==
    /\ starting # None /\ Free /\ NewThread \notin DOMAIN server
    /\ Send("create", NewThread, starting)
    /\ UNCHANGED <<listVars, formVars, server>>

-----------------------------------------------------------------------------
(* The server answers a call, having done it or not; the list it answers.      *)
Does(c) ==
    CASE c.kind = "ack" -> [server EXCEPT ![c.thread].acked = c.arg]
      [] c.kind = "recipients" -> [server EXCEPT ![c.thread].people = c.arg]
      [] c.kind = "reply" -> [server EXCEPT ![c.thread].said = @ \cup {c.arg.text}]
      [] c.kind = "detach" -> [t \in DOMAIN server \ {c.thread} |-> server[t]]
      [] c.kind = "create" -> [t \in DOMAIN server \cup {c.thread} |->
                                  IF t = c.thread THEN [acked |-> FALSE, people |-> {}, said |-> {c.arg}] ELSE server[t]]
      [] OTHER -> server
ServerRuns(c) ==
    /\ c.state = "sent"
    /\ c.thread \in DOMAIN server \/ c.kind \in {"list", "create"}
    /\ server' = Does(c)
    /\ calls' = (calls \ {c}) \cup {[c EXCEPT !.state = "done", !.out = server]}
    /\ UNCHANGED <<listVars, formVars, made>>
Refused(c) ==
    /\ c.state = "sent" /\ c.kind # "list"
    /\ calls' = (calls \ {c}) \cup {[c EXCEPT !.state = "refused"]}
    /\ UNCHANGED <<listVars, formVars, made, server>>

landComms(c) ==
    /\ c.kind = "list" /\ c.state # "sent"
    /\ Paint(c.out, filter) /\ calls' = Orphans(calls \ {c})
    /\ UNCHANGED <<formVars, made, server>>
(* A reply, a detachment or a new thread lists the threads again; the detail   *)
(* does after the others too only when the user refreshes.                  *)
landWrite(c) ==
    /\ c.kind \in {"reply", "detach", "create"} /\ c.state # "sent"
    /\ IF c.state = "done"
       THEN /\ made' = made + 1
            /\ calls' = (calls \ {c}) \cup {Call("list", None, None)}
            /\ starting' = IF c.kind = "create" THEN None ELSE starting
       ELSE calls' = calls \ {c} /\ UNCHANGED <<made, starting>>
    /\ UNCHANGED <<listVars, texts, server>>
(* A refused acknowledgement is shown as it was, on the row that was clicked;  *)
(* a refused recipient stays in the picker.                                *)
landInPlace(c) ==
    /\ c.kind \in {"ack", "recipients"} /\ c.state # "sent"
    /\ calls' = calls \ {c}
    /\ comms' = IF c.kind = "ack" /\ c.state = "refused" /\ c.shown
                THEN [comms EXCEPT ![c.thread].acked = ~c.arg] ELSE comms
    /\ UNCHANGED <<filter, boxes, recipients, formVars, made, server>>
(* An uploaded file is picked in the box it was uploaded from.                *)
landUpload(c) ==
    /\ c.kind = "upload" /\ c.state # "sent"
    /\ calls' = calls \ {c}
    /\ boxes' = IF c.state = "done" /\ c.shown /\ InBox(c.thread)
                THEN [boxes EXCEPT ![c.thread].files = @ \cup {c.id}] ELSE boxes
    /\ UNCHANGED <<comms, filter, recipients, formVars, made, server>>

-----------------------------------------------------------------------------
Init ==
    /\ server = [t \in Threads \ {NewThread} |-> [acked |-> FALSE, people |-> {}, said |-> {}]]
    /\ comms = server /\ filter = None
    /\ boxes = [t \in DOMAIN comms |-> EmptyBox] /\ recipients = [t \in DOMAIN comms |-> {}]
    /\ starting = None /\ texts = 0 /\ made = 0 /\ calls = {}
Next ==
    \/ reload \/ toggleStartForm \/ doCreate
    \/ \E ph \in {Phase[t] : t \in Threads} \cup {None} : setFilter(ph)
    \/ \E t \in DOMAIN comms : \/ reveal(t) \/ typeReply(t) \/ upload(t) \/ doReply(t)
                               \/ doSetAck(t) \/ doDetach(t) \/ \E p \in People : doSetRecipients(t, p)
    \/ \E c \in calls : ServerRuns(c) \/ Refused(c) \/ landComms(c) \/ landWrite(c) \/ landInPlace(c) \/ landUpload(c)
Spec == Init /\ [][Next]_vars

-----------------------------------------------------------------------------
TypeOK ==
    /\ DOMAIN comms \subseteq Threads /\ DOMAIN boxes = Shown(comms, filter) /\ DOMAIN recipients = DOMAIN boxes
    /\ starting = None \/ starting \in 1..texts

(* With nothing on its way, a thread's acknowledgement is the server's, and the *)
(* threads shown are the task's (task-comm-threads.ts:1112).                 *)
ThreadsTrue ==
    calls = {} => DOMAIN comms = DOMAIN server /\ \A t \in DOMAIN comms : comms[t].acked = server[t].acked

(* A reply that is typed is in its box until it is sent, and once sent it is on *)
(* its way or said.                                                       *)
Typed == {boxes[t].text : t \in DOMAIN boxes}
RepliesKeptStep ==
    \A n \in Typed \ {0} : n \in Typed' \/ \E c \in calls' : c.kind = "reply" /\ c.arg.text = n
RepliesKept == [][RepliesKeptStep]_vars
=============================================================================

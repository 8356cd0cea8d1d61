-------------------------------- MODULE Files --------------------------------
(***************************************************************************)
(* The files of a task: the attachments section with its thumbnails          *)
(* (task-detail/attachments-section.ts), and the full-screen gallery that      *)
(* shows one of them (task-detail/file-gallery.ts).                          *)
(* Attachments are numbered as the server makes them; it lists the newest      *)
(* first.                                                                *)
(***************************************************************************)
EXTENDS Integers, FiniteSets, Sequences, SequencesExt

CONSTANTS
    MaxFiles,   \* bound: attachments the server ever makes
    Old,        \* those there are at the start
    Images,     \* the ones with a thumbnail, a subset of those the gallery shows
    Viewable,   \* the ones the gallery shows
    MaxCalls,   \* bound: calls of the section
    MaxViews,   \* bound: files the gallery asks for
    Patient     \* whether calls, and the gallery's reads, are made one at a time

VARIABLES
    alive,      \* whether the section is on screen
    rows,       \* the list, newest first
    loading,
    uploads,    \* files on their way up
    thumbs,     \* attachments whose thumbnail has an object URL
    pending,    \* attachments whose thumbnail is being fetched
    gal,        \* the gallery: which opening it is, 0 when closed, its index and its URL
    views,      \* files the gallery is fetching: [n, file, opening]
    urls,       \* object URLs the gallery made and has not revoked
    opened, asked, viewed,  \* openings, calls and views so far
    calls,      \* calls on their way: [n, kind, file, prev, done]
    missed,     \* whether a list failed to load since the last one that did
    attached,   \* the server's attachments of the task
    made        \* attachments the server has made

vars == <<alive, rows, loading, uploads, thumbs, pending, gal, views, urls, opened, asked, viewed, calls, missed, attached, made>>
listVars == <<rows, loading>>
thumbVars == <<thumbs, pending>>
galVars == <<gal, views, urls, opened, viewed>>
serverVars == <<attached, made>>

Closed == [opening |-> 0, index |-> 1, url |-> 0]
viewable(list) == SelectSeq(list, LAMBDA a : a \in Viewable)
Newest(S) == SetToSortSeq(S, >)

(* Every paint of the list asks for the thumbnails it has none of.          *)
loadThumb(list) == pending' = pending \cup ((Images \cap ToSet(list)) \ thumbs')

Free == Patient => calls = {}
Call(kind, file, prev) == [n |-> asked + 1, kind |-> kind, file |-> file, prev |-> prev, done |-> FALSE]
loadList(after) ==
    /\ asked < MaxCalls /\ asked' = asked + 1 /\ loading' = TRUE
    /\ calls' = after \cup {Call("list", 0, <<>>)}

reload ==
    /\ alive /\ Free /\ loadList(calls)
    /\ UNCHANGED <<alive, rows, uploads, thumbVars, galVars, missed, serverVars>>

(* The list that arrives is painted, whatever was asked before it.           *)
landList(c, ok) ==
    /\ c \in calls /\ c.kind = "list" /\ (ok => c.done)
    /\ calls' = calls \ {c}
    /\ IF ~alive THEN UNCHANGED <<listVars, thumbVars, missed>>
       ELSE /\ loading' = FALSE /\ missed' = ~ok /\ UNCHANGED thumbs
            /\ IF ok THEN rows' = c.prev /\ loadThumb(c.prev) ELSE UNCHANGED <<rows, pending>>
    /\ UNCHANGED <<alive, uploads, galVars, asked, serverVars>>

-----------------------------------------------------------------------------
(* A file is uploaded and then attached, while the section is on screen.     *)
startUpload ==
    /\ alive /\ gal = Closed /\ Free /\ asked < MaxCalls /\ asked' = asked + 1
    /\ uploads' = uploads + 1
    /\ calls' = calls \cup {Call("upload", 0, <<>>)}
    /\ UNCHANGED <<alive, listVars, thumbVars, galVars, missed, serverVars>>
uploadDone(c) ==
    /\ c \in calls /\ c.kind = "upload" /\ c.done
    /\ IF ~alive THEN calls' = calls \ {c} /\ UNCHANGED <<listVars, uploads, thumbVars, asked>>
       ELSE /\ uploads' = uploads - 1
            /\ rows' = <<c.file>> \o SelectSeq(rows, LAMBDA a : a # c.file)
            /\ UNCHANGED thumbs /\ loadThumb(rows')
            /\ loadList(calls \ {c})
    /\ UNCHANGED <<alive, galVars, missed, serverVars>>
uploadFails(c) ==
    /\ c \in calls /\ c.kind = "upload" /\ ~c.done
    /\ calls' = calls \ {c}
    /\ uploads' = IF alive THEN uploads - 1 ELSE uploads
    /\ UNCHANGED <<alive, listVars, thumbVars, galVars, asked, missed, serverVars>>

-----------------------------------------------------------------------------
(* A deleted row leaves the list and its thumbnail is released at once; when   *)
(* the server refuses, the list is what it was before.                       *)
releaseThumb(a) == thumbs' = thumbs \ {a}
onDelete(a) ==
    /\ alive /\ gal = Closed /\ Free /\ a \in ToSet(rows) /\ asked < MaxCalls
    /\ asked' = asked + 1
    /\ rows' = SelectSeq(rows, LAMBDA b : b # a)
    /\ releaseThumb(a) /\ loadThumb(rows')
    /\ calls' = calls \cup {Call("delete", a, rows)}
    /\ UNCHANGED <<alive, loading, uploads, galVars, missed, serverVars>>
deleteDone(c) ==
    /\ c \in calls /\ c.kind = "delete" /\ c.done
    /\ IF alive THEN loadList(calls \ {c}) ELSE calls' = calls \ {c} /\ UNCHANGED <<loading, asked>>
    /\ UNCHANGED <<alive, rows, uploads, thumbVars, galVars, missed, serverVars>>
deleteRefused(c) ==
    /\ c \in calls /\ c.kind = "delete" /\ ~c.done
    /\ calls' = calls \ {c}
    /\ IF alive THEN rows' = c.prev /\ UNCHANGED thumbs /\ loadThumb(c.prev) ELSE UNCHANGED <<rows, thumbVars>>
    /\ UNCHANGED <<alive, loading, uploads, galVars, asked, missed, serverVars>>

landThumb(a, ok) ==
    /\ a \in pending
    /\ pending' = pending \ {a}
    /\ thumbs' = IF alive /\ ok THEN thumbs \cup {a} ELSE thumbs
    /\ UNCHANGED <<alive, listVars, uploads, galVars, asked, calls, missed, serverVars>>

-----------------------------------------------------------------------------
(* Closing the gallery revokes the URL it knows of.                          *)
Revoke == urls \ {gal.url}
close ==
    /\ gal # Closed
    /\ gal' = Closed /\ urls' = Revoke
    /\ UNCHANGED <<alive, listVars, uploads, thumbVars, views, opened, viewed, asked, calls, missed, serverVars>>

(* The gallery reads a file's bytes each time it shows one, the one it shows   *)
(* already too when there is no other.                                     *)
paint(opening, index) ==
    /\ viewed < MaxViews /\ viewed' = viewed + 1 /\ (Patient => views = {})
    /\ urls' = Revoke
    /\ gal' = [opening |-> opening, index |-> index, url |-> 0]
    /\ views' = views \cup {[n |-> viewed', file |-> viewable(rows)[index], opening |-> opening]}
open(a) ==
    /\ alive /\ gal = Closed
    /\ \E i \in 1..Len(viewable(rows)) : viewable(rows)[i] = a /\ paint(opened + 1, i)
    /\ opened' = opened + 1
    /\ UNCHANGED <<alive, listVars, uploads, thumbVars, asked, calls, missed, serverVars>>
step(delta) ==
    /\ gal # Closed /\ viewable(rows) # <<>>
    /\ paint(gal.opening, ((gal.index - 1 + delta + Len(viewable(rows))) % Len(viewable(rows))) + 1)
    /\ UNCHANGED <<alive, listVars, uploads, thumbVars, opened, asked, calls, missed, serverVars>>

(* A file's bytes are shown while the gallery still shows that file.         *)
stillShowing(v) ==
    /\ gal.opening = v.opening /\ gal.index <= Len(viewable(rows))
    /\ viewable(rows)[gal.index] = v.file
landView(v, ok) ==
    /\ v \in views
    /\ views' = views \ {v}
    /\ IF ok /\ alive /\ stillShowing(v)
       THEN urls' = urls \cup {v.n} /\ gal' = [gal EXCEPT !.url = v.n]
       ELSE UNCHANGED <<urls, gal>>
    /\ UNCHANGED <<alive, listVars, uploads, thumbVars, opened, viewed, asked, calls, missed, serverVars>>

(* The section is left: what it holds is revoked, and what is on its way is    *)
(* dropped when it arrives.                                               *)
destroy ==
    /\ alive /\ alive' = FALSE
    /\ gal' = Closed /\ urls' = Revoke
    /\ thumbs' = {} /\ pending' = {}
    /\ UNCHANGED <<listVars, uploads, views, opened, viewed, asked, calls, missed, serverVars>>

-----------------------------------------------------------------------------
(* attachment.list, .create and .delete on the server.                      *)
ServerRuns(c) ==
    /\ c \in calls /\ ~c.done
    /\ made' = (IF c.kind = "upload" THEN made + 1 ELSE made) /\ made' <= MaxFiles
    /\ attached' = CASE c.kind = "upload" -> attached \cup {made'}
                     [] c.kind = "delete" -> attached \ {c.file}
                     [] OTHER -> attached
    /\ calls' = (calls \ {c}) \cup {[c EXCEPT !.done = TRUE,
                    !.file = IF c.kind = "upload" THEN made' ELSE c.file,
                    !.prev = IF c.kind = "list" THEN Newest(attached) ELSE c.prev]}
    /\ UNCHANGED <<alive, listVars, uploads, thumbVars, galVars, asked, missed>>

Init ==
    /\ alive = TRUE /\ rows = <<>> /\ loading = TRUE /\ uploads = 0
    /\ thumbs = {} /\ pending = {} /\ gal = Closed /\ views = {} /\ urls = {}
    /\ opened = 0 /\ asked = 1 /\ viewed = 0 /\ missed = FALSE
    /\ calls = {[n |-> 1, kind |-> "list", file |-> 0, prev |-> <<>>, done |-> FALSE]}
    /\ attached = 1..Old /\ made = Old
Next ==
    \/ reload \/ startUpload \/ close \/ destroy \/ step(1) \/ step(-1)
    \/ \E c \in calls : \/ landList(c, TRUE) \/ landList(c, FALSE) \/ uploadDone(c) \/ uploadFails(c)
                        \/ deleteDone(c) \/ deleteRefused(c) \/ ServerRuns(c)
    \/ \E a \in 1..MaxFiles : onDelete(a) \/ open(a) \/ landThumb(a, TRUE) \/ landThumb(a, FALSE)
    \/ \E v \in views : landView(v, TRUE) \/ landView(v, FALSE)
Spec == Init /\ [][Next]_vars

-----------------------------------------------------------------------------
TypeOK ==
    /\ ToSet(rows) \subseteq 1..MaxFiles /\ IsInjective(rows) /\ uploads \in 0..MaxCalls
    /\ thumbs \cup pending \subseteq Images /\ attached \subseteq 1..made
    /\ gal.opening \in 0..opened /\ (gal.url # 0 => gal.url \in urls)

(* With nothing on its way and no list failed, the section lists the files the  *)
(* task has, the newest first (attachments-section.ts:6).                    *)
FilesTrue == alive /\ calls = {} /\ ~missed => rows = Newest(attached) /\ uploads = 0 /\ ~loading

(* Every object URL is revoked when what shows it goes (attachments-section.ts:   *)
(* 21 and 25): the gallery's when it closes, the thumbnails' when the section goes. *)
UrlsRevoked == (gal = Closed => urls = {}) /\ (~alive => thumbs = {})
=============================================================================

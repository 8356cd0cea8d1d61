------------------------------ MODULE TaskFlow ------------------------------
(***************************************************************************)
(* Tasks, their status and their parent task under concurrent writers:     *)
(* attribute.update of a status or of a parent_task, card.insert of a      *)
(* (sub)task and task.move (db/schema/functions/attribute_update_batch.sql,*)
(* card_insert_batch.sql, task_move_batch.sql).  Each runs in the request's*)
(* transaction, at READ COMMITTED: what it read stays true only while a row*)
(* lock holds it.  A card's row is locked FOR SHARE by a writer that       *)
(* depends on where the card is and FOR NO KEY UPDATE by a move.           *)
(*                                                                         *)
(* A row lock taken without waiting and the reads that follow it under the *)
(* lock are one step; so are the writes and the commit.  Between the two,  *)
(* and wherever an operation waits for a lock while it holds another, the  *)
(* other writers run.                                                      *)
(*                                                                         *)
(* Left out: milestone, component and tags (project-scoped values with the *)
(* checks of the status), threads, deletion, edits of the flow itself, and *)
(* the depth and pass limits of 16, which no small tree reaches.           *)
(***************************************************************************)
EXTENDS FiniteSets, TLC

CONSTANTS
    Writers,    \* requests, one write each at a time
    Managers,   \* those whose actor holds the role some steps require
    Tasks,      \* task ids, those not inserted yet included
    Projects,
    Statuses,   \* status cards
    HomeOf,     \* the project a status card is under
    Default,    \* a project's status flow: its default_create_status_id,
    Steps,      \*   its flow_steps, as <<from, to>>,
    Gated,      \*   and those with a requires_role_id
    Ops,        \* the operations each writer runs
    None

ASSUME NoneIsNothing == None \notin Tasks \cup Projects \cup Statuses \cup Writers

ASSUME FlowTypes ==
    /\ HomeOf \in [Statuses -> Projects]
    /\ Default \in [Projects -> Statuses]
    /\ Steps \in [Projects -> SUBSET (Statuses \X Statuses)]
    /\ Gated \in [Projects -> SUBSET (Statuses \X Statuses)]
    /\ Managers \subseteq Writers

VARIABLES
    project,    \* card.parent_card_id of a task, None before its insert
    status,     \* attribute_value of status
    link,       \* attribute_value of parent_task
    share,      \* who holds the card's row FOR SHARE
    excl,       \* who holds it FOR NO KEY UPDATE
    work        \* what each writer is doing

vars == <<project, status, link, share, excl, work>>
rows == <<project, status, link>>

PCs == {"idle", "setStatus", "lockParent", "setLink", "insert", "walk", "lock", "apply", "move"}

(* A writer's operation: the task, the values asked for, and a move's      *)
(* strategy ("break" moves the task alone), the tasks it takes, those of   *)
(* them still to lock and the tasks whose links it cuts.                   *)
Work == [pc : PCs, task : Tasks \cup {None}, to : Projects \cup {None},
         status : Statuses \cup {None}, parent : Tasks \cup {None}, alone : BOOLEAN,
         moved : SUBSET Tasks, todo : SUBSET Tasks, gone : SUBSET Tasks]

Idle == [pc |-> "idle", task |-> None, to |-> None, status |-> None, parent |-> None,
         alone |-> FALSE, moved |-> {}, todo |-> {}, gone |-> {}]

TypeOK ==
    /\ project \in [Tasks -> Projects \cup {None}]
    /\ status \in [Tasks -> Statuses \cup {None}]
    /\ link \in [Tasks -> Tasks \cup {None}]
    /\ share \in [Tasks -> SUBSET Writers]
    /\ excl \in [Tasks -> Writers \cup {None}]
    /\ work \in [Writers -> Work]

Init ==
    /\ project = [t \in Tasks |-> None]
    /\ status = [t \in Tasks |-> None]
    /\ link = [t \in Tasks |-> None]
    /\ share = [t \in Tasks |-> {}]
    /\ excl = [t \in Tasks |-> None]
    /\ work = [w \in Writers |-> Idle]

-----------------------------------------------------------------------------
(* The flow's rules.                                                       *)

(* flow_state_ids: the starting state and every status a step touches.     *)
States(p) == {Default[p]} \cup {e[1] : e \in Steps[p]} \cup {e[2] : e \in Steps[p]}

HoldsRole(w, p, e) == e \in Gated[p] => w \in Managers

(* The status check of attribute.update: a value card of the task's        *)
(* project that is one of the flow's states, reached by a step the actor   *)
(* may take.  Writing the value already held is no transition.             *)
Allowed(w, p, old, new) ==
    /\ HomeOf[new] = p
    /\ \/ new = old
       \/ /\ new \in States(p)
          /\ <<old, new>> \in Steps[p]
          /\ HoldsRole(w, p, <<old, new>>)

RoleGated(w, p, s) ==
    /\ s # Default[p]
    /\ \E e \in Steps[p] : e[2] = s
    /\ \A e \in Steps[p] : e[2] = s => ~HoldsRole(w, p, e)

(* Where a task may start, or be moved to.                                 *)
Enterable(w, p, s) == HomeOf[s] = p /\ s \in States(p) /\ ~RoleGated(w, p, s)

-----------------------------------------------------------------------------
(* Row locks.                                                              *)

CanShare(w, t) == excl[t] \in {None, w}
\* Mutant of CanExclude: a move that doesn't wait for the card's sharers.
CanExcludeShared(w, t) == excl[t] \in {None, w}
CanExclude(w, t) == excl[t] \in {None, w} /\ share[t] \subseteq {w}

TakeShare(w, t) == share' = [share EXCEPT ![t] = @ \cup {w}]
TakeExclusive(w, t) == excl' = [excl EXCEPT ![t] = w]

(* Commit and rollback let the transaction's locks go.                     *)
Finish(w) ==
    /\ share' = [t \in Tasks |-> share[t] \ {w}]
    /\ excl' = [t \in Tasks |-> IF excl[t] = w THEN None ELSE excl[t]]
    /\ work' = [work EXCEPT ![w] = Idle]

At(w, pc) == work[w].pc = pc
Asks(w, op) == At(w, "idle") /\ op \in Ops[w]

(* A refusal, a lost client, a timeout, or the victim of a deadlock.       *)
Abort(w) == ~At(w, "idle") /\ Finish(w) /\ UNCHANGED rows

-----------------------------------------------------------------------------
(* attribute.update of a status: the card is held FOR SHARE, and the gate  *)
(* reads the status under that lock.  The upsert at the end is             *)
(* unconditional.                                                          *)
CheckStatus(w) ==
    /\ Asks(w, "status")
    /\ \E t \in Tasks, s \in Statuses :
          /\ project[t] # None
          /\ CanShare(w, t)
          /\ Allowed(w, project[t], status[t], s)
          /\ TakeShare(w, t)
          /\ work' = [work EXCEPT ![w] = [Idle EXCEPT !.pc = "setStatus", !.task = t, !.status = s]]
    /\ UNCHANGED <<rows, excl>>

WriteStatus(w) ==
    /\ At(w, "setStatus")
    /\ status' = [status EXCEPT ![work[w].task] = work[w].status]
    /\ Finish(w)
    /\ UNCHANGED <<project, link>>

(* attribute.update of a parent_task: the card, then the value card, each  *)
(* FOR SHARE, then the scope check.  A null removes the link.              *)
LockChild(w) ==
    /\ Asks(w, "link")
    /\ \E t \in Tasks, p \in Tasks \cup {None} :
          /\ project[t] # None
          /\ CanShare(w, t)
          /\ TakeShare(w, t)
          /\ work' = [work EXCEPT ![w] = [Idle EXCEPT
                !.pc = IF p = None THEN "setLink" ELSE "lockParent", !.task = t, !.parent = p]]
    /\ UNCHANGED <<rows, excl>>

\* Mutant of InProject: the value card is read without FOR SHARE.
InProjectUnheld(w, p, home) == project[p] = home /\ home # None

(* A new link's parent is in the task's project, and held there.           *)
InProject(w, p, home) == project[p] = home /\ home # None /\ CanShare(w, p)

LockParent(w) ==
    /\ At(w, "lockParent")
    /\ InProject(w, work[w].parent, project[work[w].task])
    /\ TakeShare(w, work[w].parent)
    /\ work' = [work EXCEPT ![w].pc = "setLink"]
    /\ UNCHANGED <<rows, excl>>

WriteLink(w) ==
    /\ At(w, "setLink")
    /\ link' = [link EXCEPT ![work[w].task] = work[w].parent]
    /\ Finish(w)
    /\ UNCHANGED <<project, status>>

-----------------------------------------------------------------------------
(* card.insert of a task, under a parent task or not.                      *)

Fresh(t) == project[t] = None /\ \A v \in Writers : ~(At(v, "insert") /\ work[v].task = t)

CheckInsert(w) ==
    /\ Asks(w, "insert")
    /\ \E t \in Tasks, p \in Projects, s \in Statuses, u \in Tasks \cup {None} :
          /\ Fresh(t)
          /\ Enterable(w, p, s)
          /\ IF u = None THEN UNCHANGED share ELSE InProject(w, u, p) /\ TakeShare(w, u)
          /\ work' = [work EXCEPT ![w] =
                [Idle EXCEPT !.pc = "insert", !.task = t, !.to = p, !.status = s, !.parent = u]]
    /\ UNCHANGED <<rows, excl>>

WriteInsert(w) ==
    /\ At(w, "insert")
    /\ project' = [project EXCEPT ![work[w].task] = work[w].to]
    /\ status' = [status EXCEPT ![work[w].task] = work[w].status]
    /\ link' = [link EXCEPT ![work[w].task] = work[w].parent]
    /\ Finish(w)

-----------------------------------------------------------------------------
(* task.move.  The root is locked, the destination's status checked (the   *)
(* starting state when none is asked for); "cascade" takes the subtasks in *)
(* the root's project along, "break" leaves the direct ones there,         *)
(* unlinked.                                                               *)
LockRoot(w) ==
    /\ Asks(w, "move")
    /\ \E t \in Tasks, p \in Projects, s \in Statuses, alone \in BOOLEAN :
          /\ project[t] \notin {None, p}
          /\ CanExclude(w, t)
          /\ Enterable(w, p, s)
          /\ TakeExclusive(w, t)
          /\ work' = [work EXCEPT ![w] = [Idle EXCEPT
                !.pc = IF alone THEN "apply" ELSE "walk", !.alone = alone,
                !.task = t, !.to = p, !.status = s, !.moved = {t}]]
    /\ UNCHANGED <<rows, share>>

\* Mutant of Descendants: the walk joined the wrong way round.
Ancestors(r) == {link[r]}

(* The tasks below r in its project: the least set closed under links.     *)
Descendants(r) ==
    LET Closed(D) == \A t \in Tasks :
                        project[t] = project[r] /\ link[t] \in D \cup {r} => t \in D
    IN  {t \in Tasks \ {r} : \A D \in SUBSET Tasks : Closed(D) => t \in D}

(* The walk repeats until it finds nothing new; then what left the project *)
(* before it was locked is dropped.                                        *)
Walk(w) ==
    LET found == Descendants(work[w].task)
        from == project[work[w].task]
        moved == work[w].moved
    IN  /\ At(w, "walk")
        /\ work' = [work EXCEPT ![w] =
              IF found \subseteq moved
              THEN [work[w] EXCEPT !.pc = "apply", !.moved = {t \in moved : project[t] = from}]
              ELSE [work[w] EXCEPT !.pc = "lock", !.todo = found \ moved, !.moved = moved \cup found]]
        /\ UNCHANGED <<rows, share, excl>>

\* Mutant of LockNext: no second walk after the locks.
LockNextOnly(w) ==
    /\ At(w, "lock")
    /\ \E t \in work[w].todo :
          /\ CanExclude(w, t)
          /\ TakeExclusive(w, t)
          /\ work' = [work EXCEPT ![w] =
                [work[w] EXCEPT !.todo = work[w].todo \ {t}, !.pc = IF work[w].todo = {t} THEN "apply" ELSE "lock"]]
    /\ UNCHANGED <<rows, share>>

(* The rows are locked one at a time (by id; any order does here).         *)
LockNext(w) ==
    /\ At(w, "lock")
    /\ \E t \in work[w].todo :
          /\ CanExclude(w, t)
          /\ TakeExclusive(w, t)
          /\ work' = [work EXCEPT ![w] =
                [work[w] EXCEPT !.todo = work[w].todo \ {t}, !.pc = IF work[w].todo = {t} THEN "walk" ELSE "lock"]]
    /\ UNCHANGED <<rows, share>>

(* Whose parent_task goes: the root's own, when that task stays in another *)
(* project, and a break's direct children in the project it leaves.        *)
Unlinks(w) ==
    LET r == work[w].task
    IN  {t \in Tasks : t = r /\ link[r] # None /\ link[r] \notin work[w].moved
                             /\ project[link[r]] # work[w].to}
        \cup {t \in Tasks : work[w].alone /\ link[t] = r /\ project[t] = project[r]}

Apply(w) ==
    /\ At(w, "apply")
    /\ work' = [work EXCEPT ![w] = [work[w] EXCEPT !.pc = "move", !.gone = Unlinks(w)]]
    /\ UNCHANGED <<rows, share, excl>>

WriteMove(w) ==
    LET moved == work[w].moved
    IN  /\ At(w, "move")
        /\ project' = [t \in Tasks |-> IF t \in moved THEN work[w].to ELSE project[t]]
        /\ status' = [t \in Tasks |-> IF t \in moved THEN work[w].status ELSE status[t]]
        /\ link' = [t \in Tasks |-> IF t \in work[w].gone THEN None ELSE link[t]]
        /\ Finish(w)

-----------------------------------------------------------------------------
Update(w) == CheckStatus(w) \/ WriteStatus(w) \/ LockChild(w) \/ LockParent(w) \/ WriteLink(w)
Insert(w) == CheckInsert(w) \/ WriteInsert(w)
Move(w) == LockRoot(w) \/ Walk(w) \/ LockNext(w) \/ Apply(w) \/ WriteMove(w)

Next == \E w \in Writers : Update(w) \/ Insert(w) \/ Move(w) \/ Abort(w)

Spec == Init /\ [][Next]_vars

-----------------------------------------------------------------------------
(* Properties.                                                             *)

(* A task's status is a state of the flow of the project it is in, and a   *)
(* card of that project, whatever moves while it is set (the row locks of  *)
(* attribute.update and task.move): a task left with another project's     *)
(* status could never be moved on.                                         *)
StatusOfProject ==
    \A t \in Tasks : project[t] # None =>
        HomeOf[status[t]] = project[t] /\ status[t] \in States(project[t])

(* A parent_task is in the task's project: a move takes its subtasks along *)
(* or cuts their links, however subtasks are added while it gathers them   *)
(* (task_move_batch steps 6 to 8).                                         *)
LinksWithinProject == \A t \in Tasks : link[t] # None => project[link[t]] = project[t]

(* A parent_task, when it is set, is in the task's project: neither can be *)
(* moved between the scope check and the commit (attribute_update_batch    *)
(* step 4).                                                                *)
LinkMadeWithin ==
    [][\A t \in Tasks : link'[t] \notin {None, link[t]} => project'[link'[t]] = project'[t]]_vars

(* A status changes only along a step of the flow: what attribute_update   *)
(* says of its gate ("It must also follow a flow_step from prev->new").    *)
FlowFollowed ==
    [][\A t \in Tasks : project[t] # None /\ project'[t] = project[t] /\ status'[t] # status[t]
                            => <<status[t], status'[t]>> \in Steps[project[t]]]_vars

-----------------------------------------------------------------------------
=============================================================================
